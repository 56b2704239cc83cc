------------------------ MODULE WorkflowServiceProofs ------------------------
(***************************************************************************)
(* Proofs about WorkflowService: its safety invariants hold for any number *)
(* of workflows, users, requests, stages and crashes.                      *)
(***************************************************************************)
EXTENDS WorkflowService, TLAPS

-----------------------------------------------------------------------------
(* The service's steps, whoever calls it *)

\* A request arrives, also one that the environment of Next does not send: the
\* modules that extend WorkflowService have callers of their own.
Starts(r) ==
    /\ req[r] = Idle
    /\ \E w \in Workflows :
          \/ PlanCheck(r, w)
          \/ \E op \in LockedOp, s \in Stages \cup {0}, report \in StageStatus :
                (op = "report" => s \in Stages) /\ Submit(r, op, w, s, report)
          \/ \E op \in ControlOp : SubmitControl(r, op, w)

\* A process that is not the service's dies.
CrashElsewhere ==
    /\ crashes' \in 0..MaxCrashes
    /\ UNCHANGED <<memory, req, queue, supervised, disk, diskStale, outcome, lost>>

AnyNext ==
    \/ \E r \in Requests : Starts(r) \/ Proceed(r)
    \/ \E w \in Workflows : SupervisorTimeout(w)
    \/ Crash
    \/ CrashElsewhere

LEMMA ArriveIsStart == ASSUME NEW r \in Requests, Arrive(r) PROVE Starts(r)
  <1>1. req[r] = Idle
    BY DEF Arrive, PlanCheck, Submit, SubmitControl
  <1>2. /\ ReportStatus \subseteq StageStatus
        /\ "report" \in LockedOp /\ "report" \notin ClientOps
        /\ "pending" \in StageStatus
    BY ServiceAssumption DEF StageStatus, LockedOp
  <1> QED
    BY <1>1, <1>2 DEF Arrive, Starts

LEMMA NextIsAny == [Next]_vars => [AnyNext]_vars
  BY ArriveIsStart DEF Next, AnyNext

-----------------------------------------------------------------------------
(* The lifecycle automaton *)

\* send() stays within the states of the automaton.
LEMMA SendType ==
    ASSUME NEW state \in WorkflowState, NEW event \in WorkflowEvent
    PROVE  Send(state, event) \in WorkflowState
  BY DEF Send, Target, WorkflowState, WorkflowEvent

\* Only ARCHIVE, which no handler sends, leaves a final state.
LEMMA FinalTakesNothing ==
    ASSUME NEW state \in Final, NEW event \in WorkflowEvent, event # "ARCHIVE"
    PROVE  ~CanHandle(state, event)
  BY DEF CanHandle, Sources, Final, WorkflowState, WorkflowEvent

\* What a single event other than PLAN and ARCHIVE can lead to.
LEMMA SendMoves ==
    ASSUME NEW state \in WorkflowState, NEW event \in WorkflowEvent,
           event \notin {"PLAN", "REPORT", "ARCHIVE"}
    PROVE  /\ Send(state, event) # "reporting" \/ state = "reporting"
           /\ Send(state, event) # "draft" \/ state = "draft"
           /\ Send(state, event) # "planned" \/ state = "planned"
           /\ Send(state, event) = "succeeded" => state \in {"succeeded", "reporting"}
           /\ state \in Final => Send(state, event) = state
  BY DEF Send, CanHandle, Target, Sources, Final, WorkflowState, WorkflowEvent

\* complete takes a running, verifying or reporting workflow to the end and
\* leaves every other alone.
LEMMA CompleteChainValue ==
    ASSUME NEW state \in WorkflowState
    PROVE  CompleteChain(state) = IF state \in {"running", "verifying", "reporting"}
                                  THEN "succeeded" ELSE state
  BY DEF CompleteChain, Send, CanHandle, Target, Sources, WorkflowState

\* The replay of restoreMachine reaches the status it starts from.
LEMMA RestoreIsExact ==
    ASSUME NEW state \in WorkflowState
    PROVE  RestoreMachine(state) = state
  <1>1. /\ Send("draft", "PLAN") = "planned"
        /\ Send("planned", "START") = "running"
        /\ Send("running", "VERIFY") = "verifying"
        /\ Send("verifying", "REPORT") = "reporting"
        /\ Send("reporting", "COMPLETE") = "succeeded"
    BY DEF Send, CanHandle, Target, Sources, WorkflowState
  <1>2. /\ Send("verifying", "REPAIR") = "repairing"
        /\ Send("running", "WAIT_USER") = "waiting_user"
        /\ Send("running", "BLOCK") = "blocked"
        /\ Send("running", "PAUSE") = "paused"
        /\ Send("planned", "FAIL") = "failed"
        /\ Send("planned", "CANCEL") = "cancelled"
        /\ Send("succeeded", "ARCHIVE") = "archived"
    BY DEF Send, CanHandle, Target, Sources, WorkflowState, Final
  <1> QED
    BY <1>1, <1>2 DEF RestoreMachine, WorkflowState

\* The events the handlers send.
LEMMA EventTypes ==
    /\ \A report \in StageStatus :
          ReportEvent(report) \in WorkflowEvent \ {"PLAN", "START", "REPORT", "ARCHIVE"}
    /\ \A op \in ControlOp :
          ControlEvent(op) \in WorkflowEvent \ {"PLAN", "START", "REPORT", "COMPLETE", "ARCHIVE"}
  BY DEF ReportEvent, ControlEvent, StageStatus, ControlOp, WorkflowEvent

-----------------------------------------------------------------------------
(* The helpers of the handlers *)

\* transitionWorkflow sets status and machine to what send() returns, given
\* that they agreed before.
LEMMA TransitionValue ==
    ASSUME TypeOK, MachineAgrees, NEW w \in Workflows,
           NEW event \in WorkflowEvent, Transition(w, event)
    PROVE  /\ status' = [status EXCEPT ![w] = Send(status[w], event)]
           /\ machine' = [machine EXCEPT ![w] = Send(status[w], event)]
           /\ Send(status[w], event) \in WorkflowState
  <1>1. /\ machine[w] = status[w]
        /\ status \in [Workflows -> WorkflowState]
        /\ machine \in [Workflows -> WorkflowState]
    BY DEF TypeOK, MachineAgrees
  <1>2. machine' = [machine EXCEPT ![w] = Send(status[w], event)]
    BY <1>1 DEF Transition
  <1>3. CASE CanHandle(machine[w], event)
    BY <1>1, <1>2, <1>3, SendType DEF Transition
  <1>4. CASE ~CanHandle(machine[w], event)
    <2>1. Send(status[w], event) = status[w]
      BY <1>1, <1>4 DEF Send
    <2>2. status' = status
      BY <1>4 DEF Transition
    <2>3. status = [status EXCEPT ![w] = status[w]]
      BY <1>1
    <2> QED
      BY <1>1, <1>2, <2>1, <2>2, <2>3
  <1> QED
    BY <1>3, <1>4

LEMMA TransitionType ==
    ASSUME TypeOK, MachineAgrees, NEW w \in Workflows,
           NEW event \in WorkflowEvent, Transition(w, event)
    PROVE  /\ status' \in [Workflows -> WorkflowState]
           /\ machine' \in [Workflows -> WorkflowState]
  <1>1. /\ status' = [status EXCEPT ![w] = Send(status[w], event)]
        /\ machine' = [machine EXCEPT ![w] = Send(status[w], event)]
        /\ Send(status[w], event) \in WorkflowState
    BY TransitionValue
  <1> QED
    BY <1>1 DEF TypeOK

\* A save keeps the type of the file's content.
LEMMA PersistType ==
    ASSUME TypeOK, Persist, store' \in SUBSET Workflows,
           status' \in [Workflows -> WorkflowState],
           stages' \in [Workflows -> [Stages -> StageStatus]]
    PROVE  disk' \in Content /\ diskStale' \in BOOLEAN
  <1>1. disk \in Content
    BY DEF TypeOK
  <1>2. CASE /\ disk' = [keys |-> store', status |-> status', stages |-> stages']
             /\ diskStale' = FALSE
    <2>1. disk' \in Content
      BY <1>2 DEF Content
    <2> QED
      BY <1>2, <2>1
  <1>3. CASE disk' = disk /\ diskStale' = TRUE
    BY <1>1, <1>3
  <1> QED
    BY <1>2, <1>3 DEF Persist

\* A handler that is at work is a call; its phase is all Goto changes of it.
LEMMA CallType ==
    ASSUME TypeOK, NEW r \in Requests, req[r].pc # "idle"
    PROVE  /\ req[r] \in Call
           /\ req[r].wf \in Workflows
           /\ req[r].op \in Op
           /\ req[r].stage \in Stages \cup {0}
           /\ req[r].report \in StageStatus
  <1>1. req[r] \in Call \cup {Idle}
    BY DEF TypeOK
  <1>2. req[r] # Idle
    BY DEF Idle
  <1>3. req[r] \in Call
    BY <1>1, <1>2
  <1> QED
    BY <1>3 DEF Call

LEMMA GotoType ==
    ASSUME TypeOK, NEW r \in Requests, req[r].pc # "idle",
           NEW phase \in Phase, Goto(r, phase)
    PROVE  req' \in [Requests -> Call \cup {Idle}]
  <1>1. req[r] \in Call
    BY CallType
  <1>2. [req[r] EXCEPT !.pc = phase] \in Call
    BY <1>1 DEF Call
  <1>3. req' = [req EXCEPT ![r] = [req[r] EXCEPT !.pc = phase]]
    BY DEF Goto
  <1>4. req \in [Requests -> Call \cup {Idle}]
    BY DEF TypeOK
  <1> QED
    BY <1>2, <1>3, <1>4

LEMMA ReplyType ==
    ASSUME TypeOK, NEW r \in Requests, Reply(r)
    PROVE  req' \in [Requests -> Call \cup {Idle}]
  BY DEF TypeOK, Reply

\* The lock's queues stay sequences of requests.
LEMMA ReleaseType ==
    ASSUME TypeOK, NEW w \in Workflows, Release(w), queue[w] # <<>>
    PROVE  queue' \in [Workflows -> Seq(Requests)]
  <1>1. Tail(queue[w]) \in Seq(Requests)
    BY DEF TypeOK
  <1> QED
    BY <1>1 DEF TypeOK, Release

-----------------------------------------------------------------------------
(* Type correctness *)

LEMMA InitType == Init => TypeOK
  <1> SUFFICES ASSUME Init PROVE TypeOK
    OBVIOUS
  <1> USE ServiceAssumption DEF Init
  <1>1. /\ store \in SUBSET Workflows
        /\ status \in [Workflows -> WorkflowState]
        /\ machine \in [Workflows -> WorkflowState]
    BY DEF WorkflowState
  <1>2. stages \in [Workflows -> [Stages -> StageStatus]]
    BY DEF NoStages, StageStatus
  <1>3. req \in [Requests -> Call \cup {Idle}]
    OBVIOUS
  <1>4. queue \in [Workflows -> Seq(Requests)]
    OBVIOUS
  <1>5. disk \in Content
    BY <1>1, <1>2 DEF Content
  <1>6. /\ supervised \in SUBSET Workflows
        /\ diskStale \in BOOLEAN
        /\ lost \in BOOLEAN
    OBVIOUS
  <1>7. outcome \in [Workflows -> SUBSET {"succeeded", "failed", "cancelled"}]
    OBVIOUS
  <1>8. crashes \in 0..MaxCrashes
    OBVIOUS
  <1> QED
    BY <1>1, <1>2, <1>3, <1>4, <1>5, <1>6, <1>7, <1>8 DEF TypeOK

\* A handler that saves leaves well-typed variables when what it saves is.
LEMMA SaveType ==
    ASSUME TypeOK, Persist,
           store' \in SUBSET Workflows,
           status' \in [Workflows -> WorkflowState],
           machine' \in [Workflows -> WorkflowState],
           stages' \in [Workflows -> [Stages -> StageStatus]],
           req' \in [Requests -> Call \cup {Idle}],
           supervised' \in SUBSET Workflows,
           UNCHANGED <<queue, outcome, lost, crashes>>
    PROVE  TypeOK'
  BY PersistType DEF TypeOK

LEMMA NextType ==
    ASSUME TypeOK, MachineAgrees, PhaseOfOp, LockDiscipline, [AnyNext]_vars
    PROVE  TypeOK'
  <1> USE ServiceAssumption
  <1>1. ASSUME NEW r \in Requests, NEW w \in Workflows, PlanCheck(r, w)
        PROVE  TypeOK'
    <2>1. [pc |-> "planning", op |-> "plan", wf |-> w, stage |-> 0,
           report |-> "pending"] \in Call
      BY DEF Call, Phase, Op, StageStatus
    <2> QED
      BY <1>1, <2>1 DEF PlanCheck, TypeOK, memory
  <1>2. ASSUME NEW r \in Requests, NEW w \in Workflows, NEW op \in LockedOp,
               NEW s \in Stages \cup {0}, NEW report \in StageStatus,
               Submit(r, op, w, s, report)
        PROVE  TypeOK'
    <2>1. [pc |-> "queued", op |-> op, wf |-> w, stage |-> s,
           report |-> report] \in Call
      BY DEF Call, Phase, Op
    <2>2. queue' \in [Workflows -> Seq(Requests)]
      BY <1>2 DEF Submit, TypeOK
    <2>3. req' \in [Requests -> Call \cup {Idle}]
      BY <1>2, <2>1 DEF Submit, TypeOK
    <2> QED
      BY <1>2, <2>2, <2>3 DEF Submit, TypeOK, memory
  <1>3. ASSUME NEW r \in Requests, NEW w \in Workflows, NEW op \in ControlOp,
               SubmitControl(r, op, w)
        PROVE  TypeOK'
    <2>1. [pc |-> "reading", op |-> op, wf |-> w, stage |-> 0,
           report |-> "pending"] \in Call
      BY DEF Call, Phase, Op, StageStatus
    <2> QED
      BY <1>3, <2>1 DEF SubmitControl, TypeOK, memory
  <1>4. ASSUME NEW r \in Requests, PlanStore(r)
        PROVE  TypeOK'
    <2>1. req[r].wf \in Workflows /\ req[r].pc # "idle"
      BY <1>4, CallType DEF PlanStore
    <2>2. req' \in [Requests -> Call \cup {Idle}]
      BY <1>4, <2>1, GotoType DEF PlanStore, Phase
    <2>3. store' \in SUBSET Workflows
      BY <1>4, <2>1 DEF PlanStore, TypeOK
    <2>4. /\ status' \in [Workflows -> WorkflowState]
          /\ machine' \in [Workflows -> WorkflowState]
      BY <1>4, <2>1, SendType DEF PlanStore, TypeOK, WorkflowState, WorkflowEvent
    <2>5. stages' \in [Workflows -> [Stages -> StageStatus]]
      BY <1>4, <2>1 DEF PlanStore, TypeOK, NoStages, StageStatus
    <2>6. supervised' \in SUBSET Workflows
      BY <1>4 DEF PlanStore, TypeOK
    <2> QED
      BY <1>4, <2>2, <2>3, <2>4, <2>5, <2>6, SaveType DEF PlanStore
  <1>5. ASSUME NEW r \in Requests, RejectLocked(r)
        PROVE  TypeOK'
    <2>1. req[r].wf \in Workflows /\ queue[req[r].wf] # <<>>
      BY <1>5, CallType DEF RejectLocked, HoldsLock
    <2>2. queue' \in [Workflows -> Seq(Requests)]
      BY <1>5, <2>1, ReleaseType DEF RejectLocked
    <2>3. req' \in [Requests -> Call \cup {Idle}]
      BY <1>5, ReplyType DEF RejectLocked
    <2> QED
      BY <1>5, <2>2, <2>3 DEF RejectLocked, TypeOK, memory
  <1>6. ASSUME NEW r \in Requests, RejectUnlocked(r)
        PROVE  TypeOK'
    BY <1>6, ReplyType DEF RejectUnlocked, TypeOK, memory
  <1>7. ASSUME NEW r \in Requests, DispatchStart(r)
        PROVE  TypeOK'
    <2>1. req[r].wf \in Workflows /\ req[r].pc # "idle"
      BY <1>7, CallType DEF DispatchStart
    <2>2. req' \in [Requests -> Call \cup {Idle}]
      BY <1>7, <2>1, GotoType DEF DispatchStart, Phase
    <2>3. "START" \in WorkflowEvent
      BY DEF WorkflowEvent
    <2>4. /\ status' \in [Workflows -> WorkflowState]
          /\ machine' \in [Workflows -> WorkflowState]
      <3>1. Transition(req[r].wf, "START")
        BY <1>7 DEF DispatchStart
      <3> QED
        BY <2>1, <2>3, <3>1, TransitionType
    <2> QED
      BY <1>7, <2>2, <2>4 DEF DispatchStart, TypeOK
  <1>8. ASSUME NEW r \in Requests, DispatchSent(r)
        PROVE  TypeOK'
    <2>1. req[r].wf \in Workflows /\ req[r].pc # "idle"
      BY <1>8, CallType DEF DispatchSent
    <2>2. req' \in [Requests -> Call \cup {Idle}]
      BY <1>8, <2>1, GotoType DEF DispatchSent, Phase
    <2>3. stages' \in [Workflows -> [Stages -> StageStatus]]
      BY <1>8, <2>1 DEF DispatchSent, TypeOK, StageStatus
    <2>4. /\ store' \in SUBSET Workflows
          /\ status' \in [Workflows -> WorkflowState]
          /\ machine' \in [Workflows -> WorkflowState]
          /\ supervised' \in SUBSET Workflows
      BY <1>8, <2>1 DEF DispatchSent, TypeOK
    <2> QED
      BY <1>8, <2>2, <2>3, <2>4, SaveType DEF DispatchSent
  <1>9. ASSUME NEW r \in Requests, StageReport(r)
        PROVE  TypeOK'
    <2>1. /\ req[r].wf \in Workflows /\ req[r].pc # "idle"
          /\ req[r].report \in StageStatus
      BY <1>9, CallType DEF StageReport
    <2>2. req' \in [Requests -> Call \cup {Idle}]
      BY <1>9, <2>1, GotoType DEF StageReport, Phase
    <2>3. stages' \in [Workflows -> [Stages -> StageStatus]]
      BY <1>9, <2>1 DEF StageReport, AfterReport, TypeOK, StageStatus
    <2>4. ReportEvent(req[r].report) \in WorkflowEvent
      BY <2>1, EventTypes
    <2>5. /\ status' \in [Workflows -> WorkflowState]
          /\ machine' \in [Workflows -> WorkflowState]
      <3>1. Transition(req[r].wf, ReportEvent(req[r].report))
        BY <1>9 DEF StageReport
      <3> QED
        BY <2>1, <2>4, <3>1, TransitionType
    <2>6. store' \in SUBSET Workflows /\ supervised' \in SUBSET Workflows
      BY <1>9 DEF StageReport, TypeOK
    <2> QED
      BY <1>9, <2>2, <2>3, <2>5, <2>6, SaveType DEF StageReport
  <1>10. ASSUME NEW r \in Requests, Complete(r)
         PROVE  TypeOK'
    <2>1. req[r].wf \in Workflows /\ req[r].pc # "idle"
      BY <1>10, CallType DEF Complete
    <2>2. req' \in [Requests -> Call \cup {Idle}]
      BY <1>10, <2>1, GotoType DEF Complete, Phase
    <2>3. \A state \in WorkflowState : CompleteChain(state) \in WorkflowState
      BY CompleteChainValue DEF WorkflowState
    <2>4. /\ status' \in [Workflows -> WorkflowState]
          /\ machine' \in [Workflows -> WorkflowState]
      BY <1>10, <2>1, <2>3 DEF Complete, TypeOK
    <2>5. /\ store' \in SUBSET Workflows
          /\ supervised' \in SUBSET Workflows
          /\ stages' \in [Workflows -> [Stages -> StageStatus]]
      BY <1>10 DEF Complete, TypeOK
    <2> QED
      BY <1>10, <2>2, <2>4, <2>5, SaveType DEF Complete
  <1>11. ASSUME NEW r \in Requests, Control(r)
         PROVE  TypeOK'
    <2>1. req[r].wf \in Workflows /\ req[r].pc # "idle"
      BY <1>11, CallType DEF Control
    <2>2. req' \in [Requests -> Call \cup {Idle}]
      BY <1>11, <2>1, GotoType DEF Control, Phase
    <2>3. ControlEvent(req[r].op) \in WorkflowEvent
      BY <1>11, EventTypes DEF Control, PhaseOfOp
    <2>4. /\ status' \in [Workflows -> WorkflowState]
          /\ machine' \in [Workflows -> WorkflowState]
      <3>1. Transition(req[r].wf, ControlEvent(req[r].op))
        BY <1>11 DEF Control
      <3> QED
        BY <2>1, <2>3, <3>1, TransitionType
    <2>5. /\ store' \in SUBSET Workflows
          /\ supervised' \in SUBSET Workflows
          /\ stages' \in [Workflows -> [Stages -> StageStatus]]
      BY <1>11 DEF Control, TypeOK
    <2> QED
      BY <1>11, <2>2, <2>4, <2>5, SaveType DEF Control
  <1>12. ASSUME NEW r \in Requests, Finish(r)
         PROVE  TypeOK'
    <2>1. req[r].wf \in Workflows
      BY <1>12, CallType DEF Finish
    <2>2. req' \in [Requests -> Call \cup {Idle}]
      BY <1>12, ReplyType DEF Finish
    <2>3. outcome' \in [Workflows -> SUBSET {"succeeded", "failed", "cancelled"}]
      BY <1>12, <2>1 DEF Finish, OutcomeAfter, TypeOK
    <2>4. queue' \in [Workflows -> Seq(Requests)]
      <3>1. CASE req[r].op \in LockedOp
        <4>1. Release(req[r].wf) /\ queue[req[r].wf] # <<>>
          BY <1>12, <3>1 DEF Finish, LockDiscipline, HoldsLock
        <4> QED
          BY <2>1, <4>1, ReleaseType
      <3>2. CASE req[r].op \notin LockedOp
        BY <1>12, <3>2 DEF Finish, TypeOK
      <3> QED
        BY <3>1, <3>2
    <2> QED
      BY <1>12, <2>2, <2>3, <2>4 DEF Finish, TypeOK, memory
  <1>13. ASSUME NEW w \in Workflows, SupervisorTimeout(w)
         PROVE  TypeOK'
    BY <1>13 DEF SupervisorTimeout, TypeOK, memory
  <1>14. ASSUME Crash
         PROVE  TypeOK'
    <2>1. disk \in Content
      BY DEF TypeOK
    <2>2. store' \in SUBSET Workflows
      BY <1>14, <2>1 DEF Crash, Content
    <2>3. status' \in [Workflows -> WorkflowState]
      BY <1>14, <2>1 DEF Crash, Content, TypeOK
    <2>4. stages' \in [Workflows -> [Stages -> StageStatus]]
      BY <1>14, <2>1 DEF Crash, Content, TypeOK
    <2>5. machine' \in [Workflows -> WorkflowState]
      BY <1>14, <2>1, RestoreIsExact DEF Crash, Content, TypeOK
    <2>6. queue' \in [Workflows -> Seq(Requests)]
      BY <1>14 DEF Crash
    <2>7. req' \in [Requests -> Call \cup {Idle}]
      BY <1>14 DEF Crash
    <2>8. lost' \in BOOLEAN /\ diskStale' \in BOOLEAN
      BY <1>14 DEF Crash, TypeOK
    <2>9. crashes' \in 0..MaxCrashes
      BY <1>14 DEF Crash, TypeOK
    <2> QED
      BY <1>14, <2>2, <2>3, <2>4, <2>5, <2>6, <2>7, <2>8, <2>9
         DEF Crash, TypeOK
  <1>15. CASE UNCHANGED vars
    BY <1>15 DEF vars, TypeOK
  <1>16. CASE CrashElsewhere
    BY <1>16 DEF CrashElsewhere, TypeOK, memory
  <1> QED
    BY <1>1, <1>2, <1>3, <1>4, <1>5, <1>6, <1>7, <1>8, <1>9, <1>10, <1>11,
       <1>12, <1>13, <1>14, <1>15, <1>16 DEF AnyNext, Starts, Proceed

-----------------------------------------------------------------------------
(* How a step changes the status of workflows *)

\* The events that can reach a workflow by Transition.
SentEvent == WorkflowEvent \ {"PLAN", "REPORT", "ARCHIVE"}

\* A step plans the id of a plan request, sends one event to one workflow,
\* completes one, restarts the service, or leaves every status alone.
StatusStep ==
    \/ UNCHANGED <<status, machine>>
    \/ \E r \in Requests : PlanStore(r)
    \/ \E r \in Requests : Complete(r)
    \/ \E r \in Requests, event \in SentEvent :
          /\ req[r].pc \in {"queued", "reading"}
          /\ req[r].wf \in Workflows
          /\ event = "COMPLETE" => StageReport(r)
          /\ event = "START" => DispatchStart(r)
          /\ event \notin {"START"} => StageReport(r) \/ Control(r)
          /\ Transition(req[r].wf, event)
    \/ Crash

LEMMA StatusSteps ==
    ASSUME TypeOK, PhaseOfOp, [AnyNext]_vars
    PROVE  StatusStep
  <1>1. ASSUME NEW r \in Requests, DispatchStart(r)
        PROVE  StatusStep
    <2>1. req[r].wf \in Workflows
      BY <1>1, CallType DEF DispatchStart
    <2>2. "START" \in SentEvent
      BY DEF SentEvent, WorkflowEvent
    <2> QED
      BY <1>1, <2>1, <2>2 DEF DispatchStart, StatusStep
  <1>2. ASSUME NEW r \in Requests, StageReport(r)
        PROVE  StatusStep
    <2>1. req[r].wf \in Workflows /\ req[r].report \in StageStatus
      BY <1>2, CallType DEF StageReport
    <2>2. /\ ReportEvent(req[r].report) \in SentEvent
          /\ ReportEvent(req[r].report) # "START"
      BY <2>1, EventTypes DEF SentEvent
    <2>3. /\ req[r].pc = "queued"
          /\ Transition(req[r].wf, ReportEvent(req[r].report))
      BY <1>2 DEF StageReport
    <2> QED
      BY <1>2, <2>1, <2>2, <2>3 DEF StatusStep
  <1>3. ASSUME NEW r \in Requests, Control(r)
        PROVE  StatusStep
    <2>1. req[r].wf \in Workflows /\ req[r].op \in ControlOp
      BY <1>3, CallType DEF Control, PhaseOfOp
    <2>2. /\ ControlEvent(req[r].op) \in SentEvent
          /\ ControlEvent(req[r].op) \notin {"START", "COMPLETE"}
      BY <2>1, EventTypes DEF SentEvent
    <2>3. /\ req[r].pc = "reading"
          /\ Transition(req[r].wf, ControlEvent(req[r].op))
      BY <1>3 DEF Control
    <2> QED
      BY <1>3, <2>1, <2>2, <2>3 DEF StatusStep
  <1>4. ASSUME NEW r \in Requests, Starts(r) PROVE UNCHANGED <<status, machine>>
    BY <1>4 DEF Starts, PlanCheck, Submit, SubmitControl, memory
  <1>5. ASSUME NEW r \in Requests,
               RejectLocked(r) \/ RejectUnlocked(r) \/ DispatchSent(r) \/ Finish(r)
        PROVE  UNCHANGED <<status, machine>>
    BY <1>5 DEF RejectLocked, RejectUnlocked, DispatchSent, Finish, memory
  <1>6. ASSUME NEW w \in Workflows, SupervisorTimeout(w)
        PROVE  UNCHANGED <<status, machine>>
    BY <1>6 DEF SupervisorTimeout, memory
  <1>7. CASE UNCHANGED vars \/ CrashElsewhere
    BY <1>7 DEF vars, CrashElsewhere, memory, StatusStep
  <1> QED
    BY <1>1, <1>2, <1>3, <1>4, <1>5, <1>6, <1>7 DEF AnyNext, Proceed, StatusStep

\* What the one event sent does.
LEMMA SentEffect ==
    ASSUME TypeOK, MachineAgrees, NEW w \in Workflows,
           NEW event \in SentEvent, Transition(w, event)
    PROVE  /\ status' = [status EXCEPT ![w] = Send(status[w], event)]
           /\ machine' = [machine EXCEPT ![w] = Send(status[w], event)]
           /\ Send(status[w], event) \in WorkflowState
           /\ status[w] \in WorkflowState
  <1>1. event \in WorkflowEvent
    BY DEF SentEvent
  <1> QED
    BY <1>1, TransitionValue DEF TypeOK

\* What complete does.
LEMMA CompleteEffect ==
    ASSUME TypeOK, MachineAgrees, NEW r \in Requests, Complete(r)
    PROVE  /\ req[r].wf \in Workflows
           /\ status' = [status EXCEPT ![req[r].wf] =
                           IF status[req[r].wf] \in {"running", "verifying", "reporting"}
                           THEN "succeeded" ELSE status[req[r].wf]]
           /\ machine' = [machine EXCEPT ![req[r].wf] = status'[req[r].wf]]
  <1>1. req[r].wf \in Workflows
    BY CallType DEF Complete
  <1>2. status[req[r].wf] \in WorkflowState /\ machine[req[r].wf] = status[req[r].wf]
    BY <1>1 DEF TypeOK, MachineAgrees
  <1>3. /\ status' = [status EXCEPT ![req[r].wf] = CompleteChain(status[req[r].wf])]
        /\ machine' = [machine EXCEPT ![req[r].wf] = CompleteChain(machine[req[r].wf])]
    BY DEF Complete
  <1>4. status \in [Workflows -> WorkflowState]
    BY DEF TypeOK
  <1> QED
    BY <1>1, <1>2, <1>3, <1>4, CompleteChainValue

\* What a plan that is stored does.
LEMMA PlanEffect ==
    ASSUME TypeOK, NEW r \in Requests, PlanStore(r)
    PROVE  /\ req[r].wf \in Workflows
           /\ status' = [status EXCEPT ![req[r].wf] = "planned"]
           /\ machine' = [machine EXCEPT ![req[r].wf] = "planned"]
  <1>1. Send("draft", "PLAN") = "planned"
    BY DEF Send, CanHandle, Target, Sources
  <1> QED
    BY <1>1, CallType DEF PlanStore

LEMMA NextMachineAgrees ==
    ASSUME TypeOK, MachineAgrees, PhaseOfOp, [AnyNext]_vars
    PROVE  MachineAgrees'
  <1>1. /\ status \in [Workflows -> WorkflowState]
        /\ machine \in [Workflows -> WorkflowState]
        /\ disk \in Content
    BY DEF TypeOK
  <1>2. CASE UNCHANGED <<status, machine>>
    BY <1>2 DEF MachineAgrees
  <1>3. ASSUME NEW r \in Requests, PlanStore(r) PROVE MachineAgrees'
    BY <1>1, <1>3, PlanEffect DEF MachineAgrees
  <1>4. ASSUME NEW r \in Requests, Complete(r) PROVE MachineAgrees'
    BY <1>1, <1>4, CompleteEffect DEF MachineAgrees
  <1>5. ASSUME NEW w \in Workflows, NEW event \in SentEvent, Transition(w, event)
        PROVE  MachineAgrees'
    BY <1>1, <1>5, SentEffect DEF MachineAgrees
  <1>6. CASE Crash
    <2>1. \A w \in disk.keys : RestoreMachine(disk.status[w]) = disk.status[w]
      BY <1>1, RestoreIsExact DEF Content
    <2> QED
      BY <1>1, <1>6, <2>1 DEF Crash, MachineAgrees
  <1> QED
    BY <1>2, <1>3, <1>4, <1>5, <1>6, StatusSteps DEF StatusStep

-----------------------------------------------------------------------------
(* How a step changes the handlers *)

\* Goto changes the phase and nothing else, and of one handler only.
LEMMA GotoEffect ==
    ASSUME TypeOK, NEW r \in Requests, req[r].pc # "idle", NEW phase, Goto(r, phase)
    PROVE  /\ req'[r].pc = phase
           /\ req'[r].op = req[r].op
           /\ req'[r].wf = req[r].wf
           /\ req'[r].stage = req[r].stage
           /\ req'[r].report = req[r].report
           /\ \A q \in Requests : q # r => req'[q] = req[q]
  <1>1. req[r] \in Call
    BY CallType
  <1>2. req' = [req EXCEPT ![r] = [req[r] EXCEPT !.pc = phase]]
    BY DEF Goto
  <1>3. req'[r] = [req[r] EXCEPT !.pc = phase]
    BY <1>2 DEF TypeOK
  <1> QED
    BY <1>1, <1>2, <1>3 DEF TypeOK, Call

LEMMA ReplyEffect ==
    ASSUME TypeOK, NEW r \in Requests, Reply(r)
    PROVE  /\ req'[r].pc = "idle"
           /\ \A q \in Requests : q # r => req'[q] = req[q]
  BY DEF TypeOK, Reply, Idle

\* The handlers' steps: one handler starts, moves on or replies, all are gone,
\* or none is concerned.
Finishes(r) ==
    /\ Goto(r, "finishing")
    /\ PlanStore(r) \/ DispatchSent(r) \/ StageReport(r) \/ Complete(r) \/ Control(r)

ReqStep ==
    \/ UNCHANGED req /\ UNCHANGED queue
    \/ \E r \in Requests : Starts(r)
    \/ \E r \in Requests : DispatchStart(r) /\ Goto(r, "posting")
    \/ \E r \in Requests : Finishes(r)
    \/ \E r \in Requests :
          Reply(r) /\ (RejectLocked(r) \/ RejectUnlocked(r) \/ Finish(r))
    \/ Crash

LEMMA ReqSteps == ASSUME TypeOK, [AnyNext]_vars PROVE ReqStep
  <1>2. ASSUME NEW r \in Requests, Proceed(r) PROVE ReqStep
    BY <1>2 DEF Proceed, ReqStep, Finishes, PlanStore, RejectLocked,
                RejectUnlocked, DispatchStart, DispatchSent, StageReport,
                Complete, Control, Finish
  <1>3. ASSUME NEW w \in Workflows, SupervisorTimeout(w) PROVE ReqStep
    BY <1>3 DEF SupervisorTimeout, ReqStep
  <1>4. CASE UNCHANGED vars \/ CrashElsewhere
    BY <1>4 DEF vars, CrashElsewhere, ReqStep
  <1> QED
    BY <1>2, <1>3, <1>4 DEF AnyNext, ReqStep

\* What a new handler looks like.
LEMMA StartEffect ==
    ASSUME TypeOK, NEW r \in Requests, Starts(r)
    PROVE  /\ \A q \in Requests : q # r => req'[q] = req[q]
           /\ \/ /\ req'[r].pc = "planning" /\ req'[r].op = "plan"
                 /\ Fresh(req'[r].wf) /\ UNCHANGED queue
              \/ /\ req'[r].pc = "queued" /\ req'[r].op \in LockedOp
                 /\ req'[r].wf \in Workflows
                 /\ status[req'[r].wf] # "draft"
                 /\ req'[r].op = "report" => req'[r].stage \in Stages
                 /\ queue' = [queue EXCEPT ![req'[r].wf] = Append(@, r)]
              \/ /\ req'[r].pc = "reading" /\ req'[r].op \in ControlOp
                 /\ req'[r].wf \in store /\ UNCHANGED queue
           /\ UNCHANGED <<memory, supervised, disk, diskStale, outcome, lost>>
  BY DEF Starts, TypeOK, PlanCheck, Submit, SubmitControl

LEMMA NextPhaseOfOp ==
    ASSUME TypeOK, PhaseOfOp, [AnyNext]_vars
    PROVE  PhaseOfOp'
  <1>1. CASE UNCHANGED req
    BY <1>1 DEF PhaseOfOp
  <1>2. ASSUME NEW r \in Requests, Starts(r) PROVE PhaseOfOp'
    BY <1>2, StartEffect DEF PhaseOfOp
  <1>3. ASSUME NEW r \in Requests, DispatchStart(r) PROVE PhaseOfOp'
    BY <1>3, GotoEffect DEF DispatchStart, PhaseOfOp
  <1>4. ASSUME NEW r \in Requests, Finishes(r) PROVE PhaseOfOp'
    <2>1. req[r].pc # "idle"
      BY <1>4 DEF Finishes, PlanStore, DispatchSent, StageReport, Complete, Control
    <2> QED
      BY <1>4, <2>1, GotoEffect DEF Finishes, PhaseOfOp
  <1>5. ASSUME NEW r \in Requests, Reply(r) PROVE PhaseOfOp'
    BY <1>5, ReplyEffect DEF PhaseOfOp
  <1>6. CASE Crash
    BY <1>6 DEF Crash, Idle, PhaseOfOp
  <1> QED
    BY <1>1, <1>2, <1>3, <1>4, <1>5, <1>6, ReqSteps DEF ReqStep

-----------------------------------------------------------------------------
(* Workflow ids: planned once *)

\* The file changes only by a save, which writes what the store is then.
LEMMA DiskStep ==
    ASSUME [AnyNext]_vars
    PROVE  Persist \/ UNCHANGED <<disk, diskStale>> \/ Crash
  <1>1. ASSUME NEW r \in Requests, Starts(r) PROVE UNCHANGED <<disk, diskStale>>
    BY <1>1 DEF Starts, PlanCheck, Submit, SubmitControl
  <1>2. ASSUME NEW r \in Requests,
               RejectLocked(r) \/ RejectUnlocked(r) \/ DispatchStart(r) \/ Finish(r)
        PROVE  UNCHANGED <<disk, diskStale>>
    BY <1>2 DEF RejectLocked, RejectUnlocked, DispatchStart, Finish
  <1>3. ASSUME NEW r \in Requests,
               \/ PlanStore(r)
               \/ DispatchSent(r)
               \/ StageReport(r)
               \/ Complete(r)
               \/ Control(r)
        PROVE  Persist
    BY <1>3, Zenon DEF PlanStore, DispatchSent, StageReport, Complete, Control
  <1>4. ASSUME NEW w \in Workflows, SupervisorTimeout(w)
        PROVE  UNCHANGED <<disk, diskStale>>
    BY <1>4 DEF SupervisorTimeout
  <1>5. CASE UNCHANGED vars \/ CrashElsewhere
    BY <1>5 DEF vars, CrashElsewhere
  <1> QED
    BY <1>1, <1>2, <1>3, <1>4, <1>5, Zenon DEF AnyNext, Proceed

\* The store changes when a plan is stored and at a restart.
LEMMA StoreStep ==
    ASSUME [AnyNext]_vars
    PROVE  \/ store' = store
           \/ \E r \in Requests : PlanStore(r)
           \/ Crash
  <1>1. ASSUME NEW r \in Requests, Starts(r) PROVE store' = store
    BY <1>1 DEF Starts, PlanCheck, Submit, SubmitControl, memory
  <1>2. ASSUME NEW r \in Requests, Proceed(r), ~PlanStore(r) PROVE store' = store
    BY <1>2 DEF Proceed, RejectLocked, RejectUnlocked, DispatchStart, DispatchSent, StageReport,
       Complete, Control, Finish, memory
  <1>3. ASSUME NEW w \in Workflows, SupervisorTimeout(w) PROVE store' = store
    BY <1>3 DEF SupervisorTimeout, memory
  <1>4. CrashElsewhere \/ UNCHANGED vars => store' = store
    BY DEF CrashElsewhere, vars, memory
  <1> QED
    BY <1>1, <1>2, <1>3, <1>4 DEF AnyNext

\* No step but these two makes or ends a draft.
LEMMA DraftKept ==
    ASSUME TypeOK, MachineAgrees, PhaseOfOp, PlannedOnce, [AnyNext]_vars,
           ~Crash, \A r \in Requests : ~PlanStore(r)
    PROVE  \A w \in Workflows : status'[w] = "draft" <=> status[w] = "draft"
  <1>1. status \in [Workflows -> WorkflowState]
    BY DEF TypeOK
  <1>2. CASE UNCHANGED <<status, machine>>
    BY <1>2
  <1>3. ASSUME NEW r \in Requests, Complete(r)
        PROVE  \A w \in Workflows : status'[w] = "draft" <=> status[w] = "draft"
    BY <1>1, <1>3, CompleteEffect
  <1>4. ASSUME NEW r \in Requests, NEW event \in SentEvent,
               req[r].pc \in {"queued", "reading"}, req[r].wf \in Workflows,
               Transition(req[r].wf, event)
        PROVE  \A w \in Workflows : status'[w] = "draft" <=> status[w] = "draft"
    <2>1. status[req[r].wf] # "draft"
      BY <1>4 DEF PlannedOnce
    <2>2. Send(status[req[r].wf], event) # "draft"
      BY <1>1, <1>4, <2>1, SendMoves DEF SentEvent
    <2> QED
      BY <1>1, <1>4, <2>1, <2>2, SentEffect
  <1> QED
    BY <1>2, <1>3, <1>4, StatusSteps DEF StatusStep

LEMMA NextPlannedOnce ==
    ASSUME TypeOK, MachineAgrees, PhaseOfOp, PlannedOnce, [AnyNext]_vars
    PROVE  PlannedOnce'
  <1>1. \A w \in store' : status'[w] # "draft"
    <2>1. CASE Crash
      BY <2>1 DEF Crash, PlannedOnce, TypeOK, Content
    <2>2. ASSUME NEW r \in Requests, PlanStore(r)
          PROVE  \A w \in store' : status'[w] # "draft"
      <3>1. store' \subseteq store \cup {req[r].wf}
        BY <2>2 DEF PlanStore
      <3>2. store \subseteq Workflows /\ status \in [Workflows -> WorkflowState]
        BY DEF TypeOK
      <3> QED
        BY <2>2, <3>1, <3>2, PlanEffect DEF PlannedOnce
    <2>3. CASE ~Crash /\ \A r \in Requests : ~PlanStore(r)
      BY <2>3, StoreStep, DraftKept DEF PlannedOnce, TypeOK
    <2> QED
      BY <2>1, <2>2, <2>3
  <1>2. \A w \in disk'.keys : disk'.status[w] # "draft"
    <2>1. CASE disk' = [keys |-> store', status |-> status', stages |-> stages']
      BY <1>1, <2>1
    <2>2. CASE disk' = disk
      BY <2>2 DEF PlannedOnce
    <2> QED
      BY <2>1, <2>2, DiskStep DEF Persist, Crash
  <1>3. /\ \A r \in Requests :
             /\ req'[r].pc = "planning" => status'[req'[r].wf] = "draft"
             /\ req'[r].pc \in {"queued", "reading"} => status'[req'[r].wf] # "draft"
        /\ \A r, q \in Requests :
             req'[r].pc = "planning" /\ req'[q].pc = "planning"
                /\ req'[r].wf = req'[q].wf => r = q
    <2> DEFINE Drafts ==
          /\ \A r \in Requests :
               /\ req'[r].pc = "planning" => status'[req'[r].wf] = "draft"
               /\ req'[r].pc \in {"queued", "reading"} => status'[req'[r].wf] # "draft"
          /\ \A r, q \in Requests :
               req'[r].pc = "planning" /\ req'[q].pc = "planning"
                  /\ req'[r].wf = req'[q].wf => r = q
    <2>1. CASE Crash
      BY <2>1 DEF Crash, Idle
    <2>2. ASSUME NEW r \in Requests, PlanStore(r) PROVE Drafts
      <3>1. /\ req[r].pc = "planning"
            /\ Goto(r, "finishing")
        BY <2>2 DEF PlanStore
      <3>2. /\ req'[r].pc = "finishing"
            /\ \A q \in Requests : q # r => req'[q] = req[q]
        BY <3>1, GotoEffect
      <3>3. /\ req[r].wf \in Workflows
            /\ status' = [status EXCEPT ![req[r].wf] = "planned"]
            /\ status \in [Workflows -> WorkflowState]
        BY <2>2, PlanEffect DEF TypeOK
      <3>4. \A q \in Requests : req[q].pc # "idle" => req[q].wf \in Workflows
        BY CallType
      <3> QED
        BY <3>1, <3>2, <3>3, <3>4 DEF PlannedOnce
    <2>3. CASE ~Crash /\ \A r \in Requests : ~PlanStore(r)
      <3>1. \A w \in Workflows : status'[w] = "draft" <=> status[w] = "draft"
        BY <2>3, DraftKept
      <3>2. \A q \in Requests : req[q].pc # "idle" => req[q].wf \in Workflows
        BY CallType
      <3>3. CASE UNCHANGED req
        BY <3>1, <3>2, <3>3 DEF PlannedOnce
      <3>4. ASSUME NEW r \in Requests, Starts(r) PROVE Drafts
        <4>1. status' = status
          BY <3>4, StartEffect DEF memory
        <4>2. /\ req'[r].pc \in {"planning", "queued", "reading"}
              /\ req'[r].pc = "planning" => Fresh(req'[r].wf)
              /\ req'[r].pc # "planning" => status[req'[r].wf] # "draft"
              /\ \A q \in Requests : q # r => req'[q] = req[q]
          BY <3>4, StartEffect DEF PlannedOnce
        <4>3. req[r].pc = "idle"
          BY <3>4 DEF Starts, Idle
        <4> QED
          BY <4>1, <4>2, <4>3 DEF PlannedOnce, Fresh
      <3>5. ASSUME NEW r \in Requests, NEW phase \in {"posting", "finishing"},
                   req[r].pc # "idle", Goto(r, phase)
            PROVE  Drafts
        BY <3>1, <3>2, <3>5, GotoEffect DEF PlannedOnce
      <3>6. ASSUME NEW r \in Requests, Reply(r) PROVE Drafts
        BY <3>1, <3>2, <3>6, ReplyEffect DEF PlannedOnce
      <3>7. ASSUME NEW r \in Requests,
                   DispatchStart(r) \/ Finishes(r)
            PROVE  req[r].pc # "idle"
        BY <3>7 DEF DispatchStart, Finishes, PlanStore, DispatchSent,
                    StageReport, Complete, Control
      <3> QED
        BY <2>3, <3>3, <3>4, <3>5, <3>6, <3>7, ReqSteps DEF ReqStep, Finishes
    <2> QED
      BY <2>1, <2>2, <2>3
  <1> QED
    BY <1>1, <1>2, <1>3 DEF PlannedOnce

-----------------------------------------------------------------------------
(* The lock *)

\* The handlers LockDiscipline is about.
Inside(r) == req[r].pc = "posting" \/ (req[r].pc = "finishing" /\ req[r].op \in LockedOp)

\* Two handlers that hold the lock of one workflow are the same.
LEMMA MutualExclusion ==
    ASSUME NEW r \in Requests, NEW q \in Requests, HoldsLock(r), HoldsLock(q),
           req[r].wf = req[q].wf
    PROVE  r = q
  BY DEF HoldsLock

\* Who keeps its place in an untouched queue keeps the lock.
LEMMA LockKept ==
    ASSUME NEW q \in Requests, HoldsLock(q), req'[q].wf = req[q].wf,
           req'[q].pc # "idle", queue'[req[q].wf] = queue[req[q].wf]
    PROVE  HoldsLock(q)'
  BY DEF HoldsLock

LEMMA ReleaseKeepsOthers ==
    ASSUME TypeOK, LockDiscipline, NEW r \in Requests, HoldsLock(r), Reply(r),
           Release(req[r].wf)
    PROVE  LockDiscipline'
  <1> SUFFICES ASSUME NEW q \in Requests, Inside(q)' PROVE HoldsLock(q)'
    BY DEF LockDiscipline, Inside
  <1>1. q # r /\ req'[q] = req[q]
    BY ReplyEffect DEF Inside
  <1>2. Inside(q) /\ HoldsLock(q)
    BY <1>1 DEF Inside, LockDiscipline
  <1>3. req[q].wf # req[r].wf
    BY <1>1, <1>2, MutualExclusion
  <1>4. req[q].wf \in Workflows
    BY <1>2, CallType DEF Inside
  <1>5. queue'[req[q].wf] = queue[req[q].wf]
    BY <1>3, <1>4 DEF Release, TypeOK
  <1> QED
    BY <1>1, <1>2, <1>5, LockKept DEF Inside

LEMMA NextLockDiscipline ==
    ASSUME TypeOK, PhaseOfOp, LockDiscipline, [AnyNext]_vars
    PROVE  LockDiscipline'
  <1>1. CASE UNCHANGED req /\ UNCHANGED queue
    BY <1>1 DEF LockDiscipline, HoldsLock
  <1>2. ASSUME NEW r \in Requests, Starts(r) PROVE LockDiscipline'
    <2> SUFFICES ASSUME NEW q \in Requests, Inside(q)' PROVE HoldsLock(q)'
      BY DEF LockDiscipline, Inside
    <2>1. q # r /\ req'[q] = req[q]
      BY <1>2, StartEffect DEF Inside
    <2>2. Inside(q) /\ HoldsLock(q)
      BY <2>1 DEF Inside, LockDiscipline
    <2>3. req[q].wf \in Workflows
      BY <2>2, CallType DEF Inside
    <2>4. CASE UNCHANGED queue
      BY <2>1, <2>2, <2>4, LockKept DEF Inside
    <2>5. ASSUME NEW w \in Workflows, queue' = [queue EXCEPT ![w] = Append(@, r)]
          PROVE  HoldsLock(q)'
      <3>1. CASE w # req[q].wf
        <4>1. queue'[req[q].wf] = queue[req[q].wf]
          BY <2>3, <2>5, <3>1 DEF TypeOK
        <4> QED
          BY <2>1, <2>2, <4>1, LockKept DEF Inside
      <3>2. CASE w = req[q].wf
        <4>1. /\ queue[w] \in Seq(Requests)
              /\ queue[w] # <<>>
              /\ Head(queue[w]) = q
          BY <2>2, <3>2 DEF HoldsLock, TypeOK
        <4>2. queue'[w] = Append(queue[w], r)
          BY <2>5 DEF TypeOK
        <4>3. queue'[w] # <<>> /\ Head(queue'[w]) = q
          BY <4>1, <4>2
        <4> QED
          BY <2>1, <2>2, <3>2, <4>3 DEF HoldsLock
      <3> QED
        BY <3>1, <3>2
    <2> QED
      BY <1>2, <2>4, <2>5, StartEffect
  <1>3. ASSUME NEW r \in Requests, DispatchStart(r), Goto(r, "posting")
        PROVE  LockDiscipline'
    <2>1. HoldsLock(r) /\ UNCHANGED queue /\ req[r].pc # "idle"
      BY <1>3 DEF DispatchStart
    <2>2. /\ req'[r].pc = "posting" /\ req'[r].wf = req[r].wf
          /\ \A q \in Requests : q # r => req'[q] = req[q]
      BY <1>3, <2>1, GotoEffect
    <2> QED
      BY <2>1, <2>2 DEF LockDiscipline, HoldsLock
  <1>4. ASSUME NEW r \in Requests, Finishes(r) PROVE LockDiscipline'
    <2>1. /\ req[r].pc # "idle"
          /\ UNCHANGED queue
          /\ req[r].op \in LockedOp => HoldsLock(r)
      BY <1>4 DEF Finishes, PlanStore, DispatchSent, StageReport, Complete,
                  Control, PhaseOfOp, LockDiscipline, LockedOp, ControlOp
    <2>2. /\ req'[r].pc = "finishing" /\ req'[r].op = req[r].op
          /\ req'[r].wf = req[r].wf
          /\ \A q \in Requests : q # r => req'[q] = req[q]
      BY <1>4, <2>1, GotoEffect DEF Finishes
    <2> QED
      BY <2>1, <2>2 DEF LockDiscipline, HoldsLock
  <1>5. ASSUME NEW r \in Requests, Reply(r), UNCHANGED queue PROVE LockDiscipline'
    <2>1. /\ req'[r].pc = "idle"
          /\ \A q \in Requests : q # r => req'[q] = req[q]
      BY <1>5, ReplyEffect
    <2> QED
      BY <1>5, <2>1 DEF LockDiscipline, HoldsLock
  <1>6. ASSUME NEW r \in Requests, RejectLocked(r) PROVE LockDiscipline'
    BY <1>6, ReleaseKeepsOthers DEF RejectLocked
  <1>7. ASSUME NEW r \in Requests, RejectUnlocked(r) PROVE UNCHANGED queue
    BY <1>7 DEF RejectUnlocked
  <1>8. ASSUME NEW r \in Requests, Finish(r), Reply(r) PROVE LockDiscipline'
    <2>1. CASE req[r].op \in LockedOp
      <3>1. HoldsLock(r) /\ Release(req[r].wf)
        BY <1>8, <2>1 DEF Finish, LockDiscipline
      <3> QED
        BY <1>8, <3>1, ReleaseKeepsOthers
    <2>2. CASE req[r].op \notin LockedOp
      BY <1>5, <1>8, <2>2 DEF Finish
    <2> QED
      BY <2>1, <2>2
  <1>9. CASE Crash
    BY <1>9 DEF Crash, Idle, LockDiscipline
  <1> QED
    BY <1>1, <1>2, <1>3, <1>4, <1>5, <1>6, <1>7, <1>8, <1>9, ReqSteps DEF ReqStep

-----------------------------------------------------------------------------
(* What a running dispatch and supervision rely on *)

\* "reporting" is not entered by a single event.
LEMMA NextNeverReporting ==
    ASSUME TypeOK, MachineAgrees, PhaseOfOp, NeverReporting, [AnyNext]_vars
    PROVE  NeverReporting'
  <1>1. status \in [Workflows -> WorkflowState]
    BY DEF TypeOK
  <1>2. \A w \in Workflows : status'[w] # "reporting"
    <2>1. CASE UNCHANGED <<status, machine>>
      BY <2>1 DEF NeverReporting
    <2>2. ASSUME NEW r \in Requests, PlanStore(r)
          PROVE  \A w \in Workflows : status'[w] # "reporting"
      BY <1>1, <2>2, PlanEffect DEF NeverReporting
    <2>3. ASSUME NEW r \in Requests, Complete(r)
          PROVE  \A w \in Workflows : status'[w] # "reporting"
      BY <1>1, <2>3, CompleteEffect DEF NeverReporting
    <2>4. ASSUME NEW w \in Workflows, NEW event \in SentEvent, Transition(w, event)
          PROVE  \A v \in Workflows : status'[v] # "reporting"
      <3>1. Send(status[w], event) # "reporting"
        BY <1>1, SendMoves DEF SentEvent, NeverReporting
      <3> QED
        BY <1>1, <2>4, <3>1, SentEffect DEF NeverReporting
    <2>5. CASE Crash
      BY <1>1, <2>5 DEF Crash, NeverReporting
    <2> QED
      BY <2>1, <2>2, <2>3, <2>4, <2>5, StatusSteps DEF StatusStep
  <1>3. \A w \in Workflows : disk'.status[w] # "reporting"
    <2>1. CASE disk' = [keys |-> store', status |-> status', stages |-> stages']
      BY <1>2, <2>1
    <2>2. CASE disk' = disk
      BY <2>2 DEF NeverReporting
    <2> QED
      BY <2>1, <2>2, DiskStep DEF Persist, Crash
  <1> QED
    BY <1>2, <1>3 DEF NeverReporting

\* The states in which no dispatch is awaited and nothing is supervised.
Unstarted == {"draft", "planned", "succeeded"}

\* Outside complete, a workflow that was started and has not succeeded stays so.
LEMMA StartedStays ==
    ASSUME TypeOK, MachineAgrees, PhaseOfOp, PlannedOnce, NeverReporting,
           [AnyNext]_vars, ~Crash, NEW w \in Workflows, status[w] \notin Unstarted,
           \A r \in Requests : Complete(r) => req[r].wf # w
    PROVE  status'[w] \notin Unstarted
  <1>1. status \in [Workflows -> WorkflowState]
    BY DEF TypeOK
  <1>2. CASE UNCHANGED <<status, machine>>
    BY <1>2
  <1>3. ASSUME NEW r \in Requests, PlanStore(r) PROVE status'[w] \notin Unstarted
    <2>1. status[req[r].wf] = "draft"
      BY <1>3 DEF PlanStore, PlannedOnce
    <2> QED
      BY <1>1, <1>3, <2>1, PlanEffect DEF Unstarted
  <1>4. ASSUME NEW r \in Requests, Complete(r) PROVE status'[w] \notin Unstarted
    BY <1>1, <1>4, CompleteEffect
  <1>5. ASSUME NEW v \in Workflows, NEW event \in SentEvent, Transition(v, event)
        PROVE  status'[w] \notin Unstarted
    <2>1. status[w] # "reporting"
      BY DEF NeverReporting
    <2>2. Send(status[w], event) \notin Unstarted
      BY <1>1, <2>1, SendMoves DEF SentEvent, Unstarted
    <2> QED
      BY <1>1, <1>5, <2>2, SentEffect
  <1> QED
    BY <1>2, <1>3, <1>4, <1>5, StatusSteps DEF StatusStep

LEMMA NextDispatchUnderway ==
    ASSUME TypeOK, MachineAgrees, PhaseOfOp, PlannedOnce, NeverReporting,
           LockDiscipline, DispatchUnderway, [AnyNext]_vars
    PROVE  DispatchUnderway'
  <1>1. CASE Crash
    BY <1>1 DEF Crash, Idle, DispatchUnderway
  <1>2. CASE ~Crash
    <2> SUFFICES ASSUME NEW q \in Requests, req'[q].pc = "posting"
                 PROVE  status'[req'[q].wf] \notin Unstarted
      BY DEF DispatchUnderway, Unstarted
    <2>1. CASE DispatchStart(q)
      <3>1. /\ req[q].wf \in Workflows
            /\ req[q].pc # "idle"
            /\ Goto(q, "posting")
        BY <2>1, CallType DEF DispatchStart
      <3>2. req'[q].wf = req[q].wf
        BY <3>1, GotoEffect
      <3>3. "START" \in SentEvent
        BY DEF SentEvent, WorkflowEvent
      <3>4. /\ CanHandle(status[req[q].wf], "START")
            /\ Transition(req[q].wf, "START")
        BY <2>1, <3>1 DEF DispatchStart, MachineAgrees
      <3>5. Send(status[req[q].wf], "START") = "running"
        BY <3>4 DEF Send, Target
      <3>6. status'[req[q].wf] = "running"
        BY <3>1, <3>3, <3>4, <3>5, SentEffect DEF TypeOK
      <3> QED
        BY <3>2, <3>6 DEF Unstarted
    <2>2. CASE ~DispatchStart(q)
      <3>1. req'[q] = req[q]
        <4>1. ASSUME NEW r \in Requests, Starts(r) PROVE req'[q] = req[q]
          BY <4>1, StartEffect
        <4>2. ASSUME NEW r \in Requests, DispatchStart(r) PROVE req'[q] = req[q]
          BY <2>2, <4>2, GotoEffect DEF DispatchStart
        <4>3. ASSUME NEW r \in Requests, Finishes(r) PROVE req'[q] = req[q]
          <5>1. req[r].pc # "idle" /\ Goto(r, "finishing")
            BY <4>3 DEF Finishes, PlanStore, DispatchSent, StageReport,
                        Complete, Control
          <5> QED
            BY <5>1, GotoEffect
        <4>4. ASSUME NEW r \in Requests, Reply(r) PROVE req'[q] = req[q]
          BY <4>4, ReplyEffect
        <4> QED
          BY <1>2, <4>1, <4>2, <4>3, <4>4, ReqSteps DEF ReqStep
      <3>2. /\ req[q].pc = "posting"
            /\ HoldsLock(q)
            /\ req[q].wf \in Workflows
            /\ status[req[q].wf] \notin Unstarted
        BY <3>1, CallType DEF LockDiscipline, DispatchUnderway, Unstarted
      <3>3. \A r \in Requests : Complete(r) => req[r].wf # req[q].wf
        BY <3>2, MutualExclusion DEF Complete
      <3> QED
        BY <1>2, <3>1, <3>2, <3>3, StartedStays
    <2> QED
      BY <2>1, <2>2
  <1> QED
    BY <1>1, <1>2

LEMMA NextSupervisionSound ==
    ASSUME TypeOK, MachineAgrees, PhaseOfOp, PlannedOnce, NeverReporting,
           DispatchUnderway, SupervisionSound, [AnyNext]_vars
    PROVE  SupervisionSound'
  <1>1. CASE Crash
    BY <1>1 DEF Crash, SupervisionSound
  <1>2. ASSUME NEW r \in Requests, DispatchSent(r) PROVE SupervisionSound'
    <2>1. /\ supervised' = supervised \cup {req[r].wf}
          /\ status' = status
          /\ status[req[r].wf] \notin Unstarted
      BY <1>2 DEF DispatchSent, DispatchUnderway, Unstarted
    <2> QED
      BY <2>1 DEF SupervisionSound, Unstarted
  <1>3. CASE ~Crash /\ \A r \in Requests : ~DispatchSent(r)
    <2>1. supervised' \subseteq supervised
      BY <1>3 DEF AnyNext, CrashElsewhere, Starts, Proceed, PlanCheck, Submit, SubmitControl,
                  PlanStore, RejectLocked, RejectUnlocked, DispatchStart,
                  StageReport, Complete, Control, Finish, SupervisorTimeout, vars
    <2>2. \A r \in Requests : Complete(r) => req[r].wf \notin supervised'
      BY DEF Complete
    <2>3. ASSUME NEW w \in supervised' PROVE status'[w] \notin Unstarted
      <3>1. w \in Workflows /\ status[w] \notin Unstarted
        BY <2>1, <2>3 DEF SupervisionSound, Unstarted, TypeOK
      <3>2. \A r \in Requests : Complete(r) => req[r].wf # w
        BY <2>2, <2>3
      <3> QED
        BY <1>3, <3>1, <3>2, StartedStays
    <2> QED
      BY <2>3 DEF SupervisionSound, Unstarted
  <1> QED
    BY <1>1, <1>2, <1>3

-----------------------------------------------------------------------------
(* The file, final statuses and outcomes *)

LEMMA NextDiskCurrent ==
    ASSUME TypeOK, MachineAgrees, PhaseOfOp, DiskCurrent, [AnyNext]_vars
    PROVE  DiskCurrent'
  <1> DEFINE Posting(w) == \E r \in Requests : req[r].pc = "posting" /\ req[r].wf = w
  <1>1. CASE Persist
    BY <1>1 DEF Persist, DiskCurrent
  <1>2. CASE Crash
    BY <1>2 DEF Crash, DiskCurrent, TypeOK, Content
  <1>3. ASSUME NEW r \in Requests, DispatchStart(r) PROVE DiskCurrent'
    <2>1. /\ UNCHANGED <<store, stages, disk, diskStale>>
          /\ req[r].wf \in Workflows
          /\ req[r].pc # "idle"
          /\ Goto(r, "posting")
          /\ Transition(req[r].wf, "START")
          /\ CanHandle(machine[req[r].wf], "START")
      BY <1>3, CallType DEF DispatchStart
    <2>2. /\ req'[r].pc = "posting" /\ req'[r].wf = req[r].wf
          /\ \A q \in Requests : q # r => req'[q] = req[q]
      BY <2>1, GotoEffect
    <2>3. machine' = [machine EXCEPT ![req[r].wf] = "running"]
      BY <2>1 DEF Transition, Send, Target
    <2>4. status' = [status EXCEPT ![req[r].wf] = "running"]
      BY <2>1, <2>3 DEF Transition, TypeOK
    <2>5. \A w \in Workflows : Posting(w) => Posting(w)'
      BY <2>2
    <2>6. ASSUME ~diskStale', NEW w \in store'
          PROVE  disk'.status[w] # status'[w] => status'[w] = "running" /\ Posting(w)'
      <3>1. CASE w = req[r].wf
        BY <2>1, <2>2, <2>4, <3>1 DEF TypeOK
      <3>2. CASE w # req[r].wf
        <4>1. w \in Workflows /\ status'[w] = status[w] /\ w \in store
          BY <2>1, <2>4, <3>2, <2>6 DEF TypeOK
        <4> QED
          BY <2>1, <2>5, <2>6, <4>1 DEF DiskCurrent
      <3> QED
        BY <3>1, <3>2
    <2> QED
      BY <2>1, <2>6 DEF DiskCurrent
  <1>4. ASSUME UNCHANGED <<store, stages, status, disk, diskStale>>,
               \A r \in Requests : req[r].pc = "posting" => req'[r] = req[r]
        PROVE  DiskCurrent'
    BY <1>4 DEF DiskCurrent
  <1>5. ASSUME NEW r \in Requests, Starts(r) PROVE DiskCurrent'
    <2>1. UNCHANGED <<store, stages, status, disk, diskStale>> /\ req[r] = Idle
      BY <1>5, StartEffect DEF Starts, memory
    <2>2. \A q \in Requests : req[q].pc = "posting" => req'[q] = req[q]
      <3>1. \A q \in Requests : q # r => req'[q] = req[q]
        BY <1>5, StartEffect
      <3> QED
        BY <2>1, <3>1 DEF Idle
    <2> QED
      BY <1>4, <2>1, <2>2
  <1>6. ASSUME NEW r \in Requests, RejectLocked(r) \/ RejectUnlocked(r) \/ Finish(r)
        PROVE  DiskCurrent'
    <2>1. /\ UNCHANGED <<store, stages, status, disk, diskStale>>
          /\ Reply(r)
          /\ req[r].pc # "posting"
      BY <1>6 DEF RejectLocked, RejectUnlocked, Finish, memory
    <2> QED
      BY <1>4, <2>1, ReplyEffect
  <1>7. ASSUME NEW w \in Workflows, SupervisorTimeout(w) PROVE DiskCurrent'
    BY <1>4, <1>7 DEF SupervisorTimeout, memory
  <1>8. CASE UNCHANGED vars \/ CrashElsewhere
    BY <1>4, <1>8 DEF vars, CrashElsewhere, memory
  <1>9. ASSUME NEW r \in Requests,
               PlanStore(r) \/ DispatchSent(r) \/ StageReport(r) \/ Complete(r) \/ Control(r)
        PROVE  Persist
    BY <1>9, Zenon DEF PlanStore, DispatchSent, StageReport, Complete, Control
  <1> QED
    BY <1>1, <1>2, <1>3, <1>5, <1>6, <1>7, <1>8, <1>9 DEF AnyNext, Proceed

\* No event moves a final status.
LEMMA FinalStays ==
    ASSUME TypeOK, MachineAgrees, PhaseOfOp, PlannedOnce, [AnyNext]_vars, ~Crash,
           NEW w \in Workflows, status[w] \in Final
    PROVE  status'[w] = status[w]
  <1>1. status \in [Workflows -> WorkflowState]
    BY DEF TypeOK
  <1>2. CASE UNCHANGED <<status, machine>>
    BY <1>2
  <1>3. ASSUME NEW r \in Requests, PlanStore(r) PROVE status'[w] = status[w]
    <2>1. status[req[r].wf] = "draft"
      BY <1>3 DEF PlanStore, PlannedOnce
    <2> QED
      BY <1>1, <1>3, <2>1, PlanEffect DEF Final
  <1>4. ASSUME NEW r \in Requests, Complete(r) PROVE status'[w] = status[w]
    BY <1>1, <1>4, CompleteEffect DEF Final
  <1>5. ASSUME NEW v \in Workflows, NEW event \in SentEvent, Transition(v, event)
        PROVE  status'[w] = status[w]
    <2>1. Send(status[w], event) = status[w]
      BY <1>1, SendMoves DEF SentEvent
    <2> QED
      BY <1>1, <1>5, <2>1, SentEffect
  <1> QED
    BY <1>2, <1>3, <1>4, <1>5, StatusSteps DEF StatusStep

\* A final status stays, unless a restart loads a stale file.
LEMMA FinalKept ==
    ASSUME TypeOK, MachineAgrees, PhaseOfOp, PlannedOnce, DiskCurrent,
           [AnyNext]_vars, ~lost', NEW w \in Workflows, status[w] \in Final
    PROVE  status'[w] = status[w]
  <1>1. CASE Crash
    <2>1. /\ ~diskStale
          /\ status' = [v \in Workflows |->
                          IF v \in disk.keys THEN disk.status[v] ELSE status[v]]
      BY <1>1 DEF Crash
    <2>2. /\ disk.keys = store
          /\ w \in store /\ disk.status[w] # status[w] => status[w] = "running"
      BY <2>1 DEF DiskCurrent
    <2> QED
      BY <2>1, <2>2 DEF Final
  <1> QED
    BY <1>1, FinalStays

\* The outcome rows and the history variable.
LEMMA HistoryStep ==
    ASSUME [AnyNext]_vars
    PROVE  /\ lost' = lost \/ Crash
           /\ outcome' = outcome \/ \E r \in Requests : Finish(r)
  <1>1. ASSUME NEW r \in Requests, Starts(r) PROVE UNCHANGED <<lost, outcome>>
    BY <1>1 DEF Starts, PlanCheck, Submit, SubmitControl
  <1>2. ASSUME NEW r \in Requests,
               \/ PlanStore(r) \/ RejectLocked(r) \/ RejectUnlocked(r)
               \/ DispatchStart(r) \/ DispatchSent(r)
        PROVE  UNCHANGED <<lost, outcome>>
    BY <1>2 DEF PlanStore, RejectLocked, RejectUnlocked, DispatchStart, DispatchSent
  <1>3. ASSUME NEW r \in Requests, StageReport(r) \/ Complete(r) \/ Control(r)
        PROVE  UNCHANGED <<lost, outcome>>
    BY <1>3 DEF StageReport, Complete, Control
  <1>4. ASSUME NEW r \in Requests, Finish(r) PROVE lost' = lost
    BY <1>4 DEF Finish
  <1>5. CASE UNCHANGED vars \/ CrashElsewhere \/ \E w \in Workflows : SupervisorTimeout(w)
    BY <1>5 DEF vars, CrashElsewhere, SupervisorTimeout
  <1>6. CASE Crash
    BY <1>6 DEF Crash
  <1> QED
    BY <1>1, <1>2, <1>3, <1>4, <1>5, <1>6 DEF AnyNext, Proceed

LEMMA NextOutcomeTruthful ==
    ASSUME TypeOK, MachineAgrees, PhaseOfOp, PlannedOnce, DiskCurrent,
           OutcomeTruthful, [AnyNext]_vars
    PROVE  OutcomeTruthful'
  <1> SUFFICES ASSUME ~lost', NEW w \in Workflows
               PROVE  outcome'[w] \subseteq {status'[w]}
    BY DEF OutcomeTruthful
  <1>1. ~lost
    BY HistoryStep DEF Crash
  <1>2. outcome[w] \subseteq {status[w]} /\ outcome[w] \subseteq Final
    BY <1>1 DEF OutcomeTruthful, TypeOK, Final
  <1>3. outcome[w] \subseteq {status'[w]}
    <2>1. CASE status[w] \in Final
      BY <1>2, <2>1, FinalKept
    <2>2. CASE status[w] \notin Final
      BY <1>2, <2>2
    <2> QED
      BY <2>1, <2>2
  <1>4. ASSUME NEW r \in Requests, Finish(r) PROVE outcome'[w] \subseteq {status'[w]}
    <2>1. /\ outcome' = OutcomeAfter(req[r].op, req[r].wf)
          /\ status' = status
          /\ req[r].wf \in Workflows
      BY <1>4, CallType DEF Finish, memory
    <2>2. outcome \in [Workflows -> SUBSET {"succeeded", "failed", "cancelled"}]
      BY DEF TypeOK
    <2>3. CASE outcome' = outcome
      BY <1>3, <2>3
    <2>4. CASE outcome' = [outcome EXCEPT ![req[r].wf] = @ \cup {status[req[r].wf]}]
      BY <1>2, <2>1, <2>2, <2>4
    <2> QED
      BY <2>1, <2>3, <2>4 DEF OutcomeAfter
  <1>5. CASE outcome' = outcome
    BY <1>3, <1>5
  <1>6. outcome' = outcome \/ \E r \in Requests : Finish(r)
    BY HistoryStep
  <1> QED
    BY <1>4, <1>5, <1>6

-----------------------------------------------------------------------------
(* The theorems *)

LEMMA InitInductive == Init => Inductive
  <1> SUFFICES ASSUME Init PROVE Inductive
    OBVIOUS
  <1>1. TypeOK
    BY InitType
  <1>2. /\ \A r \in Requests : req[r].pc = "idle"
        /\ \A w \in Workflows : status[w] = "draft" /\ machine[w] = "draft"
        /\ store = {} /\ supervised = {} /\ disk.keys = {}
        /\ \A w \in Workflows : disk.status[w] = "draft" /\ outcome[w] = {}
    BY DEF Init, Idle
  <1>3. MachineAgrees /\ PhaseOfOp /\ PlannedOnce /\ NeverReporting
    BY <1>2 DEF MachineAgrees, PhaseOfOp, PlannedOnce, NeverReporting
  <1>4. LockDiscipline /\ DispatchUnderway /\ SupervisionSound
    BY <1>2 DEF LockDiscipline, DispatchUnderway, SupervisionSound
  <1>5. DiskCurrent /\ OutcomeTruthful
    BY <1>2 DEF DiskCurrent, OutcomeTruthful
  <1> QED
    BY <1>1, <1>3, <1>4, <1>5 DEF Inductive

LEMMA NextInductive == Inductive /\ [AnyNext]_vars => Inductive'
  <1> SUFFICES ASSUME Inductive, [AnyNext]_vars PROVE Inductive'
    OBVIOUS
  <1> USE DEF Inductive
  <1>1. TypeOK'
    BY NextType
  <1>2. MachineAgrees'
    BY NextMachineAgrees
  <1>3. PhaseOfOp'
    BY NextPhaseOfOp
  <1>4. PlannedOnce'
    BY NextPlannedOnce
  <1>5. NeverReporting'
    BY NextNeverReporting
  <1>6. LockDiscipline'
    BY NextLockDiscipline
  <1>7. DispatchUnderway'
    BY NextDispatchUnderway
  <1>8. SupervisionSound'
    BY NextSupervisionSound
  <1>9. DiskCurrent'
    BY NextDiskCurrent
  <1>10. OutcomeTruthful'
    BY NextOutcomeTruthful
  <1> QED
    BY <1>1, <1>2, <1>3, <1>4, <1>5, <1>6, <1>7, <1>8, <1>9, <1>10

\* The inductive invariant of the service.
THEOREM ServiceInductive == Spec => []Inductive
  BY InitInductive, NextInductive, NextIsAny, PTL DEF Spec

\* Every variable keeps its type.
THEOREM TypeCorrect == Spec => []TypeOK
  <1>1. Inductive => TypeOK
    BY DEF Inductive
  <1> QED
    BY <1>1, ServiceInductive, PTL

\* workflow.status and the state of workflow.machine never disagree.
THEOREM MachineAgreesAlways == Spec => []MachineAgrees
  <1>1. Inductive => MachineAgrees
    BY DEF Inductive
  <1> QED
    BY <1>1, ServiceInductive, PTL

\* At most one locked handler of a workflow is past its wait.
THEOREM LockIsExclusive == Spec => []LockDiscipline
  <1>1. Inductive => LockDiscipline
    BY DEF Inductive
  <1> QED
    BY <1>1, ServiceInductive, PTL

\* A succeeded, planned or draft workflow is never supervised.
THEOREM SupervisionSoundAlways == Spec => []SupervisionSound
  <1>1. Inductive => SupervisionSound
    BY DEF Inductive
  <1> QED
    BY <1>1, ServiceInductive, PTL

\* A file that was written without error holds all but an awaited START.
THEOREM DiskCurrentAlways == Spec => []DiskCurrent
  <1>1. Inductive => DiskCurrent
    BY DEF Inductive
  <1> QED
    BY <1>1, ServiceInductive, PTL

\* No recorded outcome is ever contradicted by the workflow's status.
THEOREM OutcomeTruthfulAlways == Spec => []OutcomeTruthful
  <1>1. Inductive => OutcomeTruthful
    BY DEF Inductive
  <1> QED
    BY <1>1, ServiceInductive, PTL

\* A workflow that has ended keeps its status.
THEOREM FinalIsFinalAlways == Spec => FinalIsFinal
  <1> DEFINE Kept == ~lost' => \A w \in Workflows :
                        status[w] \in Final => status'[w] = status[w]
  <1>1. Inductive /\ [Next]_vars => [Kept]_vars
    <2> SUFFICES ASSUME Inductive, [Next]_vars, ~lost', NEW w \in Workflows,
                        status[w] \in Final
                 PROVE  status'[w] = status[w]
      OBVIOUS
    <2>1. [AnyNext]_vars
      BY NextIsAny
    <2> QED
      BY <2>1, FinalKept DEF Inductive
  <1> QED
    BY <1>1, ServiceInductive, PTL DEF Spec, FinalIsFinal

=============================================================================
