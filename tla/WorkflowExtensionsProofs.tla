----------------------- MODULE WorkflowExtensionsProofs -----------------------
(***************************************************************************)
(* Proofs about the two modules that extend WorkflowService, for any number *)
(* of workflows, users, requests, stages, attempts, failures and crashes.  *)
(*                                                                         *)
(* WorkflowExecution: the safety invariants of the service hold under the  *)
(* calls of the executor gateway, and a workflow that is dispatched once   *)
(* runs its stages once each (StagesRunOnce).  The invariant behind it,    *)
(* ExecutionInductive, follows the only run of such a workflow through its *)
(* phases: it relates the snapshot the run works on, the stages as the     *)
(* service has them, the run's calls that wait for the workflow's lock     *)
(* (repeated ones included) and the status.                                *)
(*                                                                         *)
(* WorkflowPersistence: the rows of the database agree with the memory     *)
(* (RowsCurrent), an evicted workflow that the bootstrap brings back is the *)
(* one that was evicted (NoRevival), and concurrent plans exceed a user's  *)
(* limit by a bounded number (CapOvershootBounded).  The invariant behind  *)
(* them relates the five copies of a workflow: the memory, the file, the   *)
(* row, what a save under way has still to write and what the bootstrap has *)
(* read.  It is about the states before something has happened that can    *)
(* leave a row stale (disturbed).                                          *)
(***************************************************************************)
EXTENDS WorkflowExecution, WorkflowPersistence, WorkflowServiceProofs,
        FiniteSetTheorems, WellFoundedInduction

-----------------------------------------------------------------------------
(* Execution: the inductive invariant *)

\* The handlers that wait for the lock of w or hold it.
InQueue(w) == {queue[w][i] : i \in 1..Len(queue[w])}

\* A lock's queue holds calls for its workflow, each once, and every call that
\* waits for a lock.
QueueSound ==
    /\ \A w \in Workflows : \A i \in 1..Len(queue[w]) :
          /\ req[queue[w][i]].pc # "idle"
          /\ req[queue[w][i]].wf = w
          /\ req[queue[w][i]].op \in LockedOp
          /\ \A j \in 1..Len(queue[w]) : queue[w][j] = queue[w][i] => i = j
    /\ \A r \in Requests : req[r].pc = "queued" => r \in InQueue(req[r].wf)
    /\ \A r \in Requests :
          req[r].pc # "idle" /\ req[r].op = "report" => req[r].stage \in Stages

\* The call a run awaits is the one it made, and the last of its calls in the
\* queue: only dispatches may wait behind it.
CallOf(w, r) ==
    /\ run[w].call = {r}
    /\ req[r].pc \in {"queued", "finishing"}
    /\ req[r].wf = w
    /\ run[w].pc = "reporting" =>
          /\ req[r].op = "report"
          /\ req[r].stage = run[w].at
          /\ req[r].report = run[w].result
    /\ run[w].pc = "completing" => req[r].op = "complete"
    /\ \A i, j \in 1..Len(queue[w]) :
          queue[w][i] = r /\ i < j => req[queue[w][j]].op = "dispatch"

\* A run calls the service to report and to complete only, awaits an answer
\* or has one to act on, and has an attempt left when it has neither.
RunSound(w) ==
    run[w] # NoRun =>
        /\ run[w].pc \in {"executing", "reporting"} => run[w].at \in Stages
        /\ run[w].pc = "reporting" => run[w].result \in Results
        /\ run[w].pc \in {"accepted", "executing"} =>
              run[w].call = {} /\ run[w].answer = "none"
        /\ run[w].call # {} => run[w].answer = "none"
        /\ run[w].call = {} /\ run[w].answer = "none" => run[w].tries < Attempts
        /\ \A r \in run[w].call : CallOf(w, r)

\* A success in the file is one in the store.
SuccessKnown ==
    ~diskStale => \A w \in store : disk.status[w] = "succeeded" => status[w] = "succeeded"

\* Only dispatches are in the queue.
Calm(w) == \A r \in InQueue(w) : req[r].op = "dispatch"

Untouched(w) == \A s \in Stages : stages[w][s] \in {"pending", "running"}
AllDone(w)   == \A s \in Stages : stages[w][s] = "completed"

\* Before its first START a workflow has no run and nothing is reported of it.
NotStarted(w) ==
    /\ status[w] = "draft" => starts[w] = 0
    /\ starts[w] = 0 =>
          /\ run[w] = NoRun /\ done[w] = {} /\ Calm(w)
          /\ \A r \in Requests : req[r].pc = "posting" => req[r].wf # w
          /\ ~lost => Untouched(w) /\ status[w] # "succeeded"

\* While the first dispatch holds the lock nothing is applied; it starts one
\* run, which does not get past the first stage.
FirstDispatch(w) ==
    starts[w] = 1 =>
        \A r \in Requests : req[r].pc = "posting" /\ req[r].wf = w =>
            /\ done[w] = {}
            /\ r \notin accepted => run[w] = NoRun /\ Calm(w)
            /\ ~lost =>
                  /\ Untouched(w)
                  /\ \/ run[w] = NoRun
                     \/ run[w].pc = "accepted"
                     \/ run[w].pc \in {"executing", "reporting"} /\ run[w].at = 1

\* How far the only run of a workflow is: the stages before its own are
\* completed, and what is queued are repeated calls for that stage at most.
RunInStep(w) ==
    starts[w] <= 1 /\ run[w] # NoRun =>
        /\ run[w].pc = "accepted" =>
              done[w] = {} /\ Calm(w) /\ (~lost => Untouched(w))
        /\ run[w].pc = "executing" =>
              Calm(w) /\ \A s \in done[w] : s < run[w].at
        /\ run[w].pc = "reporting" =>
              /\ \A s \in done[w] : s <= run[w].at
              /\ \A r \in InQueue(w) :
                    \/ req[r].op = "dispatch"
                    \/ /\ req[r].op = "report"
                       /\ req[r].stage = run[w].at
                       /\ req[r].report = run[w].result
              /\ run[w].answer = "taken" => Calm(w)
        /\ run[w].pc = "completing" =>
              \A r \in InQueue(w) : req[r].op \in {"dispatch", "complete"}

\* The run's report is applied: it was answered, or is about to be.
Applied(w) ==
    \/ run[w].answer = "taken"
    \/ \E r \in run[w].call : req[r].pc = "finishing"

\* The same of the stages, which a stale file may set back.
StagesInStep(w) ==
    starts[w] <= 1 /\ ~lost /\ run[w] # NoRun =>
        /\ run[w].pc \in {"executing", "reporting"} =>
              \A s \in Stages :
                 /\ run[w].chain[s] \in {"pending", "running"}
                 /\ s < run[w].at => stages[w][s] = "completed"
        /\ run[w].pc = "reporting" /\ Applied(w) =>
              stages[w][run[w].at] = run[w].result
        /\ run[w].pc = "completing" => AllDone(w)

\* A success, or the call for one.
Ending(w) == status[w] = "succeeded" \/ \E r \in InQueue(w) : req[r].op = "complete"

\* Once complete is called, every stage is completed and no report is left.
EndInStep(w) ==
    starts[w] <= 1 /\ ~lost /\ Ending(w) =>
        /\ AllDone(w)
        /\ \A r \in InQueue(w) : req[r].op # "report"
        /\ run[w] = NoRun \/ run[w].pc = "completing"

InStep(w) ==
    /\ NotStarted(w)
    /\ FirstDispatch(w)
    /\ RunInStep(w)
    /\ StagesInStep(w)
    /\ EndInStep(w)

ExecutionInductive ==
    /\ ExecutionTypeOK
    /\ Inductive
    /\ QueueSound
    /\ SuccessKnown
    /\ \A w \in Workflows : RunSound(w) /\ InStep(w)

-----------------------------------------------------------------------------
(* The run's next stage *)

\* A set of stages has a first one.
LEMMA FirstOf ==
    ASSUME NEW T, T \subseteq Nat, T # {}
    PROVE  \E x \in T : \A y \in T : x <= y
  <1> DEFINE R == OpToRel(<, Nat)
  <1>1. IsWellFoundedOn(R, Nat)
    BY NatLessThanWellFounded
  <1>2. \E x \in T : \A y \in T : <<y, x>> \notin R
    <2> HIDE DEF R
    <2> QED
      BY <1>1, WFMin
  <1>3. ASSUME NEW x \in T, NEW y \in T, <<y, x>> \notin R PROVE x <= y
    BY <1>3 DEF OpToRel
  <1> QED
    BY <1>2, <1>3

LEMMA RunType ==
    ASSUME ExecutionTypeOK, NEW w \in Workflows
    PROVE  /\ run[w] # NoRun => run[w] \in Run
           /\ run[w].pc = "none" <=> run[w] = NoRun
  <1>1. run[w] \in Run \cup {NoRun}
    BY DEF ExecutionTypeOK
  <1>2. NoRun.pc = "none"
    BY DEF NoRun
  <1>3. \A one \in Run : one.pc # "none"
    BY DEF Run
  <1> QED
    BY <1>1, <1>2, <1>3

\* Where Advance leads: to the first stage from `from` on that the snapshot
\* calls running or pending, or to the complete call when there is none.
LEMMA AdvanceEffect ==
    ASSUME NEW chain \in [Stages -> StageStatus], NEW from \in Nat \ {0},
           NEW next, next = Advance(chain, from)
    PROVE  /\ next \in Run /\ next # NoRun
           /\ next.chain = chain /\ next.result = "pending" /\ next.call = {}
           /\ next.answer = "none" /\ next.tries = 0
           /\ \/ /\ next.pc = "executing"
                 /\ next.at \in Stages
                 /\ next.at >= from
                 /\ \A s \in Stages : from <= s /\ s < next.at
                       => chain[s] \notin {"pending", "running"}
              \/ /\ next.pc = "completing"
                 /\ \A s \in Stages : from <= s => chain[s] \notin {"pending", "running"}
  <1> DEFINE todo  == ToExecute(chain, from)
             first == CHOOSE s \in todo : \A t \in todo : s <= t
  <1> USE ServiceAssumption, ExecutionAssumption
  <1>1. todo \subseteq Stages /\ Stages \subseteq Nat
    BY DEF ToExecute, Stages
  <1>2. CASE todo = {}
    <2>1. next = [pc |-> "completing", chain |-> chain, at |-> NStages + 1,
                  result |-> "pending", call |-> {}, answer |-> "none", tries |-> 0]
      BY <1>2 DEF Advance
    <2>2. next \in Run /\ next # NoRun
      BY <2>1 DEF Run, NoRun, Answer
    <2>3. \A s \in Stages : from <= s => chain[s] \notin {"pending", "running"}
      BY <1>2 DEF ToExecute
    <2> QED
      BY <2>1, <2>2, <2>3
  <1>3. CASE todo # {}
    <2>1. next = [pc |-> "executing", chain |-> chain, at |-> first,
                  result |-> "pending", call |-> {}, answer |-> "none", tries |-> 0]
      BY <1>3 DEF Advance
    <2>2. \E s \in todo : \A t \in todo : s <= t
      BY <1>1, <1>3, FirstOf
    <2>3. first \in todo /\ \A t \in todo : first <= t
      BY <2>2
    <2> HIDE DEF first
    <2>4. first \in Stages /\ first >= from /\ first \in 1..(NStages + 1)
      BY <2>3 DEF ToExecute, Stages
    <2>5. next \in Run /\ next # NoRun
      BY <2>1, <2>4 DEF Run, NoRun, Answer
    <2>6. \A s \in Stages : from <= s /\ s < first => chain[s] \notin {"pending", "running"}
      BY <2>3 DEF ToExecute, Stages
    <2> QED
      BY <2>1, <2>4, <2>5, <2>6
  <1> QED
    BY <1>2, <1>3

-----------------------------------------------------------------------------
(* How a step changes the lock of a workflow *)

\* The call q goes on, or stays as it is.
SameCall(q) ==
    /\ req'[q].pc # "idle"
    /\ req'[q].op = req[q].op
    /\ req'[q].wf = req[q].wf
    /\ req'[q].stage = req[q].stage
    /\ req'[q].report = req[q].report

Stays(w)    == queue'[w] = queue[w] /\ \A q \in InQueue(w) : SameCall(q)

Joins(w, r) ==
    /\ Starts(r) /\ r \notin InQueue(w)
    /\ req'[r].pc = "queued" /\ req'[r].wf = w /\ req'[r].op \in LockedOp
    /\ queue'[w] = Append(queue[w], r)
    /\ \A q \in InQueue(w) : SameCall(q)

Leaves(w, r) ==
    /\ queue[w] # <<>> /\ r = Head(queue[w])
    /\ Reply(r)
    /\ queue'[w] = Tail(queue[w])
    /\ \A q \in InQueue(w) : q # r => SameCall(q)

LockStep(w) ==
    \/ Stays(w)
    \/ \E r \in Requests : Joins(w, r)
    \/ \E r \in Requests : Leaves(w, r)
    \/ Crash /\ queue'[w] = <<>>

\* The calls in a queue are requests at work, for this workflow.
LEMMA Members ==
    ASSUME TypeOK, QueueSound, NEW w \in Workflows, NEW q \in InQueue(w)
    PROVE  /\ q \in Requests
           /\ req[q].pc # "idle" /\ req[q].wf = w /\ req[q].op \in LockedOp
  <1>1. PICK i \in 1..Len(queue[w]) : q = queue[w][i]
    BY DEF InQueue
  <1>2. queue[w] \in Seq(Requests)
    BY DEF TypeOK
  <1> QED
    BY <1>1, <1>2 DEF QueueSound

\* The handler that holds the lock is in the queue.
LEMMA HolderIn ==
    ASSUME TypeOK, NEW r \in Requests, HoldsLock(r)
    PROVE  r \in InQueue(req[r].wf) /\ req[r].wf \in Workflows
  <1>1. req[r].wf \in Workflows
    BY CallType DEF HoldsLock
  <1>2. queue[req[r].wf] \in Seq(Requests) /\ queue[req[r].wf] # <<>>
    BY <1>1 DEF TypeOK, HoldsLock
  <1>3. /\ 1 \in 1..Len(queue[req[r].wf])
        /\ queue[req[r].wf][1] = r
    BY <1>2 DEF HoldsLock
  <1> QED
    BY <1>1, <1>3 DEF InQueue

\* The lock released by r.
LEMMA ReleaseStep ==
    ASSUME TypeOK, QueueSound, NEW w \in Workflows, NEW r \in Requests,
           Reply(r), HoldsLock(r), Release(req[r].wf)
    PROVE  LockStep(w)
  <1>1. req[r].wf \in Workflows
    BY CallType DEF HoldsLock
  <1>2. \A q \in InQueue(w) : q # r => SameCall(q)
    BY Members, ReplyEffect DEF SameCall
  <1>3. queue \in [Workflows -> Seq(Requests)]
    BY DEF TypeOK
  <1>4. CASE w = req[r].wf
    <2>1. Leaves(w, r)
      BY <1>2, <1>3, <1>4 DEF Leaves, HoldsLock, Release
    <2> QED
      BY <2>1 DEF LockStep
  <1>5. CASE w # req[r].wf
    <2>1. r \notin InQueue(w)
      BY <1>5, Members
    <2>2. queue'[w] = queue[w]
      BY <1>3, <1>5 DEF Release
    <2> QED
      BY <1>2, <2>1, <2>2 DEF LockStep, Stays
  <1> QED
    BY <1>4, <1>5

LEMMA LockSteps ==
    ASSUME TypeOK, PhaseOfOp, LockDiscipline, QueueSound, [AnyNext]_vars,
           NEW w \in Workflows
    PROVE  LockStep(w)
  <1>1. CASE UNCHANGED req /\ UNCHANGED queue
    BY <1>1, Members DEF LockStep, Stays, SameCall
  <1>2. ASSUME NEW r \in Requests, Starts(r) PROVE LockStep(w)
    <2>1. req[r].pc = "idle"
      BY <1>2 DEF Starts, Idle
    <2>2. r \notin InQueue(w) /\ \A q \in InQueue(w) : SameCall(q)
      BY <1>2, <2>1, Members, StartEffect DEF SameCall
    <2>3. CASE UNCHANGED queue
      BY <2>2, <2>3 DEF LockStep, Stays
    <2>4. CASE /\ req'[r].pc = "queued" /\ req'[r].op \in LockedOp
               /\ req'[r].wf \in Workflows
               /\ queue' = [queue EXCEPT ![req'[r].wf] = Append(@, r)]
      <3>1. queue \in [Workflows -> Seq(Requests)]
        BY DEF TypeOK
      <3>2. CASE req'[r].wf = w
        BY <1>2, <2>2, <2>4, <3>1, <3>2 DEF LockStep, Joins
      <3>3. CASE req'[r].wf # w
        BY <2>2, <2>4, <3>1, <3>3 DEF LockStep, Stays
      <3> QED
        BY <3>2, <3>3
    <2> QED
      BY <1>2, <2>3, <2>4, StartEffect
  <1>3. ASSUME NEW r \in Requests, NEW phase \in {"posting", "finishing"},
               Goto(r, phase), req[r].pc # "idle", UNCHANGED queue
        PROVE  LockStep(w)
    <2>1. \A q \in InQueue(w) : SameCall(q)
      BY <1>3, Members, GotoEffect DEF SameCall
    <2> QED
      BY <1>3, <2>1 DEF LockStep, Stays
  <1>4. ASSUME NEW r \in Requests, DispatchStart(r), Goto(r, "posting") PROVE LockStep(w)
    BY <1>3, <1>4 DEF DispatchStart
  <1>5. ASSUME NEW r \in Requests, Finishes(r) PROVE LockStep(w)
    <2>1. req[r].pc # "idle" /\ UNCHANGED queue /\ Goto(r, "finishing")
      BY <1>5 DEF Finishes, PlanStore, DispatchSent, StageReport, Complete, Control
    <2> QED
      BY <1>3, <2>1
  <1>6. ASSUME NEW r \in Requests, Reply(r), UNCHANGED queue, req[r].op \notin LockedOp
        PROVE  LockStep(w)
    <2>1. r \notin InQueue(w)
      BY <1>6, Members
    <2>2. \A q \in InQueue(w) : SameCall(q)
      BY <1>6, <2>1, Members, ReplyEffect DEF SameCall
    <2> QED
      BY <1>6, <2>2 DEF LockStep, Stays
  <1>7. ASSUME NEW r \in Requests, RejectLocked(r) PROVE LockStep(w)
    BY <1>7, ReleaseStep DEF RejectLocked
  <1>8. ASSUME NEW r \in Requests, RejectUnlocked(r) PROVE LockStep(w)
    <2>1. req[r].op \notin LockedOp
      BY <1>8 DEF RejectUnlocked, PhaseOfOp, LockedOp, ControlOp
    <2> QED
      BY <1>6, <1>8, <2>1 DEF RejectUnlocked
  <1>9. ASSUME NEW r \in Requests, Finish(r) PROVE LockStep(w)
    <2>1. CASE req[r].op \in LockedOp
      BY <1>9, <2>1, ReleaseStep DEF Finish, LockDiscipline
    <2>2. CASE req[r].op \notin LockedOp
      BY <1>6, <1>9, <2>2 DEF Finish
    <2> QED
      BY <2>1, <2>2
  <1>10. CASE Crash
    BY <1>10 DEF Crash, LockStep
  <1> QED
    BY <1>1, <1>2, <1>4, <1>5, <1>7, <1>8, <1>9, <1>10, ReqSteps DEF ReqStep

LEMMA NextQueueSound ==
    ASSUME Inductive, QueueSound, [AnyNext]_vars
    PROVE  QueueSound'
  <1>1. TypeOK /\ PhaseOfOp /\ LockDiscipline /\ TypeOK'
    BY NextInductive DEF Inductive
  <1>2. ASSUME NEW w \in Workflows
        PROVE  \A i \in 1..Len(queue'[w]) :
                  /\ req'[queue'[w][i]].pc # "idle"
                  /\ req'[queue'[w][i]].wf = w
                  /\ req'[queue'[w][i]].op \in LockedOp
                  /\ \A j \in 1..Len(queue'[w]) : queue'[w][j] = queue'[w][i] => i = j
    <2>1. queue[w] \in Seq(Requests)
      BY <1>1 DEF TypeOK
    <2>2. \A i \in 1..Len(queue[w]) :
             /\ queue[w][i] \in InQueue(w)
             /\ req[queue[w][i]].pc # "idle"
             /\ req[queue[w][i]].wf = w
             /\ req[queue[w][i]].op \in LockedOp
             /\ \A j \in 1..Len(queue[w]) : queue[w][j] = queue[w][i] => i = j
      BY DEF QueueSound, InQueue
    <2>3. CASE Stays(w)
      BY <2>2, <2>3 DEF Stays, SameCall
    <2>4. ASSUME NEW r \in Requests, Joins(w, r)
          PROVE  \A i \in 1..Len(queue'[w]) :
                    /\ req'[queue'[w][i]].pc # "idle"
                    /\ req'[queue'[w][i]].wf = w
                    /\ req'[queue'[w][i]].op \in LockedOp
                    /\ \A j \in 1..Len(queue'[w]) : queue'[w][j] = queue'[w][i] => i = j
      <3>1. /\ Len(queue'[w]) = Len(queue[w]) + 1
            /\ queue'[w][Len(queue[w]) + 1] = r
            /\ \A i \in 1..Len(queue[w]) : queue'[w][i] = queue[w][i]
        BY <2>1, <2>4 DEF Joins
      <3>2. \A i \in 1..Len(queue[w]) : queue'[w][i] # r
        BY <2>2, <2>4, <3>1 DEF Joins
      <3>3. \A i \in 1..Len(queue'[w]) : i \in 1..Len(queue[w]) \/ i = Len(queue[w]) + 1
        BY <2>1, <3>1
      <3> QED
        BY <2>2, <2>4, <3>1, <3>2, <3>3 DEF Joins, SameCall
    <2>5. ASSUME NEW r \in Requests, Leaves(w, r)
          PROVE  \A i \in 1..Len(queue'[w]) :
                    /\ req'[queue'[w][i]].pc # "idle"
                    /\ req'[queue'[w][i]].wf = w
                    /\ req'[queue'[w][i]].op \in LockedOp
                    /\ \A j \in 1..Len(queue'[w]) : queue'[w][j] = queue'[w][i] => i = j
      <3>1. /\ Len(queue'[w]) = Len(queue[w]) - 1
            /\ \A i \in 1..Len(queue'[w]) :
                  /\ i + 1 \in 1..Len(queue[w])
                  /\ queue'[w][i] = queue[w][i + 1]
            /\ r = queue[w][1] /\ 1 \in 1..Len(queue[w])
        BY <2>1, <2>5 DEF Leaves
      <3>2. \A i \in 1..Len(queue'[w]) : queue'[w][i] # r
        BY <2>2, <3>1
      <3>3. \A i, j \in 1..Len(queue'[w]) : queue'[w][j] = queue'[w][i] => i = j
        BY <2>1, <2>2, <3>1
      <3> QED
        BY <2>2, <2>5, <3>1, <3>2, <3>3 DEF Leaves, SameCall
    <2>6. CASE queue'[w] = <<>>
      BY <2>6
    <2> QED
      BY <1>1, <2>3, <2>4, <2>5, <2>6, LockSteps DEF LockStep
  <1>3. ASSUME NEW r \in Requests, NEW w \in Workflows,
               req'[r].pc = "queued", w = req'[r].wf
        PROVE  r \in InQueue(w)'
    <2>2. queue[w] \in Seq(Requests)
      BY <1>1 DEF TypeOK
    <2>3. CASE req[r].pc = "queued" /\ req[r].wf = w
      <3>1. PICK i \in 1..Len(queue[w]) : queue[w][i] = r
        BY <2>3 DEF QueueSound, InQueue
      <3>2. CASE Stays(w)
        BY <3>1, <3>2 DEF Stays, InQueue
      <3>3. ASSUME NEW q \in Requests, Joins(w, q) PROVE r \in InQueue(w)'
        BY <2>2, <3>1, <3>3 DEF Joins, InQueue
      <3>4. ASSUME NEW q \in Requests, Leaves(w, q) PROVE r \in InQueue(w)'
        <4>1. q # r
          BY <1>1, <1>3, <3>4, ReplyEffect DEF Leaves
        <4>2. i - 1 \in 1..Len(queue'[w]) /\ queue'[w][i - 1] = r
          BY <2>2, <3>1, <3>4, <4>1 DEF Leaves
        <4> QED
          BY <4>2 DEF InQueue
      <3>5. ~Crash
        BY <1>3 DEF Crash, Idle
      <3> QED
        BY <1>1, <3>2, <3>3, <3>4, <3>5, LockSteps DEF LockStep
    <2>4. ASSUME Starts(r) PROVE r \in InQueue(w)'
      <3>1. queue' = [queue EXCEPT ![w] = Append(queue[w], r)]
        BY <1>1, <1>3, <2>4, StartEffect
      <3>2. queue'[w] = Append(queue[w], r)
        BY <1>1, <3>1 DEF TypeOK
      <3>3. queue'[w][Len(queue[w]) + 1] = r /\ Len(queue[w]) + 1 \in 1..Len(queue'[w])
        BY <2>2, <3>2
      <3> QED
        BY <3>3 DEF InQueue
    <2>5. (req[r].pc = "queued" /\ req[r].wf = w) \/ Starts(r)
      <3>1. CASE UNCHANGED req
        BY <1>3, <3>1
      <3>2. ASSUME NEW q \in Requests, Starts(q), q # r PROVE req'[r] = req[r]
        BY <1>1, <3>2, StartEffect
      <3>3. ASSUME NEW q \in Requests, NEW phase \in {"posting", "finishing"},
                   Goto(q, phase), req[q].pc # "idle"
            PROVE  req'[r] = req[r]
        BY <1>1, <1>3, <3>3, GotoEffect
      <3>4. ASSUME NEW q \in Requests, Reply(q) PROVE req'[r] = req[r]
        BY <1>1, <1>3, <3>4, ReplyEffect
      <3>5. ~Crash
        BY <1>3 DEF Crash, Idle
      <3>6. \A q \in Requests : DispatchStart(q) \/ Finishes(q) => req[q].pc # "idle"
        BY DEF DispatchStart, Finishes, PlanStore, DispatchSent, StageReport, Complete, Control
      <3> QED
        BY <1>1, <1>3, <3>1, <3>2, <3>3, <3>4, <3>5, <3>6, ReqSteps
           DEF ReqStep, Finishes
    <2> QED
      BY <2>3, <2>4, <2>5
  <1>4. ASSUME NEW r \in Requests, req'[r].pc = "queued"
        PROVE  r \in {queue'[req'[r].wf][i] : i \in 1..Len(queue'[req'[r].wf])}
    <2>1. req'[r] \in Call \cup {Idle}
      BY <1>1 DEF TypeOK
    <2>2. req'[r].wf \in Workflows
      BY <1>4, <2>1 DEF Call, Idle
    <2> QED
      BY <1>3, <1>4, <2>2 DEF InQueue
  <1>5. \A r \in Requests :
           req'[r].pc # "idle" /\ req'[r].op = "report" => req'[r].stage \in Stages
    <2>1. CASE UNCHANGED req
      BY <2>1 DEF QueueSound
    <2>2. ASSUME NEW r \in Requests, Starts(r)
          PROVE  req'[r].op = "report" => req'[r].stage \in Stages
      BY <1>1, <2>2, StartEffect DEF ControlOp
    <2>3. ASSUME NEW r \in Requests, NEW phase \in {"posting", "finishing"},
                 Goto(r, phase), req[r].pc # "idle"
          PROVE  \A q \in Requests :
                    req'[q].pc # "idle" /\ req'[q].op = "report" => req'[q].stage \in Stages
      BY <1>1, <2>3, GotoEffect DEF QueueSound
    <2>4. ASSUME NEW r \in Requests, Reply(r)
          PROVE  \A q \in Requests :
                    req'[q].pc # "idle" /\ req'[q].op = "report" => req'[q].stage \in Stages
      BY <1>1, <2>4, ReplyEffect DEF QueueSound
    <2>5. CASE Crash
      BY <2>5 DEF Crash, Idle
    <2>6. \A r \in Requests : DispatchStart(r) \/ Finishes(r) => req[r].pc # "idle"
      BY DEF DispatchStart, Finishes, PlanStore, DispatchSent, StageReport, Complete, Control
    <2>7. ASSUME NEW r \in Requests, Starts(r)
          PROVE  \A q \in Requests \ {r} : req'[q] = req[q]
      BY <1>1, <2>7, StartEffect
    <2> QED
      BY <1>1, <2>1, <2>2, <2>3, <2>4, <2>5, <2>6, <2>7, ReqSteps
         DEF ReqStep, Finishes, QueueSound
  <1> QED
    BY <1>2, <1>4, <1>5 DEF QueueSound, InQueue

\* The effect of a save on the file.
LEMMA NextSuccessKnown ==
    ASSUME Inductive, SuccessKnown, [AnyNext]_vars
    PROVE  SuccessKnown'
  <1> SUFFICES ASSUME ~diskStale', NEW w \in store', disk'.status[w] = "succeeded"
               PROVE  status'[w] = "succeeded"
    BY DEF SuccessKnown
  <1>0. TypeOK /\ MachineAgrees /\ PhaseOfOp /\ DiskCurrent
    BY DEF Inductive
  <1>1. CASE Persist
    <2>1. disk' = [keys |-> store', status |-> status', stages |-> stages']
      BY <1>1 DEF Persist
    <2> QED
      BY <2>1
  <1>2. CASE Crash
    BY <1>0, <1>2 DEF Crash, TypeOK, Content
  <1>3. CASE UNCHANGED <<disk, diskStale>> /\ store' = store /\ UNCHANGED <<status, machine>>
    BY <1>3 DEF SuccessKnown
  <1>4. ASSUME NEW r \in Requests, DispatchStart(r) PROVE status'[w] = "succeeded"
    <2>1. store' = store /\ UNCHANGED <<disk, diskStale>>
      BY <1>4 DEF DispatchStart
    <2>2. status[w] = "succeeded"
      BY <2>1 DEF SuccessKnown
    <2>3. req[r].wf \in Workflows /\ CanHandle(machine[req[r].wf], "START")
      BY <1>0, <1>4, CallType DEF DispatchStart
    <2>4. status[req[r].wf] # "succeeded"
      BY <1>0, <2>3 DEF MachineAgrees, CanHandle, Sources
    <2>5. status' = [status EXCEPT ![req[r].wf] = machine'[req[r].wf]]
      BY <1>4, <2>3 DEF DispatchStart, Transition
    <2> QED
      BY <1>0, <2>1, <2>2, <2>4, <2>5 DEF TypeOK
  <1>5. ASSUME NEW r \in Requests,
               \/ Starts(r) \/ RejectLocked(r) \/ RejectUnlocked(r) \/ Finish(r)
        PROVE  UNCHANGED <<disk, diskStale, memory>>
    BY <1>5 DEF Starts, PlanCheck, Submit, SubmitControl, RejectLocked, RejectUnlocked, Finish
  <1>6. ASSUME NEW r \in Requests,
               \/ PlanStore(r) \/ DispatchSent(r) \/ StageReport(r) \/ Complete(r)
               \/ Control(r)
        PROVE  Persist
    BY <1>6, Zenon DEF PlanStore, DispatchSent, StageReport, Complete, Control
  <1>7. CASE UNCHANGED vars \/ CrashElsewhere \/ \E x \in Workflows : SupervisorTimeout(x)
    BY <1>3, <1>7 DEF vars, CrashElsewhere, SupervisorTimeout, memory
  <1> QED
    BY <1>1, <1>2, <1>3, <1>4, <1>5, <1>6, <1>7 DEF AnyNext, Proceed, memory

-----------------------------------------------------------------------------
(* The steps of the composition *)

\* The service sees the composition as one of its environments.
LEMMA ExecutionIsAny ==
    ASSUME TypeOK, ExecutionTypeOK, \A w \in Workflows : RunSound(w), [ExecutionNext]_allVars
    PROVE  [AnyNext]_vars
  <1> USE ServiceAssumption, ExecutionAssumption
  <1>1. ASSUME NEW r \in Requests, Arrive(r) PROVE AnyNext
    BY <1>1, ArriveIsStart DEF AnyNext
  <1>2. ASSUME NEW r \in Requests, ServiceProceeds(r) PROVE AnyNext
    <2>1. Proceed(r)
      BY <1>2, Zenon DEF ServiceProceeds, ServiceFinishes, ServiceRejects, ServiceReports,
         ServiceStarts, ServiceDispatched, ServiceWorks, Proceed
    <2> QED
      BY <2>1 DEF AnyNext
  <1>3. ASSUME NEW r \in Requests, GatewayAccept(r) PROVE UNCHANGED vars
    BY <1>3 DEF GatewayAccept
  <1>4. ASSUME NEW w \in Workflows,
               FetchWorkflow(w) \/ ExecuteStage(w) \/ TakeAnswer(w) \/ AttemptTimeout(w)
        PROVE  UNCHANGED vars
    BY <1>4 DEF FetchWorkflow, ExecuteStage, TakeAnswer, AttemptTimeout
  <1>5. ASSUME NEW w \in Workflows, NEW r \in GatewayCalls, PostAttempt(w, r) PROVE AnyNext
    <2>1. r \in Requests
      OBVIOUS
    <2>2. CASE run[w].pc = "reporting" /\ Submit(r, "report", w, run[w].at, run[w].result)
      <3>1. run[w].at \in Stages /\ run[w].result \in Results
        BY <2>2 DEF RunSound, NoRun
      <3>2. run[w].at \in Stages \cup {0} /\ run[w].result \in StageStatus /\ "report" \in LockedOp
        BY <3>1 DEF StageStatus, LockedOp
      <3>3. req[r] = Idle
        BY <2>2 DEF Submit
      <3>4. Starts(r)
        BY <2>2, <3>1, <3>2, <3>3 DEF Starts
      <3> QED
        BY <2>1, <3>4 DEF AnyNext
    <2>3. CASE Submit(r, "complete", w, 0, "pending")
      <3>1. "complete" \in LockedOp /\ 0 \in Stages \cup {0} /\ "pending" \in StageStatus
        BY DEF LockedOp, StageStatus
      <3>2. req[r] = Idle
        BY <2>3 DEF Submit
      <3>3. Starts(r)
        BY <2>3, <3>1, <3>2 DEF Starts
      <3> QED
        BY <2>1, <3>3 DEF AnyNext
    <2> QED
      BY <1>5, <2>2, <2>3 DEF PostAttempt
  <1>6. ASSUME NEW w \in Workflows, SupervisorTimeout(w) PROVE AnyNext
    BY <1>6 DEF AnyNext
  <1>7. CASE ServiceCrash
    BY <1>7 DEF ServiceCrash, AnyNext
  <1>8. CASE GatewayCrash
    <2>1. crashes' \in 0..MaxCrashes
      BY <1>8 DEF GatewayCrash, TypeOK
    <2> QED
      BY <1>8, <2>1 DEF GatewayCrash, CrashElsewhere, AnyNext
  <1>9. CASE UNCHANGED allVars
    BY <1>9 DEF allVars
  <1> QED
    BY <1>1, <1>2, <1>3, <1>4, <1>5, <1>6, <1>7, <1>8, <1>9
       DEF ExecutionNext, GatewayProceeds

\* How the run of a workflow changes: not at all, it ends, or what it awaited
\* did; or by one of its own steps.
RunStep(w) ==
    \/ run'[w] = run[w]
    \/ run'[w] = NoRun
    \/ run[w] # NoRun /\ run[w].call # {} /\ \E answer \in {"refused", "retry"} :
          run'[w] = [run[w] EXCEPT !.call = {}, !.answer = answer]
    \/ \E r \in Requests :
          /\ run[w] # NoRun /\ r \in run[w].call
          /\ ServiceFinishes(r)
          /\ run'[w] = [run[w] EXCEPT !.call = {}, !.answer = "taken"]
    \/ \E r \in Requests :
          /\ GatewayAccept(r) /\ req[r].wf = w /\ run[w] = NoRun
          /\ run'[w] = [pc |-> "accepted", chain |-> NoStages, at |-> 1,
                        result |-> "pending", call |-> {}, answer |-> "none",
                        tries |-> 0]
    \/ /\ FetchWorkflow(w) /\ w \in store /\ NStages > 0
       /\ run'[w] = Advance(stages[w], 1)
    \/ /\ ExecuteStage(w)
       /\ \E result \in Results :
             run'[w] = [run[w] EXCEPT !.pc = "reporting", !.result = result]
    \/ \E r \in GatewayCalls :
          /\ PostAttempt(w, r)
          /\ run'[w] = [run[w] EXCEPT !.call = {r}, !.tries = @ + 1]
    \/ /\ TakeAnswer(w)
       /\ run[w].answer = "retry" /\ run[w].tries < Attempts
       /\ run'[w] = [run[w] EXCEPT !.answer = "none"]
    \/ /\ TakeAnswer(w)
       /\ run[w].answer = "taken" /\ run[w].pc = "reporting" /\ run[w].result = "completed"
       /\ run'[w] = Advance(run[w].chain, run[w].at + 1)

LEMMA RunSteps ==
    ASSUME ExecutionTypeOK, [ExecutionNext]_allVars, NEW w \in Workflows
    PROVE  RunStep(w)
  <1> USE DEF RunStep
  <1>0. run \in [Workflows -> Run \cup {NoRun}] /\ {"none", "taken", "refused", "retry"} = Answer
    BY DEF ExecutionTypeOK, Answer
  <1>1. ASSUME NEW r \in Requests, ServiceFinishes(r) PROVE RunStep(w)
    BY <1>0, <1>1 DEF ServiceFinishes, Answered
  <1>2. ASSUME NEW r \in Requests, ServiceRejects(r) PROVE RunStep(w)
    <2>1. ASSUME NEW answer \in {"refused", "retry"}, Answered(r, answer) PROVE RunStep(w)
      BY <1>0, <2>1 DEF Answered
    <2>2. Answered(r, "refused") \/ Answered(r, "retry")
      BY <1>2 DEF ServiceRejects
    <2> HIDE DEF RunStep
    <2> QED
      BY <2>1, <2>2
  <1>3. ASSUME NEW r \in Requests,
               ServiceReports(r) \/ ServiceStarts(r) \/ ServiceDispatched(r) \/ ServiceWorks(r)
        PROVE  RunStep(w)
    BY <1>3 DEF ServiceReports, ServiceStarts, ServiceDispatched, ServiceWorks, gatewayVars
  <1>4. ASSUME NEW r \in Requests, GatewayAccept(r) PROVE RunStep(w)
    BY <1>0, <1>4 DEF GatewayAccept
  <1>5. ASSUME NEW x \in Workflows, FetchWorkflow(x) PROVE RunStep(w)
    BY <1>0, <1>5 DEF FetchWorkflow
  <1>6. ASSUME NEW x \in Workflows, ExecuteStage(x) PROVE RunStep(w)
    BY <1>0, <1>6 DEF ExecuteStage
  <1>7. ASSUME NEW x \in Workflows, NEW r \in GatewayCalls, PostAttempt(x, r) PROVE RunStep(w)
    BY <1>0, <1>7 DEF PostAttempt
  <1>8. ASSUME NEW x \in Workflows, TakeAnswer(x) PROVE RunStep(w)
    BY <1>0, <1>8 DEF TakeAnswer, AfterAttempt
  <1>9. ASSUME NEW x \in Workflows, AttemptTimeout(x) PROVE RunStep(w)
    BY <1>0, <1>9 DEF AttemptTimeout
  <1>10. CASE ServiceCrash
    BY <1>0, <1>10 DEF ServiceCrash
  <1>11. CASE GatewayCrash
    BY <1>11 DEF GatewayCrash
  <1>12. CASE UNCHANGED run
    BY <1>12
  <1> QED
    BY <1>1, <1>2, <1>3, <1>4, <1>5, <1>6, <1>7, <1>8, <1>9, <1>10, <1>11, <1>12
       DEF ExecutionNext, ServiceProceeds, GatewayProceeds, gatewayVars, allVars

LEMMA RunFunction ==
    ASSUME ExecutionTypeOK, [ExecutionNext]_allVars
    PROVE  run' = [w \in Workflows |-> run'[w]]
  <1>0. run \in [Workflows -> Run \cup {NoRun}] /\ run = [w \in Workflows |-> run[w]]
    BY DEF ExecutionTypeOK
  <1>1. ASSUME NEW r \in Requests, ServiceProceeds(r) PROVE run' = [w \in Workflows |-> run'[w]]
    <2>1. run' = run \/ \E answer : Answered(r, answer)
      BY <1>1, Zenon DEF ServiceProceeds, ServiceFinishes, ServiceRejects, ServiceReports,
         ServiceStarts, ServiceDispatched, ServiceWorks, gatewayVars
    <2> QED
      BY <1>0, <2>1 DEF Answered
  <1>2. ASSUME NEW w \in Workflows,
               \/ FetchWorkflow(w) \/ ExecuteStage(w) \/ TakeAnswer(w) \/ AttemptTimeout(w)
               \/ \E r \in GatewayCalls : PostAttempt(w, r)
        PROVE  \E one : run' = [run EXCEPT ![w] = one]
    BY <1>2 DEF FetchWorkflow, ExecuteStage, TakeAnswer, AttemptTimeout, PostAttempt
  <1>3. ASSUME NEW r \in Requests, GatewayAccept(r)
        PROVE  run' = run \/ \E one : run' = [run EXCEPT ![req[r].wf] = one]
    BY <1>3 DEF GatewayAccept
  <1>4. CASE ServiceCrash \/ GatewayCrash
    BY <1>4 DEF ServiceCrash, GatewayCrash
  <1>5. CASE UNCHANGED run
    BY <1>0, <1>5
  <1> QED
    BY <1>0, <1>1, <1>2, <1>3, <1>4, <1>5
       DEF ExecutionNext, GatewayProceeds, gatewayVars, allVars

\* What a run is after a step, and where its phase comes from.
LEMMA NextRun ==
    ASSUME ExecutionTypeOK, NEW w \in Workflows, RunSound(w), [ExecutionNext]_allVars,
           run'[w] # NoRun
    PROVE  /\ run'[w] \in Run
           /\ run'[w].pc \in {"executing", "reporting"} => run'[w].at \in Stages
           /\ run'[w].pc = "reporting" => run'[w].result \in Results
           /\ run'[w].pc \in {"accepted", "executing"} =>
                 run'[w].call = {} /\ run'[w].answer = "none"
           /\ run'[w].call # {} => run'[w].answer = "none"
           /\ run'[w].call = {} /\ run'[w].answer = "none" => run'[w].tries < Attempts
           /\ \/ run'[w].call = {}
              \/ run'[w] = run[w]
              \/ \E r \in GatewayCalls : PostAttempt(w, r) /\ run'[w].call = {r}
  <1> USE ServiceAssumption, ExecutionAssumption
  <1> DEFINE next == run'[w]
             Good == /\ next \in Run
                     /\ next.pc \in {"executing", "reporting"} => next.at \in Stages
                     /\ next.pc = "reporting" => next.result \in Results
                     /\ next.pc \in {"accepted", "executing"} =>
                           next.call = {} /\ next.answer = "none"
                     /\ next.call # {} => next.answer = "none"
                     /\ next.call = {} /\ next.answer = "none" => next.tries < Attempts
                     /\ \/ next.call = {}
                        \/ next = run[w]
                        \/ \E r \in GatewayCalls : PostAttempt(w, r) /\ next.call = {r}
  <1>0. /\ run[w] # NoRun => run[w] \in Run
        /\ run[w].pc = "none" <=> run[w] = NoRun
    BY RunType
  <1>1. CASE next = run[w]
    BY <1>0, <1>1 DEF RunSound
  <1>2. ASSUME NEW answer \in {"taken", "refused", "retry"}, run[w] # NoRun, run[w].call # {},
               next = [run[w] EXCEPT !.call = {}, !.answer = answer]
        PROVE  Good
    <2>1. run[w] \in Run /\ answer \in Answer
      BY <1>0, <1>2 DEF Answer
    <2> HIDE DEF next
    <2>2. /\ next \in Run
          /\ next.pc = run[w].pc /\ next.at = run[w].at /\ next.result = run[w].result
          /\ next.call = {} /\ next.answer = answer
      BY <1>2, <2>1 DEF Run
    <2>3. run[w].pc \notin {"accepted", "executing"}
      BY <1>2 DEF RunSound
    <2> QED
      BY <1>2, <2>2, <2>3 DEF RunSound
  <1>3. ASSUME NEW r \in Requests, GatewayAccept(r),
               next = [pc |-> "accepted", chain |-> NoStages, at |-> 1,
                       result |-> "pending", call |-> {}, answer |-> "none", tries |-> 0]
        PROVE  Good
    <2>1. NoStages \in [Stages -> StageStatus] /\ 1 \in 1..(NStages + 1)
      BY DEF NoStages, StageStatus
    <2>2. next \in Run
      BY <1>3, <2>1 DEF Run, Answer
    <2> HIDE DEF next
    <2> QED
      BY <1>3, <2>2
  <1>4. ASSUME NEW chain \in [Stages -> StageStatus], NEW from \in Nat \ {0},
               next = Advance(chain, from)
        PROVE  Good
    <2> HIDE DEF next
    <2> QED
      BY <1>4, AdvanceEffect
  <1>5. CASE FetchWorkflow(w) /\ next = Advance(stages[w], 1)
    <2>1. stages[w] \in [Stages -> StageStatus]
      BY DEF ExecutionTypeOK, TypeOK
    <2> QED
      BY <1>4, <1>5, <2>1
  <1>6. ASSUME ExecuteStage(w), NEW result \in Results,
               next = [run[w] EXCEPT !.pc = "reporting", !.result = result]
        PROVE  Good
    <2>1. run[w] \in Run /\ run[w].pc = "executing" /\ run[w] # NoRun
      BY <1>0, <1>6 DEF ExecuteStage
    <2>2. /\ next \in Run /\ next.pc = "reporting" /\ next.result = result
          /\ next.call = run[w].call /\ next.answer = run[w].answer
          /\ next.tries = run[w].tries /\ next.at = run[w].at
      BY <1>6, <2>1 DEF Run
    <2> HIDE DEF next
    <2> QED
      BY <2>1, <2>2 DEF RunSound
  <1>7. ASSUME NEW r \in GatewayCalls, PostAttempt(w, r),
               next = [run[w] EXCEPT !.call = {r}, !.tries = @ + 1]
        PROVE  Good
    <2>1. /\ run[w] \in Run /\ run[w].pc \in {"reporting", "completing"} /\ run[w] # NoRun
          /\ run[w].call = {} /\ run[w].answer = "none"
      BY <1>0, <1>7 DEF PostAttempt
    <2>2. run[w].tries \in 0..Attempts /\ run[w].tries < Attempts
      BY <2>1 DEF Run, RunSound
    <2>3. run[w].tries + 1 \in 0..Attempts
      BY <2>2
    <2> HIDE DEF next
    <2>4. /\ next \in Run /\ next.pc = run[w].pc /\ next.result = run[w].result
          /\ next.call = {r} /\ next.answer = "none" /\ next.at = run[w].at
      BY <1>7, <2>1, <2>3 DEF Run
    <2> QED
      BY <1>7, <2>1, <2>4 DEF RunSound
  <1>8. ASSUME TakeAnswer(w), run[w].answer = "retry", run[w].tries < Attempts,
               next = [run[w] EXCEPT !.answer = "none"]
        PROVE  Good
    <2>1. run[w] \in Run /\ run[w] # NoRun
      BY <1>0, <1>8 DEF TakeAnswer
    <2> HIDE DEF next
    <2>2. /\ next \in Run /\ next.pc = run[w].pc /\ next.result = run[w].result
          /\ next.call = run[w].call /\ next.answer = "none" /\ next.at = run[w].at
          /\ next.tries = run[w].tries
      BY <1>8, <2>1 DEF Run, Answer
    <2>3. /\ run[w].call = {}
          /\ run[w].pc \notin {"accepted", "executing"}
          /\ run[w].pc = "reporting" => run[w].at \in Stages /\ run[w].result \in Results
      BY <1>8, <2>1 DEF RunSound
    <2> QED
      BY <1>8, <2>2, <2>3
  <1>9. CASE /\ TakeAnswer(w) /\ run[w].pc = "reporting"
             /\ next = Advance(run[w].chain, run[w].at + 1)
    <2>1. run[w] \in Run /\ run[w].at \in Stages
      BY <1>0, <1>9 DEF TakeAnswer, RunSound
    <2>2. run[w].chain \in [Stages -> StageStatus] /\ run[w].at + 1 \in Nat \ {0}
      BY <2>1 DEF Run, Stages
    <2> QED
      BY <1>4, <1>9, <2>2
  <1>10. run'[w] # NoRun /\ RunStep(w)
    BY RunSteps
  <1> QED
    BY <1>1, <1>2, <1>3, <1>5, <1>6, <1>7, <1>8, <1>9, <1>10 DEF RunStep

LEMMA NextExecutionType ==
    ASSUME ExecutionInductive, [ExecutionNext]_allVars
    PROVE  ExecutionTypeOK'
  <1> USE ServiceAssumption, ExecutionAssumption
  <1>1. /\ TypeOK /\ ExecutionTypeOK /\ QueueSound
        /\ \A w \in Workflows : RunSound(w)
    BY DEF ExecutionInductive, ExecutionTypeOK
  <1>2. TypeOK'
    BY <1>1, ExecutionIsAny, NextInductive DEF ExecutionInductive, Inductive
  <1>3. run' \in [Workflows -> Run \cup {NoRun}]
    <2>1. \A w \in Workflows : run'[w] \in Run \cup {NoRun}
      BY <1>1, NextRun
    <2>2. run' = [w \in Workflows |-> run'[w]]
      BY <1>1, RunFunction
    <2> QED
      BY <2>1, <2>2
  <1> DEFINE Rest == /\ accepted' \in SUBSET Requests
                     /\ degraded' \in SUBSET Workflows
                     /\ done' \in [Workflows -> SUBSET Stages]
                     /\ starts' \in [Workflows -> 0..MaxStarts]
                     /\ failures' \in 0..MaxFailures
  <1>4. ASSUME UNCHANGED <<degraded, done, starts, failures>>,
               accepted' \in SUBSET Requests
        PROVE  Rest
    BY <1>1, <1>4 DEF ExecutionTypeOK
  <1>5. ASSUME NEW r \in Requests, ServiceProceeds(r) PROVE Rest
    <2>1. CASE ServiceFinishes(r) \/ ServiceWorks(r)
      BY <1>1, <2>1 DEF ServiceFinishes, ServiceWorks, gatewayVars, ExecutionTypeOK
    <2>2. CASE ServiceRejects(r)
      <3>1. failures' \in 0..MaxFailures
        BY <1>1, <2>2 DEF ServiceRejects, ExecutionTypeOK
      <3> QED
        BY <1>1, <2>2, <3>1 DEF ServiceRejects, ExecutionTypeOK
    <2>3. CASE ServiceReports(r)
      <3>1. req[r].pc # "idle" /\ req[r].op = "report"
        BY <2>3 DEF ServiceReports, StageReport
      <3>2. req[r].wf \in Workflows /\ req[r].stage \in Stages
        BY <1>1, <3>1, CallType DEF QueueSound
      <3>3. done' \in [Workflows -> SUBSET Stages]
        BY <1>1, <2>3, <3>2 DEF ServiceReports, ExecutionTypeOK
      <3> QED
        BY <1>1, <2>3, <3>3 DEF ServiceReports, ExecutionTypeOK
    <2>4. CASE ServiceStarts(r)
      <3>1. req[r].wf \in Workflows
        BY <1>1, <2>4, CallType DEF ServiceStarts, DispatchStart
      <3>2. starts' \in [Workflows -> 0..MaxStarts]
        BY <1>1, <2>4, <3>1 DEF ServiceStarts, ExecutionTypeOK
      <3> QED
        BY <1>1, <2>4, <3>2 DEF ServiceStarts, ExecutionTypeOK
    <2>5. CASE ServiceDispatched(r)
      <3>1. req[r].wf \in Workflows
        BY <1>1, <2>5, CallType DEF ServiceDispatched, DispatchSent
      <3> QED
        BY <1>1, <2>5, <3>1 DEF ServiceDispatched, ExecutionTypeOK
    <2> QED
      BY <1>5, <2>1, <2>2, <2>3, <2>4, <2>5 DEF ServiceProceeds
  <1>6. ASSUME NEW r \in Requests, GatewayAccept(r) PROVE Rest
    BY <1>1, <1>4, <1>6 DEF GatewayAccept, ExecutionTypeOK
  <1>7. ASSUME NEW w \in Workflows, GatewayProceeds(w) PROVE Rest
    <2>1. UNCHANGED <<accepted, degraded, done, starts, failures>>
      BY <1>7 DEF GatewayProceeds, FetchWorkflow, ExecuteStage, PostAttempt, TakeAnswer
    <2> QED
      BY <1>1, <1>4, <2>1 DEF ExecutionTypeOK
  <1>8. ASSUME NEW w \in Workflows, AttemptTimeout(w) PROVE Rest
    BY <1>1, <1>8 DEF AttemptTimeout, ExecutionTypeOK
  <1>9. ASSUME ServiceCrash \/ GatewayCrash PROVE Rest
    BY <1>1, <1>4, <1>9 DEF ServiceCrash, GatewayCrash, ExecutionTypeOK
  <1>10. ASSUME UNCHANGED gatewayVars PROVE Rest
    BY <1>1, <1>10 DEF gatewayVars, ExecutionTypeOK
  <1> HIDE DEF Rest
  <1>11. Rest
    BY <1>5, <1>6, <1>7, <1>8, <1>9, <1>10 DEF ExecutionNext, allVars
  <1> QED
    BY <1>2, <1>3, <1>11 DEF ExecutionTypeOK, Rest

\* A call that is new to the service is a client's dispatch, or a run's.
LEMMA NewCall ==
    ASSUME ExecutionInductive, [ExecutionNext]_allVars, NEW q \in Requests,
           req[q].pc = "idle", req'[q].pc = "queued"
    PROVE  \/ req'[q].op = "dispatch"
           \/ \E w \in Workflows : q \in GatewayCalls /\ PostAttempt(w, q)
  <1> USE ServiceAssumption, ExecutionAssumption
  <1>1. TypeOK
    BY DEF ExecutionInductive, ExecutionTypeOK
  <1>2. req \in [Requests -> Call \cup {Idle}]
    BY <1>1 DEF TypeOK
  <1>3. ASSUME NEW r \in Requests, Arrive(r) PROVE req'[q].op = "dispatch"
    <2>1. Starts(r)
      BY <1>3, ArriveIsStart
    <2>2. q = r
      BY <1>1, <2>1, StartEffect
    <2>3. PICK w \in Workflows, op \in ClientOps \cap LockedOp : Submit(r, op, w, 0, "pending")
      BY <1>2, <1>3, <2>2 DEF Arrive, PlanCheck, SubmitControl
    <2>4. op = "dispatch"
      BY DEF LockedOp
    <2> QED
      BY <1>2, <2>2, <2>3, <2>4 DEF Submit
  <1>4. ASSUME NEW r \in Requests, Proceed(r) PROVE FALSE
    <2>1. req[r].pc # "idle"
      BY <1>4 DEF Proceed, PlanStore, RejectLocked, RejectUnlocked, DispatchStart, DispatchSent,
         StageReport, Complete, Control, Finish, HoldsLock
    <2>2. (\E phase : Goto(r, phase)) \/ Reply(r)
      BY <1>4, Zenon DEF Proceed, PlanStore, RejectLocked, RejectUnlocked, DispatchStart, DispatchSent,
         StageReport, Complete, Control, Finish
    <2> QED
      BY <1>1, <2>1, <2>2, GotoEffect, ReplyEffect
  <1>5. \A r \in Requests : ServiceProceeds(r) => Proceed(r)
    BY Zenon DEF ServiceProceeds, ServiceFinishes, ServiceRejects, ServiceReports,
       ServiceStarts, ServiceDispatched, ServiceWorks, Proceed
  <1>6. ASSUME NEW w \in Workflows, NEW r \in GatewayCalls, PostAttempt(w, r)
        PROVE  q \in GatewayCalls /\ PostAttempt(w, q)
    <2>1. PICK op, s, report : Submit(r, op, w, s, report)
      BY <1>6 DEF PostAttempt
    <2>2. q = r
      BY <1>2, <2>1 DEF Submit
    <2> QED
      BY <1>6, <2>2
  <1>7. req' # req /\ ~Crash
    BY DEF Crash, Idle
  <1>8. /\ \A r \in Requests : ~GatewayAccept(r)
        /\ \A w \in Workflows :
              /\ ~FetchWorkflow(w) /\ ~ExecuteStage(w) /\ ~TakeAnswer(w)
              /\ ~AttemptTimeout(w) /\ ~SupervisorTimeout(w)
    BY <1>7 DEF GatewayAccept, FetchWorkflow, ExecuteStage, TakeAnswer, AttemptTimeout,
       SupervisorTimeout, vars
  <1>9. ~ServiceCrash /\ ~GatewayCrash /\ ~UNCHANGED allVars
    BY <1>7 DEF ServiceCrash, GatewayCrash, allVars, vars
  <1> QED
    BY <1>3, <1>4, <1>5, <1>6, <1>8, <1>9 DEF ExecutionNext, GatewayProceeds

\* The call a run awaits goes on, unless the run learns of its end.
LEMMA CallKept ==
    ASSUME ExecutionInductive, [ExecutionNext]_allVars, NEW w \in Workflows,
           NEW r \in Requests, run[w] # NoRun, CallOf(w, r), run'[w] = run[w]
    PROVE  SameCall(r) /\ req'[r].pc \in {"queued", "finishing"}
  <1> USE ServiceAssumption, ExecutionAssumption
  <1>1. TypeOK /\ ExecutionTypeOK
    BY DEF ExecutionInductive, ExecutionTypeOK
  <1>2. /\ req[r].pc \in {"queued", "finishing"}
        /\ req[r].op # "dispatch"
        /\ run[w].call = {r} /\ run[w] \in Run
    BY <1>1, RunType DEF ExecutionInductive, RunSound, CallOf, Run
  <1>3. ASSUME req'[r] = req[r] PROVE SameCall(r) /\ req'[r].pc \in {"queued", "finishing"}
    BY <1>2, <1>3 DEF SameCall
  <1>4. ASSUME NEW q \in Requests, Starts(q) PROVE req'[r] = req[r]
    BY <1>1, <1>2, <1>4, StartEffect DEF Starts, Idle
  <1>5. ASSUME NEW q \in Requests, Reply(q), q # r PROVE req'[r] = req[r]
    BY <1>1, <1>5, ReplyEffect
  <1>6. ASSUME NEW q \in Requests, Goto(q, "finishing"), req[q].pc # "idle"
        PROVE  SameCall(r) /\ req'[r].pc \in {"queued", "finishing"}
    BY <1>1, <1>2, <1>3, <1>6, GotoEffect DEF SameCall
  <1>7. ASSUME NEW q \in Requests, NEW answer, Answered(q, answer) PROVE q # r
    <2>1. SUFFICES ASSUME q = r PROVE FALSE
      OBVIOUS
    <2>2. run'[w] = [run[w] EXCEPT !.call = {}, !.answer = answer]
      BY <1>2, <1>7, <2>1 DEF Answered
    <2>3. run'[w].call = {}
      BY <1>2, <2>2 DEF Run
    <2> QED
      BY <1>2, <2>3
  <1>8. ASSUME NEW q \in Requests, ServiceProceeds(q)
        PROVE  SameCall(r) /\ req'[r].pc \in {"queued", "finishing"}
    <2>1. CASE ServiceFinishes(q)
      BY <1>3, <1>5, <1>7, <2>1 DEF ServiceFinishes, Finish
    <2>2. CASE ServiceRejects(q)
      BY <1>3, <1>5, <1>7, <2>2 DEF ServiceRejects, RejectLocked
    <2>3. CASE ServiceReports(q)
      BY <1>6, <2>3 DEF ServiceReports, StageReport
    <2>4. CASE ServiceDispatched(q)
      BY <1>6, <2>4 DEF ServiceDispatched, DispatchSent
    <2>5. CASE ServiceStarts(q)
      <3>1. Goto(q, "posting") /\ req[q].pc # "idle" /\ req[q].op = "dispatch"
        BY <2>5 DEF ServiceStarts, DispatchStart
      <3> QED
        BY <1>1, <1>2, <1>3, <3>1, GotoEffect
    <2>6. ASSUME PlanStore(q) \/ Complete(q) \/ Control(q)
          PROVE  SameCall(r) /\ req'[r].pc \in {"queued", "finishing"}
      BY <1>6, <2>6 DEF PlanStore, Complete, Control
    <2>7. CASE RejectUnlocked(q)
      BY <1>2, <1>3, <1>5, <2>7 DEF RejectUnlocked
    <2> QED
      BY <1>8, <2>1, <2>2, <2>3, <2>4, <2>5, <2>6, <2>7 DEF ServiceProceeds, ServiceWorks
  <1>9. ASSUME NEW x \in Workflows, NEW q \in GatewayCalls, PostAttempt(x, q) PROVE req'[r] = req[r]
    <2>1. PICK op, s, report : Submit(q, op, x, s, report)
      BY <1>9 DEF PostAttempt
    <2>2. q # r
      BY <1>2, <2>1 DEF Submit, Idle
    <2> QED
      BY <1>1, <2>1, <2>2 DEF Submit, TypeOK
  <1>10. ~ServiceCrash /\ ~GatewayCrash
    <2>1. ASSUME ServiceCrash PROVE FALSE
      <3>1. run'[w] = NoRun \/ run'[w] = [run[w] EXCEPT !.call = {}, !.answer = "retry"]
        BY <1>2, <2>1 DEF ServiceCrash
      <3> QED
        BY <1>2, <3>1 DEF Run
    <2>2. ASSUME GatewayCrash PROVE FALSE
      BY <2>2 DEF GatewayCrash
    <2> QED
      BY <2>1, <2>2
  <1>11. /\ \A q \in Requests : GatewayAccept(q) => req' = req
         /\ \A x \in Workflows :
               FetchWorkflow(x) \/ ExecuteStage(x) \/ TakeAnswer(x) \/ AttemptTimeout(x)
               \/ SupervisorTimeout(x) => req' = req
         /\ UNCHANGED allVars => req' = req
    BY DEF GatewayAccept, FetchWorkflow, ExecuteStage, TakeAnswer, AttemptTimeout,
       SupervisorTimeout, vars, allVars
  <1>12. \A q \in Requests : Arrive(q) => Starts(q)
    BY ArriveIsStart
  <1> QED
    BY <1>3, <1>4, <1>8, <1>9, <1>10, <1>11, <1>12 DEF ExecutionNext, GatewayProceeds

LEMMA NextRunSound ==
    ASSUME ExecutionInductive, [ExecutionNext]_allVars, NEW w \in Workflows
    PROVE  RunSound(w)'
  <1> USE ServiceAssumption, ExecutionAssumption
  <1>1. /\ TypeOK /\ ExecutionTypeOK /\ PhaseOfOp /\ LockDiscipline /\ QueueSound
        /\ RunSound(w) /\ [AnyNext]_vars
    BY ExecutionIsAny DEF ExecutionInductive, ExecutionTypeOK, Inductive
  <1> SUFFICES ASSUME run'[w] # NoRun, NEW r \in run'[w].call PROVE CallOf(w, r)'
    BY <1>1, NextRun DEF RunSound
  <1>2. queue[w] \in Seq(Requests)
    BY <1>1 DEF TypeOK
  <1>3. CASE run'[w] = run[w]
    <2>1. CallOf(w, r) /\ r \in Requests /\ run[w] # NoRun
      <3>1. run[w] \in Run
        BY <1>1, <1>3, RunType
      <3> QED
        BY <1>1, <1>3, <3>1 DEF RunSound, Run
    <2>2. SameCall(r) /\ req'[r].pc \in {"queued", "finishing"}
      BY <1>3, <2>1, CallKept
    <2>3. \A i, j \in 1..Len(queue'[w]) :
             queue'[w][i] = r /\ i < j => req'[queue'[w][j]].op = "dispatch"
      <3>1. \A i, j \in 1..Len(queue[w]) :
               queue[w][i] = r /\ i < j => req[queue[w][j]].op = "dispatch"
        BY <2>1 DEF CallOf
      <3>2. \A i \in 1..Len(queue[w]) : queue[w][i] \in InQueue(w)
        BY DEF InQueue
      <3>3. CASE Stays(w)
        BY <3>1, <3>2, <3>3 DEF Stays, SameCall
      <3>4. ASSUME NEW q \in Requests, Joins(w, q)
            PROVE  \A i, j \in 1..Len(queue'[w]) :
                      queue'[w][i] = r /\ i < j => req'[queue'[w][j]].op = "dispatch"
        <4>1. /\ Len(queue'[w]) = Len(queue[w]) + 1
              /\ queue'[w][Len(queue[w]) + 1] = q
              /\ \A i \in 1..Len(queue[w]) : queue'[w][i] = queue[w][i]
          BY <1>2, <3>4 DEF Joins
        <4>2. req'[q].op = "dispatch"
          <5>1. req[q].pc = "idle" /\ req'[q].pc = "queued" /\ req'[q].wf = w
            BY <3>4 DEF Joins, Starts, Idle
          <5>2. ASSUME NEW x \in Workflows, PostAttempt(x, q) PROVE x # w
            BY <1>3, <2>1, <5>2 DEF PostAttempt, CallOf
          <5>3. ASSUME NEW x \in Workflows, PostAttempt(x, q) PROVE req'[q].wf = x
            BY <1>1, <5>3 DEF PostAttempt, Submit, TypeOK
          <5> QED
            BY <5>1, <5>2, <5>3, NewCall
        <4>3. \A j \in 1..Len(queue'[w]) : j \in 1..Len(queue[w]) \/ j = Len(queue[w]) + 1
          BY <1>2, <4>1
        <4>4. \A i, j \in 1..Len(queue'[w]) :
                 i < j /\ j \in 1..Len(queue[w]) => i \in 1..Len(queue[w])
          BY <1>2, <4>1
        <4>5. \A j \in 1..Len(queue[w]) : req'[queue[w][j]].op = req[queue[w][j]].op
          BY <3>2, <3>4 DEF Joins, SameCall
        <4>6. SUFFICES ASSUME NEW i \in 1..Len(queue'[w]), NEW j \in 1..Len(queue'[w]),
                              queue'[w][i] = r, i < j
                       PROVE  req'[queue'[w][j]].op = "dispatch"
          OBVIOUS
        <4>7. CASE j = Len(queue[w]) + 1
          BY <4>1, <4>2, <4>7
        <4>8. CASE j \in 1..Len(queue[w])
          <5>1. i \in 1..Len(queue[w])
            BY <4>4, <4>6, <4>8
          <5>2. queue[w][i] = r /\ queue'[w][j] = queue[w][j]
            BY <4>1, <4>6, <4>8, <5>1
          <5>3. req[queue[w][j]].op = "dispatch"
            BY <3>1, <4>6, <4>8, <5>1, <5>2
          <5> QED
            BY <4>5, <4>8, <5>2, <5>3
        <4> QED
          BY <4>3, <4>7, <4>8
      <3>5. ASSUME NEW q \in Requests, Leaves(w, q)
            PROVE  \A i, j \in 1..Len(queue'[w]) :
                      queue'[w][i] = r /\ i < j => req'[queue'[w][j]].op = "dispatch"
        <4>1. /\ \A i \in 1..Len(queue'[w]) :
                    /\ i + 1 \in 1..Len(queue[w])
                    /\ queue'[w][i] = queue[w][i + 1]
              /\ q = queue[w][1] /\ 1 \in 1..Len(queue[w])
              /\ Len(queue'[w]) \in Nat
          BY <1>2, <3>5 DEF Leaves
        <4>2. \A i \in 1..Len(queue'[w]) : queue'[w][i] # q
          <5>1. \A i, j \in 1..Len(queue[w]) : queue[w][j] = queue[w][i] => i = j
            BY <1>1 DEF QueueSound
          <5> QED
            BY <4>1, <5>1
        <4>3. \A i, j \in 1..Len(queue'[w]) : i < j => i + 1 < j + 1
          BY <4>1
        <4> QED
          BY <3>1, <3>2, <3>5, <4>1, <4>2, <4>3 DEF Leaves, SameCall
      <3>6. CASE queue'[w] = <<>>
        BY <3>6
      <3> QED
        BY <1>1, <3>3, <3>4, <3>5, <3>6, LockSteps DEF LockStep
    <2> QED
      BY <1>3, <2>1, <2>2, <2>3 DEF CallOf, SameCall
  <1>4. ASSUME r \in GatewayCalls, PostAttempt(w, r), run'[w].call = {r} PROVE CallOf(w, r)'
    <2>1. PICK op, s, report : Submit(r, op, w, s, report)
      BY <1>4 DEF PostAttempt
    <2>2. /\ r \in Requests /\ req[r].pc = "idle"
          /\ queue'[w] = Append(queue[w], r)
          /\ req'[r] = [pc |-> "queued", op |-> op, wf |-> w, stage |-> s, report |-> report]
      BY <1>1, <1>4, <2>1 DEF Submit, Idle, TypeOK
    <2>3. r \notin InQueue(w)
      BY <1>1, <2>2, Members
    <2>4. /\ Len(queue'[w]) = Len(queue[w]) + 1
          /\ \A i \in 1..Len(queue[w]) : queue'[w][i] = queue[w][i]
      BY <1>2, <2>2
    <2>5. \A i, j \in 1..Len(queue'[w]) : ~(queue'[w][i] = r /\ i < j)
      BY <1>2, <2>3, <2>4 DEF InQueue
    <2>6. run[w] \in Run /\ run' = [run EXCEPT ![w].call = {r}, ![w].tries = @ + 1]
      BY <1>1, <1>4, RunType DEF PostAttempt, NoRun
    <2>7. run'[w].pc = run[w].pc /\ run'[w].at = run[w].at /\ run'[w].result = run[w].result
      BY <1>1, <2>6 DEF ExecutionTypeOK, Run
    <2>8. \/ /\ run[w].pc = "reporting"
             /\ Submit(r, "report", w, run[w].at, run[w].result)
          \/ /\ run[w].pc = "completing"
             /\ Submit(r, "complete", w, 0, "pending")
      BY <1>4 DEF PostAttempt
    <2>9. /\ run[w].pc = "reporting" => op = "report" /\ s = run[w].at /\ report = run[w].result
          /\ run[w].pc = "completing" => op = "complete"
      BY <1>1, <2>2, <2>8 DEF Submit, TypeOK
    <2> QED
      BY <1>4, <2>2, <2>5, <2>7, <2>9 DEF CallOf
  <1>5. \/ run'[w] = run[w]
        \/ \E q \in GatewayCalls : PostAttempt(w, q) /\ run'[w].call = {q}
    BY <1>1, NextRun
  <1> QED
    BY <1>3, <1>4, <1>5

-----------------------------------------------------------------------------
(* Steps that do not concern the run of a workflow *)

\* Where a draft and a success come from.
LEMMA NextStatus ==
    ASSUME Inductive, SuccessKnown, [AnyNext]_vars, NEW w \in Workflows
    PROVE  /\ status'[w] = "draft" => status[w] = "draft"
           /\ ~lost' => ~lost
           /\ ~lost' /\ status'[w] = "succeeded" => Ending(w)
  <1>1. TypeOK /\ MachineAgrees /\ PhaseOfOp /\ PlannedOnce /\ NeverReporting /\ DiskCurrent
    BY DEF Inductive
  <1>2. status \in [Workflows -> WorkflowState] /\ disk \in Content
    BY <1>1 DEF TypeOK
  <1>3. ~lost' => ~lost
    BY HistoryStep DEF Crash
  <1>4. CASE UNCHANGED status
    BY <1>3, <1>4 DEF Ending
  <1>5. ASSUME NEW r \in Requests, PlanStore(r)
        PROVE  /\ status'[w] = "draft" => status[w] = "draft"
               /\ status'[w] = "succeeded" => status[w] = "succeeded"
    BY <1>1, <1>2, <1>5, PlanEffect
  <1>6. ASSUME NEW r \in Requests, Complete(r)
        PROVE  /\ status'[w] = "draft" => status[w] = "draft"
               /\ status'[w] = "succeeded" => Ending(w)
    <2>1. r \in InQueue(req[r].wf) /\ req[r].op = "complete"
      BY <1>1, <1>6, HolderIn DEF Complete
    <2> QED
      BY <1>1, <1>2, <1>6, <2>1, CompleteEffect DEF Ending
  <1>7. ASSUME NEW r \in Requests, NEW event \in SentEvent, req[r].wf \in Workflows,
               Transition(req[r].wf, event)
        PROVE  /\ status'[w] = "draft" => status[w] = "draft"
               /\ status'[w] = "succeeded" => status[w] = "succeeded"
    <2>1. /\ status' = [status EXCEPT ![req[r].wf] = Send(status[req[r].wf], event)]
          /\ status[req[r].wf] \in WorkflowState
      BY <1>1, <1>7, SentEffect
    <2>2. status[req[r].wf] # "reporting"
      BY <1>1, <1>7 DEF NeverReporting
    <2>3. /\ Send(status[req[r].wf], event) = "succeeded" => status[req[r].wf] = "succeeded"
          /\ Send(status[req[r].wf], event) = "draft" => status[req[r].wf] = "draft"
      BY <2>1, <2>2, SendMoves DEF SentEvent
    <2> QED
      BY <1>2, <2>1, <2>3
  <1>8. ASSUME Crash
        PROVE  /\ status'[w] = "draft" => status[w] = "draft"
               /\ ~lost' /\ status'[w] = "succeeded" => status[w] = "succeeded"
    <2>1. status'[w] = IF w \in disk.keys THEN disk.status[w] ELSE status[w]
      BY <1>8 DEF Crash
    <2>2. w \in disk.keys => disk.status[w] # "draft"
      BY <1>1 DEF PlannedOnce
    <2>3. ~lost' => ~diskStale /\ disk.keys = store
      BY <1>1, <1>8 DEF Crash, DiskCurrent
    <2> QED
      BY <2>1, <2>2, <2>3 DEF SuccessKnown
  <1> QED
    BY <1>1, <1>3, <1>4, <1>5, <1>6, <1>7, <1>8, StatusSteps DEF StatusStep, Ending

\* Who is in a queue after a step.
LEMMA MembersKept ==
    ASSUME ExecutionInductive, [ExecutionNext]_allVars, NEW w \in Workflows,
           NEW q \in InQueue(w)'
    PROVE  \/ req'[q].op = "dispatch"
           \/ q \in InQueue(w) /\ SameCall(q)
           \/ q \in GatewayCalls /\ PostAttempt(w, q)
  <1>1. /\ TypeOK /\ ExecutionTypeOK /\ PhaseOfOp /\ LockDiscipline /\ QueueSound
        /\ [AnyNext]_vars
    BY ExecutionIsAny DEF ExecutionInductive, ExecutionTypeOK, Inductive
  <1>2. queue[w] \in Seq(Requests)
    BY <1>1 DEF TypeOK
  <1>3. PICK i \in 1..Len(queue'[w]) : q = queue'[w][i]
    BY DEF InQueue
  <1>4. CASE Stays(w)
    BY <1>3, <1>4 DEF Stays, InQueue
  <1>5. ASSUME NEW r \in Requests, Joins(w, r)
        PROVE  \/ req'[q].op = "dispatch"
               \/ q \in InQueue(w) /\ SameCall(q)
               \/ q \in GatewayCalls /\ PostAttempt(w, q)
    <2>1. /\ Len(queue'[w]) = Len(queue[w]) + 1
          /\ queue'[w][Len(queue[w]) + 1] = r
          /\ \A j \in 1..Len(queue[w]) : queue'[w][j] = queue[w][j]
      BY <1>2, <1>5 DEF Joins
    <2>2. CASE i \in 1..Len(queue[w])
      BY <1>3, <1>5, <2>1, <2>2 DEF Joins, InQueue
    <2>3. CASE i \notin 1..Len(queue[w])
      <3>1. q = r
        BY <1>2, <1>3, <2>1, <2>3
      <3>2. req[r].pc = "idle" /\ req'[r].pc = "queued" /\ req'[r].wf = w
        BY <1>5 DEF Joins, Starts, Idle
      <3>3. ASSUME NEW x \in Workflows, PostAttempt(x, r) PROVE req'[r].wf = x
        BY <1>1, <3>3 DEF PostAttempt, Submit, TypeOK
      <3> QED
        BY <3>1, <3>2, <3>3, NewCall
    <2> QED
      BY <2>2, <2>3
  <1>6. ASSUME NEW r \in Requests, Leaves(w, r)
        PROVE  q \in InQueue(w) /\ SameCall(q)
    <2>1. /\ i + 1 \in 1..Len(queue[w])
          /\ queue'[w][i] = queue[w][i + 1]
          /\ r = queue[w][1] /\ 1 \in 1..Len(queue[w]) /\ i + 1 # 1
      BY <1>2, <1>3, <1>6 DEF Leaves
    <2>2. \A j, k \in 1..Len(queue[w]) : queue[w][j] = queue[w][k] => j = k
      BY <1>1 DEF QueueSound
    <2>3. q \in InQueue(w) /\ q # r
      BY <1>3, <2>1, <2>2 DEF InQueue
    <2> QED
      BY <1>6, <2>3 DEF Leaves
  <1>7. queue'[w] # <<>>
    BY <1>3
  <1> QED
    BY <1>1, <1>4, <1>5, <1>6, <1>7, LockSteps DEF LockStep

\* Who awaits the gateway after a step.
LEMMA PostingKept ==
    ASSUME ExecutionInductive, [ExecutionNext]_allVars, NEW q \in Requests,
           req'[q].pc = "posting"
    PROVE  \/ /\ req[q].pc = "posting" /\ req'[q].wf = req[q].wf
              /\ q \notin accepted' => q \notin accepted
           \/ ServiceStarts(q) /\ req'[q].wf = req[q].wf
  <1>1. TypeOK
    BY DEF ExecutionInductive, ExecutionTypeOK
  <1>2. ASSUME req'[q] = req[q], accepted \subseteq accepted' \cup (Requests \ {q})
        PROVE  /\ req[q].pc = "posting" /\ req'[q].wf = req[q].wf
               /\ q \notin accepted' => q \notin accepted
    BY <1>2
  <1>3. ASSUME NEW r \in Requests, Starts(r) PROVE req'[q] = req[q]
    BY <1>1, <1>3, StartEffect
  <1>4. ASSUME NEW r \in Requests, Reply(r) PROVE req'[q] = req[q]
    BY <1>1, <1>4, ReplyEffect
  <1>5. ASSUME NEW r \in Requests, Goto(r, "finishing"), req[r].pc # "idle"
        PROVE  req'[q] = req[q] /\ q # r
    BY <1>1, <1>5, GotoEffect
  <1>6. ASSUME NEW r \in Requests, ServiceProceeds(r)
        PROVE  \/ req'[q] = req[q] /\ (accepted' = accepted \/ (accepted' = accepted \ {r} /\ q # r))
               \/ ServiceStarts(q) /\ req'[q].wf = req[q].wf
    <2>1. CASE ServiceFinishes(r) \/ ServiceRejects(r) \/ (RejectUnlocked(r) /\ UNCHANGED gatewayVars)
      <3>1. Reply(r) /\ accepted' = accepted
        BY <2>1 DEF ServiceFinishes, ServiceRejects, RejectUnlocked, Finish, RejectLocked, gatewayVars
      <3> QED
        BY <1>4, <3>1
    <2>2. CASE ServiceReports(r) \/ ServiceDispatched(r)
               \/ ((PlanStore(r) \/ Complete(r) \/ Control(r)) /\ UNCHANGED gatewayVars)
      <3>1. /\ Goto(r, "finishing") /\ req[r].pc # "idle"
            /\ accepted' = accepted \/ accepted' = accepted \ {r}
        BY <2>2 DEF ServiceReports, ServiceDispatched, StageReport, DispatchSent, PlanStore,
           Complete, Control, gatewayVars
      <3> QED
        BY <1>5, <3>1
    <2>3. CASE ServiceStarts(r)
      <3>1. Goto(r, "posting") /\ req[r].pc # "idle" /\ accepted' = accepted
        BY <2>3 DEF ServiceStarts, DispatchStart
      <3> QED
        BY <1>1, <2>3, <3>1, GotoEffect
    <2> QED
      BY <1>6, <2>1, <2>2, <2>3 DEF ServiceProceeds, ServiceWorks
  <1>7. ASSUME NEW x \in Workflows, NEW r \in GatewayCalls, PostAttempt(x, r)
        PROVE  req'[q] = req[q] /\ accepted' = accepted
    <2>1. PICK op, s, report : Submit(r, op, x, s, report)
      BY <1>7 DEF PostAttempt
    <2> QED
      BY <1>1, <1>7, <2>1 DEF Submit, TypeOK, PostAttempt
  <1>8. ~ServiceCrash
    <2>1. ~Crash
      BY DEF Crash, Idle
    <2> QED
      BY <2>1 DEF ServiceCrash
  <1>9. /\ \A r \in Requests : GatewayAccept(r) => req' = req /\ accepted \subseteq accepted'
        /\ \A x \in Workflows :
              FetchWorkflow(x) \/ ExecuteStage(x) \/ TakeAnswer(x) \/ AttemptTimeout(x)
              \/ (SupervisorTimeout(x) /\ UNCHANGED gatewayVars)
                 => req' = req /\ accepted' = accepted
        /\ UNCHANGED allVars => req' = req /\ accepted' = accepted
        /\ GatewayCrash => req' = req /\ accepted' = accepted
    BY DEF GatewayAccept, FetchWorkflow, ExecuteStage, TakeAnswer, AttemptTimeout,
       SupervisorTimeout, GatewayCrash, vars, allVars, gatewayVars
  <1>10. \A r \in Requests : Arrive(r) => Starts(r)
    BY ArriveIsStart
  <1>11. accepted \subseteq Requests
    BY DEF ExecutionInductive, ExecutionTypeOK
  <1> QED
    BY <1>2, <1>3, <1>6, <1>7, <1>8, <1>9, <1>10, <1>11
       DEF ExecutionNext, GatewayProceeds, gatewayVars

\* The run of w stays, ends, or learns what became of its call; no report of it
\* is applied.
RunQuiet(w) ==
    \/ /\ run'[w] = run[w]
       /\ run[w] # NoRun /\ run[w].pc = "reporting" =>
             \A q \in run[w].call : req'[q].pc = "finishing" => req[q].pc = "finishing"
    \/ run'[w] = NoRun
    \/ /\ run[w] # NoRun
       /\ run'[w].pc = run[w].pc /\ run'[w].at = run[w].at
       /\ run'[w].chain = run[w].chain /\ run'[w].result = run[w].result
       /\ run'[w].call = {}
       /\ run'[w].answer = "taken" =>
             \/ run[w].answer = "taken"
             \/ /\ \A q \in InQueue(w)' : req'[q].op = "dispatch"
                /\ \E q \in run[w].call : req[q].pc = "finishing"

LEMMA FrameStep ==
    ASSUME ExecutionInductive, [ExecutionNext]_allVars, NEW w \in Workflows,
           done'[w] = done[w], starts'[w] = starts[w],
           ~lost' => stages'[w] = stages[w], RunQuiet(w)
    PROVE  InStep(w)'
  <1>1. /\ TypeOK /\ ExecutionTypeOK /\ Inductive /\ QueueSound /\ SuccessKnown
        /\ RunSound(w) /\ InStep(w) /\ [AnyNext]_vars
    BY ExecutionIsAny DEF ExecutionInductive, ExecutionTypeOK
  <1>2. /\ status'[w] = "draft" => status[w] = "draft"
        /\ ~lost' => ~lost
        /\ ~lost' /\ status'[w] = "succeeded" => Ending(w)
    BY <1>1, NextStatus
  <1>3. \A q \in InQueue(w)' :
           req'[q].op = "dispatch" \/ (q \in InQueue(w) /\ SameCall(q))
    <2>1. ASSUME NEW q \in GatewayCalls, PostAttempt(w, q) PROVE FALSE
      <3>1. run[w] # NoRun /\ run[w].call = {}
        BY <2>1 DEF PostAttempt, NoRun
      <3>2. run[w] \in Run
        BY <1>1, <3>1, RunType
      <3>3. run'[w] = [run[w] EXCEPT !.call = {q}, !.tries = @ + 1]
        BY <1>1, <2>1 DEF PostAttempt, ExecutionTypeOK
      <3>4. run'[w].call = {q} /\ run'[w].pc = run[w].pc
        BY <3>2, <3>3 DEF Run
      <3>5. run'[w] # NoRun
        BY <3>2, <3>4 DEF Run, NoRun
      <3> QED
        BY <3>1, <3>4, <3>5 DEF RunQuiet
    <2> QED
      BY <2>1, MembersKept
  <1>4. \A q \in Requests : req'[q].pc = "posting" /\ req'[q].wf = w =>
           req[q].pc = "posting" /\ req[q].wf = w /\ (q \notin accepted' => q \notin accepted)
    <2>1. ASSUME NEW q \in Requests, ServiceStarts(q) PROVE req[q].wf # w
      <3>1. req[q].wf \in Workflows
        BY <1>1, <2>1, CallType DEF ServiceStarts, DispatchStart
      <3>2. starts' = [starts EXCEPT ![req[q].wf] = @ + 1]
        BY <2>1 DEF ServiceStarts
      <3> QED
        BY <1>1, <3>1, <3>2 DEF ExecutionTypeOK
    <2> QED
      BY <2>1, PostingKept
  <1>5. \A q \in InQueue(w)' : req'[q].op # "dispatch" =>
           /\ q \in InQueue(w)
           /\ req'[q].op = req[q].op
           /\ req'[q].stage = req[q].stage /\ req'[q].report = req[q].report
    BY <1>3 DEF SameCall
  <1>6. Calm(w) => Calm(w)'
    BY <1>5 DEF Calm
  <1>7. Ending(w)' /\ ~lost' => Ending(w)
    BY <1>2, <1>5 DEF Ending
  <1>8. run'[w] # NoRun =>
           /\ run[w] # NoRun
           /\ run'[w].pc = run[w].pc /\ run'[w].at = run[w].at
           /\ run'[w].chain = run[w].chain /\ run'[w].result = run[w].result
           /\ run'[w].answer = "taken" =>
                 run[w].answer = "taken"
                 \/ (Calm(w)' /\ \E q \in run[w].call : req[q].pc = "finishing")
           /\ Applied(w)' /\ run[w].pc = "reporting" => Applied(w)
    BY DEF RunQuiet, Applied, Calm
  <1>9. /\ Untouched(w) /\ ~lost' => Untouched(w)'
        /\ AllDone(w) /\ ~lost' => AllDone(w)'
    BY DEF Untouched, AllDone
  <1>10. NotStarted(w)'
    <2>1. NotStarted(w)
      BY <1>1 DEF InStep
    <2>2. starts[w] = 0 =>
             /\ run'[w] = NoRun /\ done'[w] = {} /\ Calm(w)'
             /\ \A r \in Requests : req'[r].pc = "posting" => req'[r].wf # w
      BY <1>4, <1>6, <1>8, <2>1 DEF NotStarted
    <2>3. starts[w] = 0 /\ ~lost' => Untouched(w)' /\ status'[w] # "succeeded"
      <3>1. starts[w] = 0 /\ ~lost' => ~Ending(w)
        BY <1>2, <2>1 DEF NotStarted, Ending, Calm
      <3> QED
        BY <1>2, <1>9, <2>1, <3>1 DEF NotStarted
    <2> QED
      BY <1>2, <2>1, <2>2, <2>3 DEF NotStarted
  <1>11. FirstDispatch(w)'
    <2>1. FirstDispatch(w)
      BY <1>1 DEF InStep
    <2> QED
      BY <1>2, <1>4, <1>6, <1>8, <1>9, <2>1 DEF FirstDispatch
  <1>12. RunInStep(w)'
    <2>1. RunInStep(w)
      BY <1>1 DEF InStep
    <2> QED
      BY <1>2, <1>5, <1>6, <1>8, <1>9, <2>1 DEF RunInStep
  <1>13. StagesInStep(w)'
    <2>1. StagesInStep(w)
      BY <1>1 DEF InStep
    <2> QED
      BY <1>2, <1>8, <1>9, <2>1 DEF StagesInStep
  <1>14. EndInStep(w)'
    <2>1. EndInStep(w)
      BY <1>1 DEF InStep
    <2> QED
      BY <1>2, <1>5, <1>7, <1>8, <1>9, <2>1 DEF EndInStep
  <1> QED
    BY <1>10, <1>11, <1>12, <1>13, <1>14 DEF InStep

-----------------------------------------------------------------------------
(* The steps of the service that concern the run of a workflow *)

\* What a step may assume, and what every step keeps.
LEMMA StepFacts ==
    ASSUME ExecutionInductive, [ExecutionNext]_allVars, NEW w \in Workflows
    PROVE  /\ TypeOK /\ ExecutionTypeOK /\ Inductive /\ QueueSound
           /\ RunSound(w)
           /\ NotStarted(w) /\ FirstDispatch(w) /\ RunInStep(w)
           /\ StagesInStep(w) /\ EndInStep(w)
           /\ status'[w] = "draft" => status[w] = "draft"
           /\ ~lost' => ~lost
           /\ ~lost' /\ status'[w] = "succeeded" => Ending(w)
  <1>1. /\ TypeOK /\ ExecutionTypeOK /\ Inductive /\ QueueSound /\ SuccessKnown
        /\ RunSound(w) /\ InStep(w) /\ [AnyNext]_vars
    BY ExecutionIsAny DEF ExecutionInductive, ExecutionTypeOK
  <1> QED
    BY <1>1, NextStatus DEF InStep

\* A handler that goes on without a change of the queues leaves the calls in
\* them as they were.
LEMMA GotoMembers ==
    ASSUME TypeOK, QueueSound, NEW r \in Requests, NEW phase, req[r].pc # "idle",
           Goto(r, phase), UNCHANGED queue, NEW w \in Workflows
    PROVE  /\ InQueue(w)' = InQueue(w)
           /\ \A q \in InQueue(w) :
                 /\ req'[q].op = req[q].op
                 /\ req'[q].stage = req[q].stage
                 /\ req'[q].report = req[q].report
           /\ Calm(w)' = Calm(w)
           /\ Ending(w)' = (status'[w] = "succeeded" \/ \E q \in InQueue(w) : req[q].op = "complete")
  <1>1. InQueue(w)' = InQueue(w)
    BY DEF InQueue
  <1>2. \A q \in InQueue(w) : /\ req'[q].op = req[q].op
                              /\ req'[q].stage = req[q].stage
                              /\ req'[q].report = req[q].report
    BY Members, GotoEffect
  <1> QED
    BY <1>1, <1>2 DEF Calm, Ending

\* The gateway's report is applied.
LEMMA ReportStep ==
    ASSUME ExecutionInductive, [ExecutionNext]_allVars, NEW r \in Requests,
           ServiceReports(r), NEW w \in Workflows, w = req[r].wf
    PROVE  InStep(w)'
  <1>1. /\ TypeOK /\ ExecutionTypeOK /\ Inductive /\ QueueSound
        /\ RunSound(w)
        /\ NotStarted(w) /\ FirstDispatch(w) /\ RunInStep(w)
        /\ StagesInStep(w) /\ EndInStep(w)
        /\ status'[w] = "draft" => status[w] = "draft"
        /\ ~lost' => ~lost
        /\ ~lost' /\ status'[w] = "succeeded" => Ending(w)
    BY StepFacts
  <1>2. /\ req[r].pc = "queued" /\ req[r].op = "report" /\ HoldsLock(r)
        /\ Goto(r, "finishing") /\ UNCHANGED queue
        /\ stages' = [stages EXCEPT ![w] = AfterReport(@, req[r].stage, req[r].report)]
        /\ run' = run /\ starts' = starts /\ accepted' = accepted
        /\ done' = IF req[r].report = "completed"
                   THEN [done EXCEPT ![w] = @ \cup {req[r].stage}] ELSE done
    BY DEF ServiceReports, StageReport
  <1>3. r \in InQueue(w)
    BY <1>1, <1>2, HolderIn
  <1>4. ~Calm(w)
    BY <1>2, <1>3 DEF Calm
  <1>5. starts[w] \in Nat /\ starts[w] # 0
    BY <1>1, <1>4, ServiceAssumption, ExecutionAssumption DEF NotStarted, ExecutionTypeOK
  <1>6. ~(~lost /\ starts[w] <= 1 /\ Ending(w))
    BY <1>2, <1>3, <1>1 DEF EndInStep
  <1>7. /\ InQueue(w)' = InQueue(w)
        /\ \A q \in InQueue(w) :
              /\ req'[q].op = req[q].op
              /\ req'[q].stage = req[q].stage
              /\ req'[q].report = req[q].report
        /\ Calm(w)' = Calm(w)
        /\ Ending(w)' = (status'[w] = "succeeded" \/ \E q \in InQueue(w) : req[q].op = "complete")
    BY <1>1, <1>2, GotoMembers
  <1>8. NotStarted(w)'
    BY <1>1, <1>2, <1>5 DEF NotStarted
  <1>9. FirstDispatch(w)'
    <2>1. ASSUME NEW q \in Requests, req'[q].pc = "posting", req'[q].wf = w PROVE FALSE
      <3>1. q # r /\ req'[q] = req[q]
        BY <1>1, <1>2, <2>1, GotoEffect
      <3>2. HoldsLock(q)
        BY <1>1, <2>1, <3>1 DEF Inductive, LockDiscipline
      <3> QED
        BY <1>2, <2>1, <3>1, <3>2 DEF HoldsLock
    <2> QED
      BY <2>1 DEF FirstDispatch
  <1>10. starts[w] <= 1 /\ run[w] # NoRun =>
            /\ run[w].pc = "reporting" /\ run[w].answer # "taken"
            /\ req[r].stage = run[w].at /\ req[r].report = run[w].result
    <2>1. run[w] # NoRun => run[w].pc \in {"accepted", "executing", "reporting", "completing"}
      BY <1>1, RunType DEF Run
    <2> QED
      BY <1>1, <1>2, <1>3, <1>4, <2>1 DEF RunInStep
  <1>11. RunInStep(w)'
    <2>1. starts[w] <= 1 /\ run[w] # NoRun => \A s \in done'[w] : s <= run[w].at
      <3>1. starts[w] <= 1 /\ run[w] # NoRun =>
               run[w].at \in Stages /\ \A s \in done[w] : s <= run[w].at
        BY <1>1, <1>10 DEF RunInStep, RunSound
      <3>2. done'[w] \subseteq done[w] \cup {req[r].stage}
        BY <1>1, <1>2 DEF ExecutionTypeOK
      <3> QED
        BY <1>10, <3>1, <3>2 DEF Stages
    <2> QED
      BY <1>1, <1>2, <1>7, <1>10, <2>1 DEF RunInStep
  <1>12. StagesInStep(w)'
    <2>1. stages'[w] = AfterReport(stages[w], req[r].stage, req[r].report)
      BY <1>1, <1>2 DEF TypeOK
    <2>2. ASSUME starts[w] <= 1, ~lost, run[w] # NoRun
          PROVE  /\ \A s \in Stages :
                       /\ run[w].chain[s] \in {"pending", "running"}
                       /\ s < run[w].at => stages'[w][s] = "completed"
                 /\ stages'[w][run[w].at] = run[w].result
      <3>1. \A s \in Stages : /\ run[w].chain[s] \in {"pending", "running"}
                              /\ s < run[w].at => stages[w][s] = "completed"
        BY <1>1, <1>10, <2>2 DEF StagesInStep
      <3>2. run[w].at \in Stages
        BY <1>1, <1>10, <2>2 DEF RunSound
      <3> QED
        BY <1>10, <2>1, <2>2, <3>1, <3>2, ServiceAssumption DEF AfterReport, Stages
    <2> QED
      BY <1>1, <1>2, <1>10, <2>2 DEF StagesInStep
  <1>13. EndInStep(w)'
    BY <1>1, <1>2, <1>6, <1>7 DEF EndInStep, Ending
  <1> QED
    BY <1>8, <1>9, <1>11, <1>12, <1>13 DEF InStep

\* The first dispatch sets the workflow running.
LEMMA StartStep ==
    ASSUME ExecutionInductive, [ExecutionNext]_allVars, NEW r \in Requests,
           ServiceStarts(r), NEW w \in Workflows, w = req[r].wf
    PROVE  InStep(w)'
  <1>1. /\ TypeOK /\ ExecutionTypeOK /\ Inductive /\ QueueSound
        /\ NotStarted(w) /\ EndInStep(w)
        /\ status'[w] = "draft" => status[w] = "draft"
        /\ ~lost' => ~lost
        /\ ~lost' /\ status'[w] = "succeeded" => Ending(w)
    BY StepFacts
  <1>2. /\ req[r].pc = "queued" /\ Goto(r, "posting") /\ UNCHANGED <<queue, stages>>
        /\ starts' = [starts EXCEPT ![w] = @ + 1] /\ UNCHANGED <<run, done, accepted>>
    BY DEF ServiceStarts, DispatchStart
  <1>3. starts'[w] = starts[w] + 1 /\ starts[w] \in Nat
    BY <1>1, <1>2, ExecutionAssumption DEF ExecutionTypeOK
  <1>4. status'[w] # "draft"
    BY <1>1, <1>2 DEF Inductive, PlannedOnce
  <1>5. /\ InQueue(w)' = InQueue(w)
        /\ Calm(w)' = Calm(w)
        /\ Ending(w)' = (status'[w] = "succeeded" \/ \E q \in InQueue(w) : req[q].op = "complete")
    BY <1>1, <1>2, GotoMembers
  <1>6. starts'[w] <= 1 =>
           /\ starts[w] = 0 /\ run[w] = NoRun /\ done[w] = {} /\ Calm(w)
           /\ \A q \in Requests : req[q].pc = "posting" => req[q].wf # w
           /\ ~lost => Untouched(w) /\ status[w] # "succeeded"
    BY <1>1, <1>3 DEF NotStarted
  <1>7. NotStarted(w)'
    BY <1>3, <1>4 DEF NotStarted
  <1>8. FirstDispatch(w)'
    BY <1>1, <1>2, <1>5, <1>6 DEF FirstDispatch, Untouched
  <1>9. RunInStep(w)' /\ StagesInStep(w)'
    BY <1>2, <1>6 DEF RunInStep, StagesInStep
  <1>10. starts'[w] <= 1 /\ ~lost' => ~Ending(w)'
    BY <1>1, <1>5, <1>6 DEF Ending, Calm
  <1>11. EndInStep(w)'
    BY <1>10 DEF EndInStep
  <1> QED
    BY <1>7, <1>8, <1>9, <1>11 DEF InStep

\* The dispatch handler resumes: no report of the first run is applied before.
LEMMA DispatchedStep ==
    ASSUME ExecutionInductive, [ExecutionNext]_allVars, NEW r \in Requests,
           ServiceDispatched(r), NEW w \in Workflows, w = req[r].wf
    PROVE  InStep(w)'
  <1>1. /\ TypeOK /\ ExecutionTypeOK /\ Inductive /\ QueueSound
        /\ RunSound(w)
        /\ NotStarted(w) /\ FirstDispatch(w) /\ RunInStep(w)
        /\ StagesInStep(w) /\ EndInStep(w)
        /\ status'[w] = "draft" => status[w] = "draft"
        /\ ~lost' => ~lost
        /\ ~lost' /\ status'[w] = "succeeded" => Ending(w)
    BY StepFacts
  <1>2. /\ req[r].pc = "posting" /\ Goto(r, "finishing")
        /\ UNCHANGED <<queue, status, lost, run, done, starts>>
        /\ stages' = [stages EXCEPT ![w] = [s \in Stages |-> IF s = 1 THEN "running" ELSE @[s]]]
    BY DEF ServiceDispatched, DispatchSent
  <1>3. HoldsLock(r)
    BY <1>1, <1>2 DEF Inductive, LockDiscipline
  <1>4. starts[w] \in Nat /\ starts[w] # 0
    BY <1>1, <1>2, ExecutionAssumption DEF NotStarted, ExecutionTypeOK
  <1>5. /\ InQueue(w)' = InQueue(w)
        /\ \A q \in InQueue(w) :
              /\ req'[q].op = req[q].op
              /\ req'[q].stage = req[q].stage
              /\ req'[q].report = req[q].report
        /\ Calm(w)' = Calm(w)
        /\ Ending(w)' = (status'[w] = "succeeded" \/ \E q \in InQueue(w) : req[q].op = "complete")
    BY <1>1, <1>2, GotoMembers
  <1>6. starts[w] <= 1 =>
           /\ done[w] = {}
           /\ ~lost =>
                 /\ Untouched(w)
                 /\ \/ run[w] = NoRun
                    \/ run[w].pc = "accepted"
                    \/ run[w].pc \in {"executing", "reporting"} /\ run[w].at = 1
    BY <1>1, <1>2, <1>4 DEF FirstDispatch
  <1>7. \A s \in Stages : stages'[w][s] = IF s = 1 THEN "running" ELSE stages[w][s]
    BY <1>1, <1>2 DEF TypeOK
  <1>8. Untouched(w) => Untouched(w)'
    BY <1>7 DEF Untouched
  <1>9. NotStarted(w)'
    BY <1>1, <1>2, <1>4 DEF NotStarted
  <1>10. FirstDispatch(w)'
    <2>1. ASSUME NEW q \in Requests, req'[q].pc = "posting", req'[q].wf = w PROVE FALSE
      <3>1. q # r /\ req'[q] = req[q]
        BY <1>1, <1>2, <2>1, GotoEffect
      <3>2. HoldsLock(q)
        BY <1>1, <2>1, <3>1 DEF Inductive, LockDiscipline
      <3> QED
        BY <1>3, <2>1, <3>1, <3>2 DEF HoldsLock
    <2> QED
      BY <2>1 DEF FirstDispatch
  <1>11. RunInStep(w)'
    BY <1>1, <1>2, <1>5, <1>8 DEF RunInStep
  <1>12. StagesInStep(w)'
    <2> SUFFICES ASSUME starts[w] <= 1, ~lost, run[w] # NoRun,
                        run[w].pc # "accepted"
                 PROVE  /\ run[w].pc \in {"executing", "reporting"}
                        /\ \A s \in Stages :
                              /\ run[w].chain[s] \in {"pending", "running"}
                              /\ ~(s < run[w].at)
                        /\ ~(run[w].pc = "reporting" /\ Applied(w)')
      BY <1>2 DEF StagesInStep
    <2>1. Untouched(w) /\ run[w].pc \in {"executing", "reporting"} /\ run[w].at = 1
      BY <1>6
    <2>2. \A s \in Stages : run[w].chain[s] \in {"pending", "running"} /\ ~(s < run[w].at)
      BY <1>1, <2>1 DEF StagesInStep, Stages
    <2>3. ASSUME run[w].pc = "reporting", Applied(w)' PROVE FALSE
      <3>1. \A q \in run[w].call : q # r /\ q \in Requests
        <4>1. run[w] \in Run
          BY <1>1, RunType
        <4> QED
          BY <1>1, <1>2, <4>1, ExecutionAssumption DEF RunSound, CallOf, Run
      <3>2. Applied(w)
        BY <1>1, <1>2, <2>3, <3>1, GotoEffect DEF Applied
      <3>3. /\ stages[w][run[w].at] = run[w].result
            /\ run[w].at \in Stages /\ run[w].result \in Results
        BY <1>1, <2>3, <3>2 DEF StagesInStep, RunSound
      <3> QED
        BY <2>1, <3>3, ExecutionAssumption DEF Untouched
    <2> QED
      BY <2>1, <2>2, <2>3
  <1>13. EndInStep(w)'
    <2>1. starts[w] <= 1 /\ ~lost /\ Ending(w)' =>
             /\ AllDone(w) /\ Untouched(w)
             /\ \A q \in InQueue(w) : req[q].op # "report"
             /\ run[w] = NoRun \/ run[w].pc = "completing"
      BY <1>1, <1>2, <1>5, <1>6 DEF EndInStep, Ending
    <2>2. AllDone(w) /\ Untouched(w) => AllDone(w)'
      BY DEF AllDone, Untouched
    <2> QED
      BY <1>2, <1>5, <2>1, <2>2 DEF EndInStep
  <1> QED
    BY <1>9, <1>10, <1>11, <1>12, <1>13 DEF InStep

\* A planned workflow has all its stages before it.
LEMMA PlanStep ==
    ASSUME ExecutionInductive, [ExecutionNext]_allVars, NEW r \in Requests,
           PlanStore(r), UNCHANGED gatewayVars, NEW w \in Workflows, w = req[r].wf
    PROVE  InStep(w)'
  <1>1. /\ TypeOK /\ ExecutionTypeOK /\ Inductive /\ QueueSound /\ NotStarted(w)
        /\ ~lost' => ~lost
    BY StepFacts
  <1>2. /\ req[r].pc = "planning" /\ Goto(r, "finishing") /\ UNCHANGED queue
        /\ stages' = [stages EXCEPT ![w] = NoStages]
        /\ status' = [status EXCEPT ![w] = "planned"]
        /\ UNCHANGED <<run, done, starts>>
    BY DEF PlanStore, gatewayVars
  <1>3. status[w] = "draft"
    BY <1>1, <1>2 DEF Inductive, PlannedOnce
  <1>4. /\ starts[w] = 0 /\ run[w] = NoRun /\ done[w] = {} /\ Calm(w)
        /\ \A q \in Requests : req[q].pc = "posting" => req[q].wf # w
    BY <1>1, <1>3 DEF NotStarted
  <1>5. /\ Calm(w)' = Calm(w)
        /\ Ending(w)' = (status'[w] = "succeeded" \/ \E q \in InQueue(w) : req[q].op = "complete")
    BY <1>1, <1>2, GotoMembers
  <1>6. status'[w] = "planned" /\ Untouched(w)'
    BY <1>1, <1>2 DEF TypeOK, Untouched, NoStages
  <1>7. \A q \in Requests : req'[q].pc = "posting" => req'[q].wf # w
    BY <1>1, <1>2, <1>4, GotoEffect
  <1>8. NotStarted(w)'
    BY <1>2, <1>4, <1>5, <1>6, <1>7 DEF NotStarted
  <1>9. FirstDispatch(w)' /\ RunInStep(w)' /\ StagesInStep(w)'
    BY <1>2, <1>4 DEF FirstDispatch, RunInStep, StagesInStep
  <1>10. EndInStep(w)'
    BY <1>4, <1>5, <1>6 DEF EndInStep, Calm
  <1> QED
    BY <1>8, <1>9, <1>10 DEF InStep

-----------------------------------------------------------------------------
(* The steps of a run *)

\* The run starts: the dispatch that awaits the gateway holds the lock.
LEMMA AcceptStep ==
    ASSUME ExecutionInductive, [ExecutionNext]_allVars, NEW r \in Requests,
           GatewayAccept(r), NEW w \in Workflows, w = req[r].wf, run[w] = NoRun
    PROVE  InStep(w)'
  <1>1. /\ TypeOK /\ ExecutionTypeOK /\ Inductive
        /\ NotStarted(w) /\ FirstDispatch(w)
    BY StepFacts
  <1>2. /\ req[r].pc = "posting" /\ r \notin accepted /\ accepted' = accepted \cup {r}
        /\ UNCHANGED vars /\ UNCHANGED <<done, starts>>
        /\ run'[w].pc = "accepted"
    BY <1>1 DEF GatewayAccept, ExecutionTypeOK
  <1>3. UNCHANGED <<req, queue, status, stages, lost>>
    BY <1>2 DEF vars
  <1>4. starts[w] \in Nat /\ starts[w] # 0
    BY <1>1, <1>2, ExecutionAssumption DEF NotStarted, ExecutionTypeOK
  <1>5. /\ InQueue(w)' = InQueue(w)
        /\ Calm(w)' = Calm(w) /\ Ending(w)' = Ending(w) /\ Untouched(w)' = Untouched(w)
    BY <1>3 DEF InQueue, Calm, Ending, Untouched
  <1>6. starts[w] <= 1 => done[w] = {} /\ Calm(w) /\ (~lost => Untouched(w))
    BY <1>1, <1>2, <1>4 DEF FirstDispatch
  <1>7. NotStarted(w)'
    BY <1>1, <1>3, <1>2, <1>4 DEF NotStarted
  <1>8. FirstDispatch(w)'
    <2>1. ASSUME NEW q \in Requests, req[q].pc = "posting", req[q].wf = w PROVE q = r
      BY <1>1, <1>2, <2>1 DEF Inductive, LockDiscipline, HoldsLock
    <2> QED
      BY <1>2, <1>3, <1>5, <1>6, <2>1 DEF FirstDispatch
  <1>9. RunInStep(w)' /\ StagesInStep(w)'
    BY <1>2, <1>3, <1>5, <1>6 DEF RunInStep, StagesInStep
  <1>10. EndInStep(w)'
    <2>1. status[w] # "succeeded"
      BY <1>1, <1>2 DEF Inductive, DispatchUnderway
    <2> QED
      BY <1>2, <1>5, <1>6, <2>1 DEF EndInStep, Ending, Calm
  <1> QED
    BY <1>7, <1>8, <1>9, <1>10 DEF InStep

\* What the run of w does alone leaves the service as it is.
LEMMA RunAlone ==
    ASSUME ExecutionInductive, [ExecutionNext]_allVars, NEW w \in Workflows,
           UNCHANGED vars, UNCHANGED <<accepted, done, starts>>, run[w] # NoRun
    PROVE  /\ TypeOK /\ ExecutionTypeOK /\ RunSound(w)
           /\ run[w] \in Run /\ starts[w] \in Nat /\ starts[w] # 0
           /\ NotStarted(w)' /\ FirstDispatch(w) /\ RunInStep(w)
           /\ StagesInStep(w) /\ EndInStep(w)
           /\ InQueue(w)' = InQueue(w) /\ UNCHANGED <<req, lost, stages, done, starts>>
           /\ \A q \in InQueue(w) : req'[q] = req[q]
           /\ Calm(w)' = Calm(w) /\ Ending(w)' = Ending(w)
           /\ Untouched(w)' = Untouched(w) /\ AllDone(w)' = AllDone(w)
  <1>1. /\ TypeOK /\ ExecutionTypeOK /\ RunSound(w)
        /\ NotStarted(w) /\ FirstDispatch(w) /\ RunInStep(w)
        /\ StagesInStep(w) /\ EndInStep(w)
    BY StepFacts
  <1>2. UNCHANGED <<req, queue, status, stages, lost>>
    BY DEF vars
  <1>3. run[w] \in Run /\ starts[w] \in Nat /\ starts[w] # 0
    BY <1>1, RunType, ExecutionAssumption DEF NotStarted, ExecutionTypeOK
  <1>4. InQueue(w)' = InQueue(w)
    BY <1>2 DEF InQueue
  <1>5. /\ Calm(w)' = Calm(w) /\ Ending(w)' = Ending(w)
        /\ Untouched(w)' = Untouched(w) /\ AllDone(w)' = AllDone(w)
    BY <1>2, <1>4 DEF Calm, Ending, Untouched, AllDone
  <1>6. NotStarted(w)'
    BY <1>1, <1>2, <1>3 DEF NotStarted
  <1> QED
    BY <1>1, <1>2, <1>3, <1>4, <1>5, <1>6

LEMMA FetchStep ==
    ASSUME ExecutionInductive, [ExecutionNext]_allVars, NEW w \in Workflows,
           FetchWorkflow(w), w \in store, NStages > 0, run'[w] = Advance(stages[w], 1)
    PROVE  InStep(w)'
  <1>0. /\ run[w].pc = "accepted" /\ run[w] # NoRun
        /\ UNCHANGED vars /\ UNCHANGED <<accepted, done, starts>>
    BY DEF FetchWorkflow, NoRun
  <1>1. /\ TypeOK /\ ExecutionTypeOK /\ RunSound(w)
        /\ run[w] \in Run /\ starts[w] \in Nat /\ starts[w] # 0
        /\ NotStarted(w)' /\ FirstDispatch(w) /\ RunInStep(w)
        /\ StagesInStep(w) /\ EndInStep(w)
        /\ InQueue(w)' = InQueue(w) /\ UNCHANGED <<req, lost, stages, done, starts>>
        /\ \A q \in InQueue(w) : req'[q] = req[q]
        /\ Calm(w)' = Calm(w) /\ Ending(w)' = Ending(w)
        /\ Untouched(w)' = Untouched(w) /\ AllDone(w)' = AllDone(w)
    BY <1>0, RunAlone
  <1> DEFINE next == run'[w]
  <1>2. stages[w] \in [Stages -> StageStatus] /\ 1 \in Stages
    BY <1>1, ServiceAssumption DEF TypeOK, Stages
  <1>3. /\ next # NoRun /\ next.chain = stages[w] /\ next.answer = "none"
        /\ \/ /\ next.pc = "executing" /\ next.at \in Stages
              /\ \A s \in Stages : 1 <= s /\ s < next.at
                    => stages[w][s] \notin {"pending", "running"}
           \/ /\ next.pc = "completing"
              /\ \A s \in Stages : 1 <= s => stages[w][s] \notin {"pending", "running"}
    BY <1>2, AdvanceEffect
  <1>4. starts[w] <= 1 /\ ~lost => Untouched(w) /\ ~Ending(w)
    BY <1>0, <1>1 DEF RunInStep, EndInStep
  <1>5. starts[w] <= 1 => done[w] = {} /\ Calm(w)
    BY <1>0, <1>1 DEF RunInStep
  <1>6. Untouched(w) => next.pc = "executing" /\ next.at = 1
    BY <1>2, <1>3 DEF Untouched, Stages
  <1> HIDE DEF next
  <1>7. FirstDispatch(w)'
    BY <1>0, <1>1, <1>3, <1>6 DEF FirstDispatch, next
  <1>8. RunInStep(w)'
    BY <1>1, <1>3, <1>5 DEF RunInStep, Calm, next
  <1>9. StagesInStep(w)'
    BY <1>1, <1>3, <1>4, <1>6 DEF StagesInStep, Untouched, Stages, next
  <1>10. EndInStep(w)'
    BY <1>1, <1>4 DEF EndInStep
  <1> QED
    BY <1>1, <1>7, <1>8, <1>9, <1>10 DEF InStep

LEMMA ExecuteStep ==
    ASSUME ExecutionInductive, [ExecutionNext]_allVars, NEW w \in Workflows,
           ExecuteStage(w), NEW result \in Results,
           run'[w] = [run[w] EXCEPT !.pc = "reporting", !.result = result]
    PROVE  InStep(w)'
  <1>0. /\ run[w].pc = "executing" /\ run[w] # NoRun
        /\ UNCHANGED vars /\ UNCHANGED <<accepted, done, starts>>
    BY DEF ExecuteStage, NoRun
  <1>1. /\ TypeOK /\ ExecutionTypeOK /\ RunSound(w)
        /\ run[w] \in Run /\ starts[w] \in Nat /\ starts[w] # 0
        /\ NotStarted(w)' /\ FirstDispatch(w) /\ RunInStep(w)
        /\ StagesInStep(w) /\ EndInStep(w)
        /\ InQueue(w)' = InQueue(w) /\ UNCHANGED <<req, lost, stages, done, starts>>
        /\ \A q \in InQueue(w) : req'[q] = req[q]
        /\ Calm(w)' = Calm(w) /\ Ending(w)' = Ending(w)
        /\ Untouched(w)' = Untouched(w) /\ AllDone(w)' = AllDone(w)
    BY <1>0, RunAlone
  <1>2. /\ run'[w].pc = "reporting" /\ run'[w].at = run[w].at /\ run'[w].result = result
        /\ run'[w].chain = run[w].chain /\ run'[w].call = {} /\ run'[w].answer = "none"
    BY <1>0, <1>1 DEF Run, RunSound
  <1>3. FirstDispatch(w)'
    BY <1>0, <1>1, <1>2 DEF FirstDispatch
  <1>4. RunInStep(w)'
    <2>1. run[w].at \in Stages /\ done[w] \subseteq Stages
      BY <1>0, <1>1 DEF RunSound, ExecutionTypeOK
    <2>2. starts[w] <= 1 => Calm(w) /\ \A s \in done[w] : s <= run[w].at
      BY <1>0, <1>1, <2>1 DEF RunInStep, Stages
    <2> QED
      BY <1>1, <1>2, <2>2 DEF RunInStep, Calm
  <1>5. StagesInStep(w)'
    BY <1>0, <1>1, <1>2 DEF StagesInStep, Applied
  <1>6. EndInStep(w)'
    BY <1>0, <1>1 DEF EndInStep
  <1> QED
    BY <1>1, <1>3, <1>4, <1>5, <1>6 DEF InStep

LEMMA AdvanceStep ==
    ASSUME ExecutionInductive, [ExecutionNext]_allVars, NEW w \in Workflows,
           TakeAnswer(w), run[w].answer = "taken", run[w].pc = "reporting",
           run[w].result = "completed", run'[w] = Advance(run[w].chain, run[w].at + 1)
    PROVE  InStep(w)'
  <1>0. /\ run[w] # NoRun
        /\ UNCHANGED vars /\ UNCHANGED <<accepted, done, starts>>
    BY DEF TakeAnswer
  <1>1. /\ TypeOK /\ ExecutionTypeOK /\ RunSound(w)
        /\ run[w] \in Run /\ starts[w] \in Nat /\ starts[w] # 0
        /\ NotStarted(w)' /\ FirstDispatch(w) /\ RunInStep(w)
        /\ StagesInStep(w) /\ EndInStep(w)
        /\ InQueue(w)' = InQueue(w) /\ UNCHANGED <<req, lost, stages, done, starts>>
        /\ \A q \in InQueue(w) : req'[q] = req[q]
        /\ Calm(w)' = Calm(w) /\ Ending(w)' = Ending(w)
        /\ Untouched(w)' = Untouched(w) /\ AllDone(w)' = AllDone(w)
    BY <1>0, RunAlone
  <1> DEFINE next == run'[w]
  <1>2. /\ run[w].chain \in [Stages -> StageStatus] /\ run[w].at \in Stages
        /\ \A s \in Stages : s \in Nat
        /\ run[w].at + 1 \in Nat \ {0} /\ done[w] \subseteq Stages
    BY <1>0, <1>1, ServiceAssumption DEF Run, RunSound, Stages, ExecutionTypeOK
  <1>3. /\ next # NoRun /\ next.chain = run[w].chain /\ next.answer = "none"
        /\ \/ /\ next.pc = "executing" /\ next.at \in Stages /\ next.at >= run[w].at + 1
              /\ \A s \in Stages : run[w].at + 1 <= s /\ s < next.at
                    => run[w].chain[s] \notin {"pending", "running"}
           \/ /\ next.pc = "completing"
              /\ \A s \in Stages : run[w].at + 1 <= s
                    => run[w].chain[s] \notin {"pending", "running"}
    BY <1>2, AdvanceEffect
  <1>4. starts[w] <= 1 => Calm(w) /\ \A s \in done[w] : s <= run[w].at
    BY <1>0, <1>1 DEF RunInStep
  <1>5. starts[w] <= 1 /\ ~lost =>
           \A s \in Stages : /\ run[w].chain[s] \in {"pending", "running"}
                             /\ s <= run[w].at => stages[w][s] = "completed"
    <2>1. starts[w] <= 1 /\ ~lost =>
             /\ \A s \in Stages : /\ run[w].chain[s] \in {"pending", "running"}
                                  /\ s < run[w].at => stages[w][s] = "completed"
             /\ stages[w][run[w].at] = "completed"
      BY <1>0, <1>1 DEF StagesInStep, Applied
    <2>2. \A s \in Stages : s <= run[w].at => s < run[w].at \/ s = run[w].at
      BY <1>2
    <2> QED
      BY <2>1, <2>2
  <1>6. starts[w] <= 1 /\ ~lost =>
           \/ /\ next.pc = "executing"
              /\ \A s \in Stages : s < next.at => stages[w][s] = "completed"
           \/ next.pc = "completing" /\ AllDone(w)
    <2>1. \A s \in Stages : s <= run[w].at \/ run[w].at + 1 <= s
      BY <1>2
    <2> HIDE DEF next
    <2> QED
      BY <1>3, <1>5, <2>1 DEF AllDone
  <1> HIDE DEF next
  <1>7. FirstDispatch(w)'
    <2>1. ASSUME starts[w] = 1, ~lost, NEW q \in Requests, req[q].pc = "posting", req[q].wf = w
          PROVE  FALSE
      <3>1. Untouched(w)
        BY <1>1, <2>1 DEF FirstDispatch
      <3>2. stages[w][run[w].at] = "completed"
        BY <1>2, <1>5, <2>1
      <3> QED
        BY <1>2, <3>1, <3>2 DEF Untouched
    <2> QED
      BY <1>0, <1>1, <2>1 DEF FirstDispatch
  <1>8. RunInStep(w)'
    <2>1. starts[w] <= 1 /\ next.pc = "executing" => \A s \in done[w] : s < next.at
      BY <1>2, <1>3, <1>4
    <2> QED
      BY <1>1, <1>3, <1>4, <2>1 DEF RunInStep, Calm, next
  <1>9. StagesInStep(w)'
    BY <1>1, <1>3, <1>5, <1>6 DEF StagesInStep, next
  <1>10. EndInStep(w)'
    BY <1>0, <1>1 DEF EndInStep
  <1> QED
    BY <1>1, <1>7, <1>8, <1>9, <1>10 DEF InStep

LEMMA PostStep ==
    ASSUME ExecutionInductive, [ExecutionNext]_allVars, NEW w \in Workflows,
           NEW r \in GatewayCalls, PostAttempt(w, r)
    PROVE  InStep(w)'
  <1>1. /\ TypeOK /\ ExecutionTypeOK /\ RunSound(w)
        /\ NotStarted(w) /\ FirstDispatch(w) /\ RunInStep(w)
        /\ StagesInStep(w) /\ EndInStep(w)
    BY StepFacts
  <1>2. /\ run[w].pc \in {"reporting", "completing"} /\ run[w] # NoRun
        /\ run[w].answer = "none" /\ run[w] \in Run
        /\ UNCHANGED <<accepted, done, starts>>
    BY <1>1, RunType DEF PostAttempt, NoRun
  <1>3. UNCHANGED <<status, stages, lost>>
    BY DEF PostAttempt, Submit, memory
  <1>4. starts[w] \in Nat /\ starts[w] # 0
    BY <1>1, <1>2, ExecutionAssumption DEF NotStarted, ExecutionTypeOK
  <1>5. run'[w] = [run[w] EXCEPT !.call = {r}, !.tries = @ + 1]
    BY <1>1 DEF PostAttempt, ExecutionTypeOK
  <1>6. /\ run'[w].pc = run[w].pc /\ run'[w].at = run[w].at /\ run'[w].result = run[w].result
        /\ run'[w].chain = run[w].chain /\ run'[w].call = {r} /\ run'[w].answer = "none"
    BY <1>2, <1>5 DEF Run
  <1>7. /\ r \in Requests /\ req'[r].pc = "queued"
        /\ run[w].pc = "reporting" => /\ req'[r].op = "report"
                                      /\ req'[r].stage = run[w].at
                                      /\ req'[r].report = run[w].result
        /\ run[w].pc = "completing" => req'[r].op = "complete"
    BY <1>1, ExecutionAssumption DEF PostAttempt, Submit, TypeOK
  <1>8. \A q \in InQueue(w)' :
           \/ req'[q].op = "dispatch"
           \/ /\ q \in InQueue(w) /\ req'[q].op = req[q].op
              /\ req'[q].stage = req[q].stage /\ req'[q].report = req[q].report
           \/ q = r
    <2>1. ASSUME NEW q \in GatewayCalls, PostAttempt(w, q) PROVE q = r
      <3>1. run'[w] = [run[w] EXCEPT !.call = {q}, !.tries = @ + 1]
        BY <1>1, <2>1 DEF PostAttempt, ExecutionTypeOK
      <3>2. run'[w].call = {q}
        BY <1>2, <3>1 DEF Run
      <3> QED
        BY <1>6, <3>2
    <2> QED
      BY <2>1, MembersKept DEF SameCall
  <1>9. NotStarted(w)'
    BY <1>1, <1>2, <1>3, <1>4 DEF NotStarted
  <1>10. FirstDispatch(w)'
    <2>1. ASSUME NEW q \in Requests, req'[q].pc = "posting", req'[q].wf = w
          PROVE  req[q].pc = "posting" /\ req[q].wf = w /\ (q \notin accepted' => q \notin accepted)
      <3>1. ASSUME ServiceStarts(q), req'[q].wf = req[q].wf PROVE FALSE
        <4>1. starts' = [starts EXCEPT ![w] = @ + 1]
          BY <2>1, <3>1 DEF ServiceStarts
        <4> QED
          BY <1>1, <1>2, <1>4, <4>1 DEF ExecutionTypeOK
      <3> QED
        BY <2>1, <3>1, PostingKept
    <2> QED
      BY <1>1, <1>2, <1>3, <1>6, <2>1 DEF FirstDispatch, Untouched, NoRun
  <1>11. RunInStep(w)'
    BY <1>1, <1>2, <1>6, <1>7, <1>8 DEF RunInStep
  <1>12. StagesInStep(w)'
    <2>1. ~Applied(w)'
      BY <1>6, <1>7 DEF Applied
    <2> QED
      BY <1>1, <1>2, <1>3, <1>6, <2>1 DEF StagesInStep, AllDone
  <1>13. EndInStep(w)'
    <2>1. CASE run[w].pc = "reporting"
      <3>1. Ending(w)' => Ending(w)
        BY <1>3, <1>7, <1>8, <2>1 DEF Ending
      <3> QED
        BY <1>1, <1>2, <1>3, <2>1, <3>1 DEF EndInStep
    <2>2. CASE run[w].pc = "completing"
      <3>1. starts[w] <= 1 => \A q \in InQueue(w)' : req'[q].op # "report"
        BY <1>1, <1>2, <1>7, <1>8, <2>2 DEF RunInStep
      <3>2. starts[w] <= 1 /\ ~lost => AllDone(w)'
        BY <1>1, <1>2, <1>3, <2>2 DEF StagesInStep, AllDone
      <3> QED
        BY <1>2, <1>3, <1>6, <2>2, <3>1, <3>2 DEF EndInStep
    <2> QED
      BY <1>2, <2>1, <2>2
  <1> QED
    BY <1>9, <1>10, <1>11, <1>12, <1>13 DEF InStep

-----------------------------------------------------------------------------
(* The steps together *)

\* When the run's call ends, only dispatches are left in the queue.
LEMMA FinishCalm ==
    ASSUME ExecutionInductive, [ExecutionNext]_allVars, NEW w \in Workflows,
           NEW r \in Requests, Finish(r), run[w] # NoRun, r \in run[w].call
    PROVE  /\ req[r].pc = "finishing"
           /\ \A q \in InQueue(w)' : req'[q].op = "dispatch"
  <1>1. /\ TypeOK /\ ExecutionTypeOK /\ Inductive /\ QueueSound /\ RunSound(w)
    BY StepFacts
  <1>2. run[w] \in Run /\ CallOf(w, r) /\ run[w].pc \notin {"accepted", "executing"}
    BY <1>1, RunType DEF RunSound
  <1>3. req[r].op \in {"report", "complete"} /\ req[r].wf = w /\ req[r].pc = "finishing"
    BY <1>2 DEF CallOf, Run, Finish
  <1>4. HoldsLock(r) /\ queue' = [queue EXCEPT ![w] = Tail(@)] /\ Reply(r)
    BY <1>1, <1>3 DEF Inductive, LockDiscipline, LockedOp, Finish, Release
  <1>5. queue[w] \in Seq(Requests) /\ queue[w] # <<>> /\ queue[w][1] = r
    BY <1>1, <1>3, <1>4 DEF TypeOK, HoldsLock
  <1>6. queue'[w] = Tail(queue[w])
    BY <1>1, <1>4 DEF TypeOK
  <1>7. ASSUME NEW k \in 1..Len(queue'[w]) PROVE req'[queue'[w][k]].op = "dispatch"
    <2>1. /\ k + 1 \in 1..Len(queue[w]) /\ queue'[w][k] = queue[w][k + 1]
          /\ 1 \in 1..Len(queue[w]) /\ 1 < k + 1
      BY <1>5, <1>6
    <2>2. req[queue[w][k + 1]].op = "dispatch"
      BY <1>2, <1>5, <2>1 DEF CallOf
    <2>3. queue[w][k + 1] \in InQueue(w)
      BY <2>1 DEF InQueue
    <2>4. queue[w][k + 1] # r
      BY <1>3, <2>2
    <2> QED
      BY <1>1, <1>4, <2>1, <2>2, <2>3, <2>4, Members, ReplyEffect
  <1> QED
    BY <1>3, <1>7 DEF InQueue

\* The calls of the run of w are not those of other handlers.
LEMMA CallOthers ==
    ASSUME ExecutionInductive, [ExecutionNext]_allVars, NEW w \in Workflows,
           run'[w] = run[w], NEW r \in Requests, UNCHANGED <<done[w], starts[w]>>,
           ~lost' => stages'[w] = stages[w],
           \/ Starts(r)
           \/ Reply(r) /\ (run[w] # NoRun => r \notin run[w].call)
           \/ \E phase : /\ Goto(r, phase) /\ req[r].pc # "idle"
                         /\ \/ req[r].wf # w
                            \/ req[r].op # "report"
    PROVE  InStep(w)'
  <1>1. TypeOK /\ ExecutionTypeOK /\ RunSound(w)
    BY StepFacts
  <1>2. ASSUME run[w] # NoRun, run[w].pc = "reporting", NEW q \in run[w].call
        PROVE  req'[q] = req[q]
    <2>1. run[w] \in Run /\ CallOf(w, q)
      BY <1>1, <1>2, RunType DEF RunSound
    <2>2. q \in Requests /\ req[q].wf = w /\ req[q].op = "report" /\ req[q].pc # "idle"
      BY <1>2, <2>1, ExecutionAssumption DEF CallOf, Run
    <2>3. CASE Starts(r)
      BY <1>1, <2>2, <2>3, StartEffect DEF Starts, Idle
    <2>4. CASE Reply(r) /\ r \notin run[w].call
      BY <1>1, <1>2, <2>2, <2>4, ReplyEffect
    <2>5. ASSUME NEW phase, Goto(r, phase), req[r].pc # "idle",
                 req[r].wf # w \/ req[r].op # "report"
          PROVE  req'[q] = req[q]
      BY <1>1, <2>2, <2>5, GotoEffect
    <2> QED
      BY <1>2, <2>3, <2>4, <2>5
  <1>3. RunQuiet(w)
    BY <1>2 DEF RunQuiet
  <1> QED
    BY <1>3, FrameStep

\* The step leaves the service as it is, and the run as it is or ended.
LEMMA ServiceRests ==
    ASSUME ExecutionInductive, [ExecutionNext]_allVars, NEW w \in Workflows,
           UNCHANGED <<req, stages>>, UNCHANGED <<done, starts>>,
           \/ run'[w] = run[w]
           \/ run'[w] = NoRun
           \/ /\ run[w] # NoRun /\ run[w].answer # "taken"
              /\ run'[w] \in {[run[w] EXCEPT !.call = {}, !.answer = "retry"],
                              [run[w] EXCEPT !.answer = "none"]}
              /\ run'[w].call = {}
    PROVE  InStep(w)'
  <1>1. ExecutionTypeOK
    BY StepFacts
  <1>2. run[w] # NoRun => run[w] \in Run
    BY <1>1, RunType
  <1>3. RunQuiet(w)
    BY <1>2 DEF RunQuiet, Run
  <1> QED
    BY <1>3, FrameStep

LEMMA NextInStep ==
    ASSUME ExecutionInductive, [ExecutionNext]_allVars, NEW w \in Workflows
    PROVE  InStep(w)'
  <1> USE ServiceAssumption, ExecutionAssumption
  <1>0. /\ TypeOK /\ ExecutionTypeOK /\ Inductive /\ QueueSound /\ RunSound(w)
    BY StepFacts
  <1>1. ASSUME NEW r \in Requests, Arrive(r), UNCHANGED gatewayVars PROVE InStep(w)'
    <2>1. Starts(r)
      BY <1>1, ArriveIsStart
    <2>2. UNCHANGED <<run, done, starts, stages>>
      BY <1>1 DEF gatewayVars, Arrive, PlanCheck, Submit, SubmitControl, memory
    <2> QED
      BY <2>1, <2>2, CallOthers
  <1>2. ASSUME NEW r \in Requests, ServiceFinishes(r) PROVE InStep(w)'
    <2>1. /\ Finish(r) /\ Reply(r) /\ UNCHANGED <<done, starts, stages>>
          /\ Answered(r, "taken")
      BY <1>2 DEF ServiceFinishes, Finish, memory
    <2>2. CASE run[w] # NoRun /\ r \in run[w].call
      <3>1. run[w] \in Run /\ run'[w] = [run[w] EXCEPT !.call = {}, !.answer = "taken"]
        BY <1>0, <2>1, <2>2, RunType DEF Answered
      <3>2. RunQuiet(w)
        BY <2>1, <2>2, <3>1, FinishCalm DEF RunQuiet, Run
      <3> QED
        BY <2>1, <3>2, FrameStep
    <2>3. CASE ~(run[w] # NoRun /\ r \in run[w].call)
      <3>1. run'[w] = run[w]
        BY <2>1, <2>3 DEF Answered
      <3> QED
        BY <2>1, <2>3, <3>1, CallOthers
    <2> QED
      BY <2>2, <2>3
  <1>3. ASSUME NEW r \in Requests, ServiceRejects(r) PROVE InStep(w)'
    <2>1. Reply(r) /\ UNCHANGED <<done, starts, stages>>
      BY <1>3 DEF ServiceRejects, RejectLocked, memory
    <2>2. PICK answer \in {"refused", "retry"} : Answered(r, answer)
      BY <1>3 DEF ServiceRejects
    <2>3. CASE run[w] # NoRun /\ r \in run[w].call
      <3>1. run[w] \in Run /\ run'[w] = [run[w] EXCEPT !.call = {}, !.answer = answer]
        BY <1>0, <2>2, <2>3, RunType DEF Answered
      <3>2. /\ run'[w].pc = run[w].pc /\ run'[w].at = run[w].at
            /\ run'[w].chain = run[w].chain /\ run'[w].result = run[w].result
            /\ run'[w].call = {} /\ run'[w].answer # "taken"
        BY <3>1 DEF Run
      <3>3. RunQuiet(w)
        BY <2>3, <3>2 DEF RunQuiet
      <3> QED
        BY <2>1, <3>3, FrameStep
    <2>4. CASE ~(run[w] # NoRun /\ r \in run[w].call)
      <3>1. run'[w] = run[w]
        BY <2>2, <2>4 DEF Answered
      <3> QED
        BY <2>1, <2>4, <3>1, CallOthers
    <2> QED
      BY <2>3, <2>4
  <1>4. ASSUME NEW r \in Requests, ServiceReports(r) PROVE InStep(w)'
    <2>1. CASE req[r].wf = w
      BY <1>4, <2>1, ReportStep
    <2>2. CASE req[r].wf # w
      <3>1. /\ Goto(r, "finishing") /\ req[r].pc # "idle" /\ UNCHANGED <<run, starts>>
            /\ done' = done \/ done' = [done EXCEPT ![req[r].wf] = @ \cup {req[r].stage}]
            /\ \E chain : stages' = [stages EXCEPT ![req[r].wf] = chain]
        BY <1>4 DEF ServiceReports, StageReport
      <3>2. done'[w] = done[w] /\ stages'[w] = stages[w]
        BY <1>0, <2>2, <3>1 DEF ExecutionTypeOK, TypeOK
      <3> QED
        BY <2>2, <3>1, <3>2, CallOthers
    <2> QED
      BY <2>1, <2>2
  <1>5. ASSUME NEW r \in Requests, ServiceStarts(r) PROVE InStep(w)'
    <2>1. CASE req[r].wf = w
      BY <1>5, <2>1, StartStep
    <2>2. CASE req[r].wf # w
      <3>1. /\ Goto(r, "posting") /\ req[r].pc # "idle" /\ UNCHANGED <<run, done, stages>>
            /\ starts' = [starts EXCEPT ![req[r].wf] = @ + 1]
        BY <1>5 DEF ServiceStarts, DispatchStart
      <3>2. starts'[w] = starts[w]
        BY <1>0, <2>2, <3>1 DEF ExecutionTypeOK
      <3> QED
        BY <2>2, <3>1, <3>2, CallOthers
    <2> QED
      BY <2>1, <2>2
  <1>6. ASSUME NEW r \in Requests, ServiceDispatched(r) PROVE InStep(w)'
    <2>1. CASE req[r].wf = w
      BY <1>6, <2>1, DispatchedStep
    <2>2. CASE req[r].wf # w
      <3>1. /\ Goto(r, "finishing") /\ req[r].pc # "idle" /\ UNCHANGED <<run, done, starts>>
            /\ \E chain : stages' = [stages EXCEPT ![req[r].wf] = chain]
        BY <1>6 DEF ServiceDispatched, DispatchSent
      <3>2. stages'[w] = stages[w]
        BY <1>0, <2>2, <3>1 DEF TypeOK
      <3> QED
        BY <2>2, <3>1, <3>2, CallOthers
    <2> QED
      BY <2>1, <2>2
  <1>7. ASSUME NEW r \in Requests, ServiceWorks(r) PROVE InStep(w)'
    <2>1. UNCHANGED gatewayVars /\ UNCHANGED <<run, done, starts>>
      BY <1>7 DEF ServiceWorks, gatewayVars
    <2>2. CASE PlanStore(r)
      <3>1. CASE req[r].wf = w
        BY <2>1, <2>2, <3>1, PlanStep
      <3>2. CASE req[r].wf # w
        <4>1. /\ Goto(r, "finishing") /\ req[r].pc # "idle"
              /\ stages' = [stages EXCEPT ![req[r].wf] = NoStages]
          BY <2>2 DEF PlanStore
        <4>2. stages'[w] = stages[w]
          BY <1>0, <3>2, <4>1 DEF TypeOK
        <4> QED
          BY <2>1, <3>2, <4>1, <4>2, CallOthers
      <3> QED
        BY <3>1, <3>2
    <2>3. CASE RejectUnlocked(r)
      <3>1. Reply(r) /\ UNCHANGED stages /\ req[r].pc \in {"reading", "planning"}
        BY <2>3 DEF RejectUnlocked, memory
      <3>2. run[w] # NoRun => r \notin run[w].call
        BY <1>0, <3>1 DEF RunSound, CallOf
      <3> QED
        BY <2>1, <3>1, <3>2, CallOthers
    <2>4. CASE Complete(r)
      <3>1. /\ Goto(r, "finishing") /\ req[r].pc # "idle" /\ req[r].op = "complete"
            /\ UNCHANGED stages
        BY <2>4 DEF Complete
      <3> QED
        BY <2>1, <3>1, CallOthers
    <2>5. CASE Control(r)
      <3>1. /\ Goto(r, "finishing") /\ req[r].pc = "reading" /\ UNCHANGED stages
        BY <2>5 DEF Control
      <3>2. req[r].op # "report"
        BY <1>0, <3>1 DEF Inductive, PhaseOfOp, ControlOp
      <3> QED
        BY <2>1, <3>1, <3>2, CallOthers
    <2> QED
      BY <1>7, <2>2, <2>3, <2>4, <2>5 DEF ServiceWorks
  <1>8. ASSUME NEW r \in Requests, GatewayAccept(r) PROVE InStep(w)'
    <2>1. CASE req[r].wf = w /\ run[w] = NoRun
      BY <1>8, <2>1, AcceptStep
    <2>2. CASE ~(req[r].wf = w /\ run[w] = NoRun)
      <3>1. run'[w] = run[w] /\ UNCHANGED <<req, stages, done, starts>>
        BY <1>0, <1>8, <2>2 DEF GatewayAccept, ExecutionTypeOK, vars
      <3> QED
        BY <3>1, ServiceRests
    <2> QED
      BY <2>1, <2>2
  <1>9. ASSUME NEW x \in Workflows, FetchWorkflow(x) PROVE InStep(w)'
    <2>1. CASE x = w /\ w \in store /\ NStages > 0
      <3>1. run'[w] = Advance(stages[w], 1)
        BY <1>0, <1>9, <2>1 DEF FetchWorkflow, ExecutionTypeOK
      <3> QED
        BY <1>9, <2>1, <3>1, FetchStep
    <2>2. CASE ~(x = w /\ w \in store /\ NStages > 0)
      <3>1. run'[w] = run[w] \/ run'[w] = NoRun
        BY <1>0, <1>9, <2>2 DEF FetchWorkflow, ExecutionTypeOK
      <3>2. UNCHANGED <<req, stages, done, starts>>
        BY <1>9 DEF FetchWorkflow, vars
      <3> QED
        BY <3>1, <3>2, ServiceRests
    <2> QED
      BY <2>1, <2>2
  <1>10. ASSUME NEW x \in Workflows, ExecuteStage(x) PROVE InStep(w)'
    <2>1. CASE x = w
      <3>1. PICK result \in Results :
               run'[w] = [run[w] EXCEPT !.pc = "reporting", !.result = result]
        BY <1>0, <1>10, <2>1 DEF ExecuteStage, ExecutionTypeOK
      <3> QED
        BY <1>10, <2>1, <3>1, ExecuteStep
    <2>2. CASE x # w
      <3>1. run'[w] = run[w]
        BY <1>0, <1>10, <2>2 DEF ExecuteStage, ExecutionTypeOK
      <3>2. UNCHANGED <<req, stages, done, starts>>
        BY <1>10 DEF ExecuteStage, vars
      <3> QED
        BY <3>1, <3>2, ServiceRests
    <2> QED
      BY <2>1, <2>2
  <1>11. ASSUME NEW x \in Workflows, NEW r \in GatewayCalls, PostAttempt(x, r) PROVE InStep(w)'
    <2>1. CASE x = w
      BY <1>11, <2>1, PostStep
    <2>2. CASE x # w
      <3>1. run'[w] = run[w] /\ UNCHANGED <<done, starts>>
        BY <1>0, <1>11, <2>2 DEF PostAttempt, ExecutionTypeOK
      <3>2. r \in Requests
        OBVIOUS
      <3>3. PICK op, s, report : Submit(r, op, x, s, report)
        BY <1>11 DEF PostAttempt
      <3>4. UNCHANGED stages /\ req[r].pc = "idle" /\ req'[r].pc # "idle"
        BY <1>0, <3>2, <3>3 DEF Submit, memory, Idle, TypeOK
      <3>5. ASSUME run[w] # NoRun, run[w].pc = "reporting", NEW q \in run[w].call
            PROVE  req'[q] = req[q]
        <4>1. run[w] \in Run /\ CallOf(w, q)
          BY <1>0, <3>5, RunType DEF RunSound
        <4>2. q \in Requests /\ req[q].pc # "idle"
          BY <3>5, <4>1 DEF CallOf, Run
        <4> QED
          BY <1>0, <3>3, <3>4, <4>2 DEF Submit, TypeOK
      <3>6. RunQuiet(w)
        BY <3>1, <3>5 DEF RunQuiet
      <3> QED
        BY <3>1, <3>4, <3>6, FrameStep
    <2> QED
      BY <2>1, <2>2
  <1>12. ASSUME NEW x \in Workflows, TakeAnswer(x) PROVE InStep(w)'
    <2>0. UNCHANGED <<req, stages, done, starts>>
      BY <1>12 DEF TakeAnswer, vars
    <2>1. CASE x # w
      <3>1. run'[w] = run[w]
        BY <1>0, <1>12, <2>1 DEF TakeAnswer, ExecutionTypeOK
      <3> QED
        BY <2>0, <3>1, ServiceRests
    <2>2. CASE x = w
      <3>1. /\ run[w] # NoRun /\ run[w].answer # "none"
            /\ run'[w] = AfterAttempt(run[w]) /\ run[w] \in Run
        BY <1>0, <1>12, <2>2, RunType DEF TakeAnswer, ExecutionTypeOK
      <3>2. CASE run[w].answer = "taken" /\ run[w].pc = "reporting" /\ run[w].result = "completed"
        BY <1>12, <2>2, <3>1, <3>2, AdvanceStep DEF AfterAttempt
      <3>3. CASE run[w].answer = "retry" /\ run[w].tries < Attempts
        <4>1. run'[w] = [run[w] EXCEPT !.answer = "none"] /\ run[w].call = {}
          BY <1>0, <3>1, <3>3 DEF AfterAttempt, RunSound
        <4>2. run'[w].call = {}
          BY <3>1, <4>1 DEF Run
        <4> QED
          BY <2>0, <3>1, <3>3, <4>1, <4>2, ServiceRests
      <3>4. CASE ~(run[w].answer = "taken" /\ run[w].pc = "reporting" /\ run[w].result = "completed")
                 /\ ~(run[w].answer = "retry" /\ run[w].tries < Attempts)
        <4>1. run'[w] = NoRun
          BY <3>1, <3>4 DEF AfterAttempt
        <4> QED
          BY <2>0, <4>1, ServiceRests
      <3> QED
        BY <3>2, <3>3, <3>4
    <2> QED
      BY <2>1, <2>2
  <1>13. ASSUME NEW x \in Workflows, AttemptTimeout(x) PROVE InStep(w)'
    <2>0. UNCHANGED <<req, stages, done, starts>>
      BY <1>13 DEF AttemptTimeout, vars
    <2>1. CASE x # w
      <3>1. run'[w] = run[w]
        BY <1>0, <1>13, <2>1 DEF AttemptTimeout, ExecutionTypeOK
      <3> QED
        BY <2>0, <3>1, ServiceRests
    <2>2. CASE x = w
      <3>1. /\ run[w] # NoRun /\ run[w].call # {} /\ run[w] \in Run
            /\ run'[w] = [run[w] EXCEPT !.call = {}, !.answer = "retry"]
        BY <1>0, <1>13, <2>2, RunType DEF AttemptTimeout, ExecutionTypeOK
      <3>2. run[w].answer # "taken" /\ run'[w].call = {}
        BY <1>0, <3>1 DEF RunSound, Run
      <3> QED
        BY <2>0, <3>1, <3>2, ServiceRests
    <2> QED
      BY <2>1, <2>2
  <1>14. ASSUME NEW x \in Workflows, SupervisorTimeout(x), UNCHANGED gatewayVars PROVE InStep(w)'
    <2>1. UNCHANGED <<run, req, stages, done, starts>>
      BY <1>14 DEF SupervisorTimeout, gatewayVars, memory
    <2> QED
      BY <2>1, ServiceRests
  <1>15. ASSUME ServiceCrash PROVE InStep(w)'
    <2>1. UNCHANGED <<done, starts>> /\ Crash
      BY <1>15 DEF ServiceCrash
    <2>2. ~lost' => stages'[w] = stages[w]
      <3>1. /\ stages'[w] = IF w \in disk.keys THEN disk.stages[w] ELSE stages[w]
            /\ ~lost' => ~diskStale
        BY <2>1 DEF Crash
      <3>2. ~diskStale => disk.keys = store /\ \A x \in store : disk.stages[x] = stages[x]
        BY <1>0 DEF Inductive, DiskCurrent
      <3> QED
        BY <3>1, <3>2
    <2>3. \/ run'[w] = NoRun
          \/ /\ run[w] # NoRun /\ run[w].call # {}
             /\ run'[w] = [run[w] EXCEPT !.call = {}, !.answer = "retry"]
          \/ run'[w] = run[w] /\ (run[w] # NoRun => run[w].call = {})
      BY <1>15 DEF ServiceCrash
    <2>4. RunQuiet(w)
      <3>1. run[w] # NoRun => run[w] \in Run
        BY <1>0, RunType
      <3> QED
        BY <2>3, <3>1 DEF RunQuiet, Run
    <2> QED
      BY <2>1, <2>2, <2>4, FrameStep
  <1>16. ASSUME GatewayCrash PROVE InStep(w)'
    <2>1. run'[w] = NoRun /\ UNCHANGED <<req, stages, done, starts>>
      BY <1>16 DEF GatewayCrash, memory
    <2> QED
      BY <2>1, ServiceRests
  <1>17. ASSUME UNCHANGED allVars PROVE InStep(w)'
    <2>1. UNCHANGED <<run, req, stages, done, starts>>
      BY <1>17 DEF allVars, vars, gatewayVars
    <2> QED
      BY <2>1, ServiceRests
  <1> QED
    BY <1>1, <1>2, <1>3, <1>4, <1>5, <1>6, <1>7, <1>8, <1>9, <1>10, <1>11, <1>12, <1>13,
       <1>14, <1>15, <1>16, <1>17 DEF ExecutionNext, ServiceProceeds, GatewayProceeds

-----------------------------------------------------------------------------
(* Execution: the theorems *)

LEMMA InitExecution == ExecutionInit => ExecutionInductive
  <1> SUFFICES ASSUME ExecutionInit PROVE ExecutionInductive
    OBVIOUS
  <1> USE ServiceAssumption, ExecutionAssumption
  <1>1. Inductive
    BY InitInductive DEF ExecutionInit
  <1>2. /\ run = [w \in Workflows |-> NoRun] /\ accepted = {} /\ degraded = {}
        /\ done = [w \in Workflows |-> {}] /\ starts = [w \in Workflows |-> 0]
        /\ failures = 0
        /\ status = [w \in Workflows |-> "draft"]
        /\ stages = [w \in Workflows |-> NoStages]
        /\ req = [r \in Requests |-> Idle] /\ queue = [w \in Workflows |-> <<>>]
        /\ store = {}
    BY DEF ExecutionInit, Init
  <1>3. ExecutionTypeOK
    BY <1>1, <1>2 DEF ExecutionTypeOK, Inductive
  <1>4. QueueSound
    BY <1>2 DEF QueueSound, Idle
  <1>5. SuccessKnown
    BY <1>2 DEF SuccessKnown
  <1>6. ASSUME NEW w \in Workflows PROVE RunSound(w) /\ InStep(w)
    <2>1. run[w] = NoRun /\ queue[w] = <<>> /\ done[w] = {} /\ status[w] = "draft"
          /\ starts[w] = 0
      BY <1>2
    <2>2. InQueue(w) = {}
      BY <2>1 DEF InQueue
    <2>3. Untouched(w) /\ \A r \in Requests : req[r].pc = "idle"
      BY <1>2 DEF Untouched, NoStages, Idle
    <2>4. NotStarted(w)
      BY <2>1, <2>2, <2>3 DEF NotStarted, Calm
    <2>5. FirstDispatch(w) /\ RunInStep(w) /\ StagesInStep(w) /\ EndInStep(w)
      BY <2>1, <2>2 DEF FirstDispatch, RunInStep, StagesInStep, EndInStep, Ending
    <2> QED
      BY <2>1, <2>4, <2>5 DEF RunSound, InStep
  <1> QED
    BY <1>1, <1>3, <1>4, <1>5, <1>6 DEF ExecutionInductive

LEMMA NextExecutionInductive ==
    ExecutionInductive /\ [ExecutionNext]_allVars => ExecutionInductive'
  <1> SUFFICES ASSUME ExecutionInductive, [ExecutionNext]_allVars
               PROVE  ExecutionInductive'
    OBVIOUS
  <1>1. Inductive /\ QueueSound /\ SuccessKnown /\ [AnyNext]_vars
    BY ExecutionIsAny DEF ExecutionInductive, ExecutionTypeOK
  <1>2. ExecutionTypeOK'
    BY NextExecutionType
  <1>3. Inductive' /\ QueueSound' /\ SuccessKnown'
    BY <1>1, NextInductive, NextQueueSound, NextSuccessKnown
  <1>4. \A w \in Workflows : RunSound(w)' /\ InStep(w)'
    BY NextRunSound, NextInStep
  <1> QED
    BY <1>2, <1>3, <1>4 DEF ExecutionInductive

\* The phases of a workflow's only run, its calls and the service's stages
\* stay in step.
THEOREM ExecutionStaysInStep == ExecutionSpec => []ExecutionInductive
  BY InitExecution, NextExecutionInductive, PTL DEF ExecutionSpec

\* Every variable of service and gateway keeps its type.
THEOREM ExecutionTypeCorrect == ExecutionSpec => []ExecutionTypeOK
  <1>1. ExecutionInductive => ExecutionTypeOK
    BY DEF ExecutionInductive
  <1> QED
    BY <1>1, ExecutionStaysInStep, PTL

\* A workflow that is dispatched once runs each stage once and succeeds with
\* all of them completed, whatever reports are repeated, calls time out and
\* processes restart.
THEOREM StagesRunOnceAlways == ExecutionSpec => []StagesRunOnce
  <1>1. ExecutionInductive => StagesRunOnce
    <2> SUFFICES ASSUME ExecutionInductive PROVE StagesRunOnce
      OBVIOUS
    <2>1. ASSUME NEW w \in Workflows, ~lost, starts[w] <= 1, status[w] = "succeeded",
                 NEW s \in Stages
          PROVE  stages[w][s] = "completed"
      BY <2>1 DEF ExecutionInductive, InStep, EndInStep, Ending, AllDone
    <2>2. ASSUME NEW w \in Workflows, starts[w] <= 1, run[w].pc = "executing"
          PROVE  run[w].at \notin done[w]
      <3>1. run[w] # NoRun
        BY <2>2 DEF NoRun
      <3>2. run[w].at \in Stages /\ \A s \in done[w] : s < run[w].at
        BY <2>2, <3>1 DEF ExecutionInductive, InStep, RunInStep, RunSound
      <3> QED
        BY <3>2, ServiceAssumption DEF Stages
    <2> QED
      BY <2>1, <2>2 DEF StagesRunOnce, SucceededIsDone, NoStageRepeated
  <1> QED
    BY <1>1, ExecutionStaysInStep, PTL

\* What the service guarantees for any clients it guarantees for the runs:
\* status and machine agree, the file is current, no success is supervised,
\* no outcome is contradicted.
THEOREM ServiceSafeWithGateway ==
    ExecutionSpec => [](MachineAgrees /\ DiskCurrent /\ SupervisionSound /\ OutcomeTruthful)
  <1>1. ExecutionInductive => MachineAgrees /\ DiskCurrent /\ SupervisionSound /\ OutcomeTruthful
    BY DEF ExecutionInductive, Inductive
  <1> QED
    BY <1>1, ExecutionStaysInStep, PTL

\* A workflow that has ended stays so under the calls of its run, too.
THEOREM FinalIsFinalWithGateway == ExecutionSpec => FinalIsFinal
  <1> DEFINE Kept == ~lost' => \A w \in Workflows :
                        status[w] \in Final => status'[w] = status[w]
  <1>1. ExecutionInductive /\ [ExecutionNext]_allVars => [Kept]_vars
    <2> SUFFICES ASSUME ExecutionInductive, [ExecutionNext]_allVars, ~lost',
                        NEW w \in Workflows, status[w] \in Final
                 PROVE  status'[w] = status[w]
      OBVIOUS
    <2>1. [AnyNext]_vars /\ Inductive
      BY ExecutionIsAny DEF ExecutionInductive, ExecutionTypeOK
    <2> QED
      BY <2>1, FinalKept DEF Inductive
  <1> QED
    BY <1>1, ExecutionStaysInStep, PTL DEF ExecutionSpec, FinalIsFinal

-----------------------------------------------------------------------------
(* Persistence: the inductive invariant *)

\* A dispatch of w awaits the executor.
Underway(w) == \E r \in Requests : req[r].pc = "posting" /\ req[r].wf = w

\* The value a copy of w's status may have: the status itself, or an earlier
\* one while the START of a dispatch is not yet saved.
Recorded(w, value) == value = status[w] \/ (status[w] = "running" /\ Underway(w))

\* One save is under way at most.
OneSave ==
    \A r, q \in Requests : pending[r] # Nothing /\ pending[q] # Nothing => r = q

\* What a save has still to write is in the store, and as the file has it.
SavesCurrent ==
    \A r \in Requests : \A w \in DOMAIN pending[r] :
        /\ w \in store
        /\ Recorded(w, pending[r][w])
        /\ ~diskStale => w \in disk.keys /\ disk.status[w] = pending[r][w]

\* The rows no save has still to write.
RowsWritten ==
    \A w \in Workflows :
        status[w] # "draft" /\ (\A r \in Requests : w \notin DOMAIN pending[r]) =>
            /\ row[w] # NoRow
            /\ Recorded(w, row[w].status)
            /\ w \in store => row[w].stages = stages[w]
            /\ ~diskStale /\ w \in disk.keys => disk.status[w] = row[w].status

RowsPlanned == \A w \in Workflows : row[w] # NoRow => status[w] # "draft"

\* Who is not in the store was evicted, or is not planned yet.
EvictedFinal ==
    \A w \in Workflows \ store : status[w] # "draft" => status[w] \in Final

\* The file lacks what the bootstrap added.
FileCurrent ==
    ~diskStale =>
        /\ disk.keys \subseteq store
        /\ \A w \in store \ disk.keys : status[w] \in Final
        /\ \A w \in disk.keys : disk.stages[w] = stages[w]

\* What the bootstrap has read are rows; no row goes.
BootRows == boot.phase = "read" => \A w \in DOMAIN boot.status : row[w] # NoRow

\* What the bootstrap has read of a workflow that is not in the store.
BootCurrent ==
    boot.phase = "read" =>
        \A w \in DOMAIN boot.status \ store :
            /\ boot.status[w] = row[w].status
            /\ w \in DOMAIN boot.stages => boot.stages[w] = row[w].stages

\* The plans that were let in: those stored and active, and those that await
\* the planner.
PlansBounded ==
    \A u \in Users :
        Cardinality(Active(u)) + Cardinality(Planning(u))
            <= MaxActive - 1 + Cardinality(Requests)

CopiesAgree ==
    /\ OneSave
    /\ SavesCurrent
    /\ RowsWritten
    /\ RowsPlanned
    /\ EvictedFinal
    /\ FileCurrent
    /\ BootCurrent

Undisrupted ==
    /\ PlannedOnce
    /\ NeverReporting
    /\ DispatchUnderway
    /\ CopiesAgree
    /\ PlansBounded

PersistenceInductive ==
    /\ TypeOK
    /\ PersistenceTypeOK
    /\ BootRows
    /\ MachineAgrees
    /\ PhaseOfOp
    /\ LockDiscipline
    /\ ~disturbed => Undisrupted

-----------------------------------------------------------------------------
(* Types, and what holds through a disturbance *)

\* All but the bootstrap's insertion is a step of the service.
LEMMA PersistenceIsAny ==
    ASSUME [PersistenceNext]_fullVars
    PROVE  [AnyNext]_vars \/ BootInsert
  <1>1. ASSUME NEW r \in Requests, SaveStep(r) \/ EndStep(r) \/ OtherStep(r) PROVE AnyNext
    <2>1. Arrive(r) \/ Proceed(r)
      BY <1>1, Zenon DEF SaveStep, EndStep, OtherStep, Proceed
    <2> QED
      BY <2>1, ArriveIsStart DEF AnyNext
  <1>2. ASSUME NEW r \in Requests, NEW w \in Workflows, WriteRow(r, w) PROVE UNCHANGED vars
    BY <1>2 DEF WriteRow
  <1>3. ASSUME NEW w \in Workflows, SupervisorTimeout(w) PROVE AnyNext
    BY <1>3 DEF AnyNext
  <1>4. ASSUME NEW w \in Workflows, BootRead \/ BootStages(w) PROVE UNCHANGED vars
    BY <1>4 DEF BootRead, BootStages
  <1>5. CASE BootRead
    BY <1>5 DEF BootRead
  <1>6. CASE Restart
    BY <1>6 DEF Restart, AnyNext
  <1>7. CASE UNCHANGED fullVars
    BY <1>7 DEF fullVars
  <1> QED
    BY <1>1, <1>2, <1>3, <1>4, <1>5, <1>6, <1>7 DEF PersistenceNext

LEMMA PartialType ==
    ASSUME NEW S, NEW f
    PROVE  f \in Partial(S) <=> DOMAIN f \subseteq Workflows /\ f \in [DOMAIN f -> S]
  BY DEF Partial

LEMMA BootType ==
    ASSUME PersistenceTypeOK, boot.phase = "read"
    PROVE  /\ boot = [phase |-> "read", status |-> boot.status, stages |-> boot.stages]
           /\ boot.status \in Partial(WorkflowState)
           /\ boot.stages \in Partial([Stages -> StageStatus])
  <1>1. boot \in [phase: {"asked", "off"}]
                  \cup [phase: {"read"}, status: Partial(WorkflowState),
                        stages: Partial([Stages -> StageStatus])]
    BY DEF PersistenceTypeOK, Boot
  <1> QED
    BY <1>1

\* A row is a record of the two.
LEMMA RowType ==
    ASSUME PersistenceTypeOK, NEW w \in Workflows, row[w] # NoRow
    PROVE  row[w].status \in WorkflowState /\ row[w].stages \in [Stages -> StageStatus]
  BY DEF PersistenceTypeOK, Row

LEMMA NextPersistenceType ==
    ASSUME TypeOK, TypeOK', PersistenceTypeOK, BootRows, [PersistenceNext]_fullVars
    PROVE  PersistenceTypeOK'
  <1>0. Nothing \in Partial(WorkflowState)
    BY PartialType DEF Nothing
  <1>1. ASSUME NEW r \in Requests, SaveStep(r) PROVE PersistenceTypeOK'
    <2>1. [w \in store' |-> status'[w]] \in Partial(WorkflowState)
      <3>1. store' \subseteq Workflows /\ \A w \in store' : status'[w] \in WorkflowState
        BY DEF TypeOK
      <3> QED
        BY <3>1, PartialType
    <2>2. disturbed' \in BOOLEAN
      BY <1>1 DEF SaveStep, PersistenceTypeOK
    <2> QED
      BY <1>1, <2>1, <2>2 DEF SaveStep, StartSave, PersistenceTypeOK
  <1>2. ASSUME NEW r \in Requests, NEW w \in Workflows, WriteRow(r, w) PROVE PersistenceTypeOK'
    <2>1. pending[r] \in Partial(WorkflowState)
      BY DEF PersistenceTypeOK
    <2>2. DOMAIN pending[r] \subseteq Workflows /\ pending[r] \in [DOMAIN pending[r] -> WorkflowState]
      BY <2>1, PartialType
    <2>3. Without(pending[r], w) \in Partial(WorkflowState)
      BY <2>2, PartialType DEF Without
    <2>4. pending' \in [Requests -> Partial(WorkflowState)]
      BY <1>2, <2>3 DEF WriteRow, PersistenceTypeOK
    <2>5. [status |-> pending[r][w], stages |-> stages[w]] \in Row
      BY <1>2, <2>2 DEF WriteRow, TypeOK, Row
    <2>6. row' \in [Workflows -> Row \cup {NoRow}] /\ disturbed' \in BOOLEAN /\ boot' = boot
      BY <1>2, <2>5 DEF WriteRow, PersistenceTypeOK
    <2> QED
      BY <2>4, <2>6 DEF PersistenceTypeOK
  <1>3. ASSUME UNCHANGED persistVars PROVE PersistenceTypeOK'
    BY <1>3 DEF persistVars, PersistenceTypeOK
  <1>4. CASE BootRead
    <2>1. [w \in {x \in Workflows : row[x] # NoRow} |-> row[w].status] \in Partial(WorkflowState)
      BY RowType, PartialType
    <2>2. [w \in {} |-> NoStages] \in Partial([Stages -> StageStatus])
      BY PartialType
    <2>3. boot' \in Boot
      BY <1>4, <2>1, <2>2 DEF BootRead, Boot
    <2> QED
      BY <1>4, <2>3 DEF BootRead, PersistenceTypeOK
  <1>5. ASSUME NEW w \in Workflows, BootStages(w) PROVE PersistenceTypeOK'
    <2>1. /\ boot = [phase |-> "read", status |-> boot.status, stages |-> boot.stages]
          /\ boot.status \in Partial(WorkflowState)
          /\ boot.stages \in Partial([Stages -> StageStatus])
      BY <1>5, BootType DEF BootStages
    <2> DEFINE more == [x \in DOMAIN boot.stages \cup {w} |->
                          IF x = w THEN row[w].stages ELSE boot.stages[x]]
    <2>2. row[w] # NoRow
      BY <1>5 DEF BootStages, BootRows
    <2>3. row[w].stages \in [Stages -> StageStatus]
      BY <2>2, RowType
    <2>4. more \in Partial([Stages -> StageStatus])
      BY <2>1, <2>3, PartialType
    <2>5. boot' = [phase |-> "read", status |-> boot.status, stages |-> more]
      BY <1>5, <2>1 DEF BootStages
    <2>6. boot' \in Boot
      BY <2>1, <2>4, <2>5 DEF Boot
    <2> QED
      BY <1>5, <2>6 DEF BootStages, PersistenceTypeOK
  <1>6. CASE BootInsert
    <2>1. boot' \in Boot
      BY <1>6 DEF BootInsert, Boot
    <2> QED
      BY <1>6, <2>1 DEF BootInsert, PersistenceTypeOK
  <1>7. CASE Restart
    <2>1. boot' \in Boot /\ pending' \in [Requests -> Partial(WorkflowState)]
      BY <1>0, <1>7 DEF Restart, Boot
    <2>2. disturbed' \in BOOLEAN /\ row' = row
      BY <1>7 DEF Restart, PersistenceTypeOK, TypeOK
    <2> QED
      BY <2>1, <2>2 DEF PersistenceTypeOK
  <1>8. CASE UNCHANGED fullVars
    BY <1>3, <1>8 DEF fullVars
  <1> QED
    BY <1>1, <1>2, <1>3, <1>4, <1>5, <1>6, <1>7, <1>8 DEF PersistenceNext, EndStep, OtherStep

LEMMA NextBootRows ==
    ASSUME TypeOK, PersistenceTypeOK, BootRows, [PersistenceNext]_fullVars
    PROVE  BootRows'
  <1> SUFFICES ASSUME boot'.phase = "read", NEW w \in DOMAIN boot'.status
               PROVE  row'[w] # NoRow
    BY DEF BootRows
  <1>1. ASSUME NEW r \in Requests, NEW x \in Workflows, WriteRow(r, x)
        PROVE  row'[w] # NoRow
    <2>1. boot' = boot /\ row[w] # NoRow /\ w \in Workflows
      BY <1>1, BootType, PartialType DEF WriteRow, BootRows
    <2>2. row' = row \/ row' = [row EXCEPT ![x] = [status |-> pending[r][x], stages |-> stages[x]]]
      BY <1>1 DEF WriteRow
    <2>3. [status |-> pending[r][x], stages |-> stages[x]] # NoRow
      BY DEF NoRow
    <2> QED
      BY <2>1, <2>2, <2>3 DEF PersistenceTypeOK
  <1>2. CASE BootRead
    <2>1. boot'.status = [x \in {y \in Workflows : row[y] # NoRow} |-> row[x].status]
      BY <1>2 DEF BootRead
    <2> QED
      BY <1>2, <2>1 DEF BootRead
  <1>3. ASSUME NEW x \in Workflows, BootStages(x) PROVE row'[w] # NoRow
    <2>1. boot' = [boot EXCEPT !.stages = [y \in DOMAIN boot.stages \cup {x} |->
                                             IF y = x THEN row[x].stages ELSE boot.stages[y]]]
      BY <1>3 DEF BootStages
    <2>2. boot.phase = "read" /\ row' = row
      BY <1>3 DEF BootStages
    <2>3. boot = [phase |-> "read", status |-> boot.status, stages |-> boot.stages]
      BY <2>2, BootType
    <2>4. boot'.status = boot.status
      BY <2>1, <2>3
    <2> QED
      BY <2>2, <2>4 DEF BootRows
  <1>4. ~BootInsert /\ ~Restart
    BY DEF BootInsert, Restart
  <1>5. ASSUME UNCHANGED <<row, boot>> PROVE row'[w] # NoRow
    BY <1>5 DEF BootRows
  <1>6. ASSUME NEW r \in Requests, SaveStep(r) \/ EndStep(r) \/ OtherStep(r)
        PROVE  UNCHANGED <<row, boot>>
    BY <1>6 DEF SaveStep, EndStep, OtherStep, persistVars
  <1> QED
    BY <1>1, <1>2, <1>3, <1>4, <1>5, <1>6 DEF PersistenceNext, persistVars, fullVars

\* What the bootstrap inserts, the types allow.
LEMMA InsertEffect ==
    ASSUME TypeOK, PersistenceTypeOK, MachineAgrees, BootInsert
    PROVE  TypeOK' /\ MachineAgrees' /\ UNCHANGED <<req, queue>>
  <1>1. /\ boot.status \in Partial(WorkflowState)
        /\ boot.stages \in Partial([Stages -> StageStatus])
        /\ DOMAIN boot.stages = DOMAIN boot.status
    BY BootType DEF BootInsert
  <1>2. /\ DOMAIN boot.status \subseteq Workflows
        /\ \A w \in DOMAIN boot.status :
              boot.status[w] \in WorkflowState /\ boot.stages[w] \in [Stages -> StageStatus]
    BY <1>1, PartialType
  <1>3. \A w \in Workflows :
           /\ status'[w] = IF w \in Missing THEN boot.status[w] ELSE status[w]
           /\ machine'[w] = IF w \in Missing THEN RestoreMachine(boot.status[w]) ELSE machine[w]
           /\ stages'[w] = IF w \in Missing THEN boot.stages[w] ELSE stages[w]
    BY DEF BootInsert
  <1>4. Missing \subseteq DOMAIN boot.status
    BY DEF Missing
  <1>5. MachineAgrees'
    BY <1>2, <1>3, <1>4, RestoreIsExact DEF MachineAgrees
  <1>6. status' \in [Workflows -> WorkflowState] /\ machine' \in [Workflows -> WorkflowState]
    <2>1. \A w \in Workflows : status'[w] \in WorkflowState /\ machine'[w] \in WorkflowState
      BY <1>2, <1>3, <1>4, RestoreIsExact DEF TypeOK
    <2> QED
      BY <2>1 DEF BootInsert
  <1>7. stages' \in [Workflows -> [Stages -> StageStatus]]
    <2>1. \A w \in Workflows : stages'[w] \in [Stages -> StageStatus]
      BY <1>2, <1>3, <1>4 DEF TypeOK
    <2> QED
      BY <2>1 DEF BootInsert
  <1>8. store' \in SUBSET Workflows
    BY <1>2, <1>4 DEF BootInsert, TypeOK
  <1> QED
    BY <1>5, <1>6, <1>7, <1>8 DEF BootInsert, TypeOK

-----------------------------------------------------------------------------
(* Steps that leave the copies alone *)

LEMMA QuietCopies ==
    ASSUME PersistenceTypeOK, CopiesAgree,
           UNCHANGED <<memory, disk, diskStale, row, pending, boot>>,
           \A w \in Workflows : Underway(w) => Underway(w)'
    PROVE  CopiesAgree'
  <1>1. UNCHANGED <<store, status, stages>>
    BY DEF memory
  <1>2. ASSUME NEW w \in Workflows, NEW value, Recorded(w, value) PROVE Recorded(w, value)'
    BY <1>1, <1>2 DEF Recorded
  <1>3. OneSave' /\ RowsPlanned' /\ EvictedFinal' /\ FileCurrent' /\ BootCurrent'
    BY <1>1 DEF CopiesAgree, OneSave, RowsPlanned, EvictedFinal, FileCurrent, BootCurrent
  <1>4. SavesCurrent'
    <2>1. \A r \in Requests : DOMAIN pending[r] \subseteq Workflows
      BY PartialType DEF PersistenceTypeOK
    <2> QED
      BY <1>1, <1>2, <2>1 DEF CopiesAgree, SavesCurrent
  <1>5. RowsWritten'
    BY <1>1, <1>2 DEF CopiesAgree, RowsWritten
  <1> QED
    BY <1>3, <1>4, <1>5 DEF CopiesAgree

\* START, which no save has written yet.
LEMMA StartCopies ==
    ASSUME TypeOK, PersistenceTypeOK, MachineAgrees, PlannedOnce, CopiesAgree,
           NEW r \in Requests, DispatchStart(r), UNCHANGED persistVars
    PROVE  CopiesAgree'
  <1> DEFINE x == req[r].wf
  <1>1. /\ x \in Workflows /\ x \in store /\ status[x] \notin Final /\ status[x] # "draft"
        /\ status' = [status EXCEPT ![x] = "running"]
        /\ UNCHANGED <<store, stages, disk, diskStale, row, pending, boot>>
        /\ Goto(r, "posting") /\ req[r].pc = "queued"
    <2>1. x \in Workflows /\ CanHandle(machine[x], "START")
      BY CallType DEF DispatchStart
    <2>2. Target("START") = "running" /\ status[x] \notin Final
      BY <2>1 DEF Target, MachineAgrees, CanHandle, Sources, Final
    <2>3. status' = [status EXCEPT ![x] = "running"]
      BY <2>1, <2>2 DEF DispatchStart, Transition, Send, TypeOK
    <2> QED
      BY <2>1, <2>2, <2>3 DEF DispatchStart, persistVars, PlannedOnce
  <1> HIDE DEF x
  <1>2. \A w \in Workflows : status'[w] = IF w = x THEN "running" ELSE status[w]
    BY <1>1 DEF TypeOK
  <1>3. \A w \in Workflows : Underway(w) \/ w = x => Underway(w)'
    <2>1. /\ req'[r].pc = "posting" /\ req'[r].wf = x
          /\ \A q \in Requests : q # r => req'[q] = req[q]
      BY <1>1, GotoEffect DEF x
    <2> QED
      BY <1>1, <2>1 DEF Underway
  <1>4. ASSUME NEW w \in Workflows, NEW value, Recorded(w, value) PROVE Recorded(w, value)'
    BY <1>2, <1>3, <1>4 DEF Recorded
  <1>5. OneSave' /\ EvictedFinal' /\ BootCurrent' /\ RowsPlanned'
    BY <1>1, <1>2 DEF CopiesAgree, OneSave, RowsPlanned, EvictedFinal, BootCurrent
  <1>6. FileCurrent'
    BY <1>1, <1>2 DEF CopiesAgree, FileCurrent, TypeOK
  <1>7. SavesCurrent'
    <2>1. \A q \in Requests : DOMAIN pending[q] \subseteq Workflows
      BY PartialType DEF PersistenceTypeOK
    <2> QED
      BY <1>1, <1>4, <2>1 DEF CopiesAgree, SavesCurrent
  <1>8. RowsWritten'
    <2>1. \A w \in Workflows : status'[w] # "draft" => status[w] # "draft"
      BY <1>1, <1>2
    <2> QED
      BY <1>1, <1>4, <2>1 DEF CopiesAgree, RowsWritten
  <1> QED
    BY <1>5, <1>6, <1>7, <1>8 DEF CopiesAgree

-----------------------------------------------------------------------------
(* A save *)

\* What a save finds outside the store keeps its status.
LEMMA EvictedKept ==
    ASSUME TypeOK, MachineAgrees, PhaseOfOp, PlannedOnce, EvictedFinal,
           NEW r \in Requests, SaveStep(r), NEW w \in Workflows, w \notin store'
    PROVE  /\ status'[w] = status[w]
           /\ status[w] # "draft" => status[w] \in Final
  <1>1. status[w] # "draft" => status[w] \in Final
    <2>1. CASE w \notin store
      BY <2>1 DEF EvictedFinal
    <2>2. CASE w \in store
      <3>1. PlanStore(r)
        BY <2>2 DEF SaveStep, DispatchSent, StageReport, Complete, Control
      <3>2. PICK evicted \in SUBSET {y \in store : status[y] \in Final} :
               store' = (store \ evicted) \cup {req[r].wf}
        BY <3>1 DEF PlanStore
      <3> QED
        BY <2>2, <3>2
    <2> QED
      BY <2>1, <2>2
  <1>2. CASE PlanStore(r)
    <2>1. w # req[r].wf /\ status' = [status EXCEPT ![req[r].wf] = "planned"]
      BY <1>2 DEF PlanStore
    <2> QED
      BY <1>1, <2>1 DEF TypeOK
  <1>3. CASE ~PlanStore(r)
    <2>1. DispatchSent(r) \/ StageReport(r) \/ Complete(r) \/ Control(r)
      BY <1>3 DEF SaveStep
    <2>2. [AnyNext]_vars /\ ~Crash
      <3>1. Goto(r, "finishing") /\ req[r].pc # "idle"
        BY <2>1 DEF DispatchSent, StageReport, Complete, Control
      <3>2. req'[r].pc = "finishing"
        BY <3>1, GotoEffect
      <3>3. Proceed(r)
        BY <2>1 DEF Proceed
      <3> QED
        BY <3>2, <3>3 DEF AnyNext, Crash, Idle
    <2>3. CASE status[w] \in Final
      BY <1>1, <2>2, <2>3, FinalStays
    <2>4. CASE status[w] = "draft"
      <3>1. status'[w] = status[w] \/ w = req[r].wf
        BY <2>1 DEF DispatchSent, StageReport, Complete, Control, Transition, TypeOK
      <3>2. req[r].pc \in {"posting", "queued", "reading"}
        BY <2>1 DEF DispatchSent, StageReport, Complete, Control
      <3>3. w = req[r].wf => status'[w] = status[w]
        <4>1. CASE DispatchSent(r)
          BY <4>1 DEF DispatchSent
        <4>2. CASE ~DispatchSent(r)
          BY <2>1, <2>4, <3>2, <4>2 DEF PlannedOnce, StageReport, Complete, Control
        <4> QED
          BY <4>1, <4>2
      <3> QED
        BY <1>1, <3>1, <3>3
    <2> QED
      BY <1>1, <2>3, <2>4
  <1> QED
    BY <1>2, <1>3

LEMMA SaveCopies ==
    ASSUME TypeOK, TypeOK', PersistenceTypeOK, MachineAgrees, PhaseOfOp, PlannedOnce,
           CopiesAgree, NEW r \in Requests, SaveStep(r), ~disturbed'
    PROVE  CopiesAgree'
  <1>1. /\ \A q \in Requests : pending[q] = Nothing
        /\ pending' = [pending EXCEPT ![r] = [w \in store' |-> status'[w]]]
        /\ boot.phase = "read" => store \subseteq store'
        /\ row' = row /\ boot' = boot
    BY DEF SaveStep, StartSave, SavePending
  <1>2. /\ pending'[r] = [w \in store' |-> status'[w]]
        /\ \A q \in Requests \ {r} : pending'[q] = Nothing
    BY <1>1 DEF PersistenceTypeOK
  <1>3. Persist
    BY Zenon DEF SaveStep, PlanStore, DispatchSent, StageReport, Complete, Control
  <1>4. ~diskStale' =>
           /\ disk'.keys = store' /\ disk'.status = status' /\ disk'.stages = stages'
    BY <1>3 DEF Persist
  <1>5. \A w \in Workflows \ store' :
           status'[w] = status[w] /\ (status[w] # "draft" => status[w] \in Final)
    BY EvictedKept DEF CopiesAgree
  <1>6. OneSave'
    BY <1>2 DEF OneSave
  <1>7. SavesCurrent'
    <2>1. \A q \in Requests : \A w \in DOMAIN pending'[q] : q = r /\ w \in store'
      BY <1>2 DEF Nothing
    <2> QED
      BY <1>2, <1>4, <2>1 DEF SavesCurrent, Recorded
  <1>8. RowsWritten'
    <2> SUFFICES ASSUME NEW w \in Workflows, status'[w] # "draft", w \notin store'
                 PROVE  row[w] # NoRow /\ row[w].status = status'[w]
      BY <1>1, <1>2, <1>4 DEF RowsWritten, Recorded
    <2>1. status[w] \in Final /\ status'[w] = status[w]
      BY <1>5
    <2>2. \A q \in Requests : w \notin DOMAIN pending[q]
      BY <1>1 DEF Nothing
    <2>3. row[w] # NoRow /\ Recorded(w, row[w].status)
      BY <2>1, <2>2 DEF CopiesAgree, RowsWritten, Final
    <2> QED
      BY <2>1, <2>3 DEF Recorded, Final
  <1>9. RowsPlanned'
    <2>1. \A w \in store' : status'[w] # "draft"
      <3>1. [AnyNext]_vars
        BY DEF SaveStep, AnyNext, Proceed
      <3> QED
        BY <3>1, NextPlannedOnce DEF PlannedOnce
    <2> QED
      BY <1>1, <1>5, <2>1 DEF CopiesAgree, RowsPlanned
  <1>10. EvictedFinal'
    BY <1>5 DEF EvictedFinal
  <1>11. FileCurrent'
    BY <1>4 DEF FileCurrent
  <1>12. BootCurrent'
    BY <1>1 DEF CopiesAgree, BootCurrent
  <1> QED
    BY <1>6, <1>7, <1>8, <1>9, <1>10, <1>11, <1>12 DEF CopiesAgree

\* The row of one workflow is written; a write that fails disturbs.
LEMMA WriteCopies ==
    ASSUME TypeOK, PersistenceTypeOK, BootRows, PlannedOnce, CopiesAgree,
           NEW r \in Requests, NEW x \in Workflows, WriteRow(r, x),
           ~disturbed, ~disturbed'
    PROVE  CopiesAgree'
  <1>1. /\ x \in DOMAIN pending[r]
        /\ row' = [row EXCEPT ![x] = [status |-> pending[r][x], stages |-> stages[x]]]
        /\ pending' = [pending EXCEPT ![r] = Without(@, x)]
        /\ UNCHANGED <<vars, boot>>
    BY DEF WriteRow
  <1>2. UNCHANGED <<store, status, stages, req, disk, diskStale>>
    BY <1>1 DEF vars
  <1>3. /\ x \in store /\ Recorded(x, pending[r][x])
        /\ ~diskStale => x \in disk.keys /\ disk.status[x] = pending[r][x]
    BY <1>1 DEF CopiesAgree, SavesCurrent
  <1>4. \A w \in Workflows :
           row'[w] = IF w = x THEN [status |-> pending[r][x], stages |-> stages[x]] ELSE row[w]
    BY <1>1 DEF PersistenceTypeOK
  <1>5. /\ pending'[r] = [y \in DOMAIN pending[r] \ {x} |-> pending[r][y]]
        /\ \A q \in Requests \ {r} : pending'[q] = pending[q]
    BY <1>1 DEF PersistenceTypeOK, Without
  <1>6. \A q \in Requests :
           /\ DOMAIN pending'[q] \subseteq DOMAIN pending[q]
           /\ \A y \in DOMAIN pending'[q] : pending'[q][y] = pending[q][y]
           /\ \A y \in DOMAIN pending[q] : y \in DOMAIN pending'[q] \/ y = x
    BY <1>5
  <1>7. OneSave'
    <2>1. pending[r] # Nothing
      BY <1>1 DEF Nothing
    <2> QED
      BY <1>5, <2>1 DEF CopiesAgree, OneSave
  <1>8. \A w \in Workflows : \A value : Recorded(w, value)' = Recorded(w, value)
    BY <1>2 DEF Recorded, Underway
  <1>9. SavesCurrent'
    <2>1. \A q \in Requests : DOMAIN pending[q] \subseteq Workflows
      BY PartialType DEF PersistenceTypeOK
    <2> QED
      BY <1>2, <1>6, <1>8, <2>1 DEF CopiesAgree, SavesCurrent
  <1>10. RowsWritten'
    <2> SUFFICES ASSUME NEW w \in Workflows, status[w] # "draft",
                        \A q \in Requests : w \notin DOMAIN pending'[q]
                 PROVE  /\ row'[w] # NoRow
                        /\ Recorded(w, row'[w].status)
                        /\ w \in store => row'[w].stages = stages[w]
                        /\ ~diskStale /\ w \in disk.keys => disk.status[w] = row'[w].status
      BY <1>2, <1>8 DEF RowsWritten, Recorded, Underway
    <2>1. CASE w = x
      BY <1>3, <1>4, <2>1 DEF NoRow
    <2>2. CASE w # x
      BY <1>4, <1>6, <2>2 DEF CopiesAgree, RowsWritten
    <2> QED
      BY <2>1, <2>2
  <1>11. RowsPlanned'
    BY <1>2, <1>3, <1>4 DEF CopiesAgree, RowsPlanned, PlannedOnce
  <1>12. EvictedFinal' /\ FileCurrent'
    BY <1>2 DEF CopiesAgree, EvictedFinal, FileCurrent
  <1>13. BootCurrent'
    <2>1. boot.phase = "read" => DOMAIN boot.status \subseteq Workflows
      BY BootType, PartialType
    <2> QED
      BY <1>1, <1>2, <1>3, <1>4, <2>1 DEF CopiesAgree, BootCurrent
  <1> QED
    BY <1>7, <1>9, <1>10, <1>11, <1>12, <1>13 DEF CopiesAgree

-----------------------------------------------------------------------------
(* Start *)

LEMMA ReadCopies ==
    ASSUME PersistenceTypeOK, BootRows, CopiesAgree,
           UNCHANGED <<vars, row, pending>>, BootRows',
           \/ BootRead
           \/ \E w \in Workflows : BootStages(w)
    PROVE  CopiesAgree'
  <1>1. UNCHANGED <<store, status, stages, req, disk, diskStale>>
    BY DEF vars
  <1>2. \A w \in Workflows : \A value : Recorded(w, value)' = Recorded(w, value)
    BY <1>1 DEF Recorded, Underway
  <1>3. SavesCurrent'
    <2>1. \A q \in Requests : DOMAIN pending[q] \subseteq Workflows
      BY PartialType DEF PersistenceTypeOK
    <2> QED
      BY <1>1, <1>2, <2>1 DEF CopiesAgree, SavesCurrent
  <1>4. OneSave' /\ RowsWritten' /\ RowsPlanned' /\ EvictedFinal' /\ FileCurrent'
    BY <1>1, <1>2 DEF CopiesAgree, OneSave, RowsWritten, RowsPlanned, EvictedFinal, FileCurrent
  <1>5. BootCurrent'
    <2>1. CASE BootRead /\ boot'.phase = "read"
      <3>1. /\ boot'.status = [w \in {x \in Workflows : row[x] # NoRow} |-> row[w].status]
            /\ boot'.stages = [w \in {} |-> NoStages]
        BY <2>1 DEF BootRead
      <3> QED
        BY <1>1, <3>1 DEF BootCurrent
    <2>2. ASSUME NEW x \in Workflows, BootStages(x) PROVE BootCurrent'
      <3>1. boot = [phase |-> "read", status |-> boot.status, stages |-> boot.stages]
        BY <2>2, BootType DEF BootStages
      <3>2. /\ boot.phase = "read" /\ boot'.status = boot.status
            /\ boot'.stages = [y \in DOMAIN boot.stages \cup {x} |->
                                 IF y = x THEN row[x].stages ELSE boot.stages[y]]
        BY <2>2, <3>1 DEF BootStages
      <3> QED
        BY <1>1, <3>2 DEF CopiesAgree, BootCurrent
    <2>3. CASE BootRead /\ boot'.phase # "read"
      BY <2>3 DEF BootCurrent
    <2> QED
      BY <2>1, <2>2, <2>3
  <1> QED
    BY <1>3, <1>4, <1>5 DEF CopiesAgree

\* What the bootstrap adds to the store is what was evicted.
LEMMA InsertCopies ==
    ASSUME TypeOK, PersistenceTypeOK, BootRows, MachineAgrees, CopiesAgree, BootInsert
    PROVE  /\ CopiesAgree' /\ status' = status /\ UNCHANGED <<req, disk>>
           /\ store \subseteq store'
           /\ \A w \in store' \ store : status[w] \in Final
  <1>1. /\ boot.phase = "read" /\ DOMAIN boot.status \subseteq Workflows
        /\ DOMAIN boot.stages = DOMAIN boot.status
        /\ store' = store \cup Missing /\ boot'.phase = "off"
        /\ \A w \in Workflows :
              /\ status'[w] = IF w \in Missing THEN boot.status[w] ELSE status[w]
              /\ stages'[w] = IF w \in Missing THEN boot.stages[w] ELSE stages[w]
        /\ UNCHANGED <<req, disk, diskStale, row, pending>>
    BY BootType, PartialType DEF BootInsert
  <1>2. \A q \in Requests : DOMAIN pending[q] \subseteq Workflows \cap store
    BY PartialType DEF PersistenceTypeOK, CopiesAgree, SavesCurrent
  <1>3. ASSUME NEW w \in Missing
        PROVE  /\ w \in Workflows /\ w \notin store /\ row[w] # NoRow
               /\ boot.status[w] = row[w].status /\ boot.stages[w] = row[w].stages
               /\ row[w].status = status[w] /\ status[w] \in Final
    <2>1. /\ w \in Workflows /\ w \notin store /\ row[w] # NoRow
          /\ boot.status[w] = row[w].status /\ boot.stages[w] = row[w].stages
      BY <1>1 DEF Missing, BootRows, CopiesAgree, BootCurrent
    <2>2. status[w] \in Final /\ status[w] # "running"
      BY <2>1 DEF CopiesAgree, RowsPlanned, EvictedFinal, Final
    <2>3. Recorded(w, row[w].status)
      BY <1>2, <2>1 DEF CopiesAgree, RowsWritten, RowsPlanned
    <2> QED
      BY <2>1, <2>2, <2>3 DEF Recorded
  <1>4. \A w \in Workflows : status'[w] = status[w]
    BY <1>1, <1>3
  <1>5. status' = status
    BY <1>4 DEF BootInsert, TypeOK
  <1>6. \A w \in Workflows : \A value : Recorded(w, value)' = Recorded(w, value)
    BY <1>1, <1>5 DEF Recorded, Underway
  <1>7. OneSave' /\ RowsPlanned' /\ EvictedFinal' /\ BootCurrent'
    BY <1>1, <1>5 DEF CopiesAgree, OneSave, RowsPlanned, EvictedFinal, BootCurrent
  <1>8. SavesCurrent'
    BY <1>1, <1>2, <1>6 DEF CopiesAgree, SavesCurrent
  <1>9. RowsWritten'
    <2>1. \A w \in Workflows : w \in store' /\ row[w] # NoRow =>
             ((w \in store => row[w].stages = stages[w]) => row[w].stages = stages'[w])
      BY <1>1, <1>3 DEF Missing
    <2> QED
      BY <1>1, <1>5, <1>6, <2>1 DEF CopiesAgree, RowsWritten
  <1>10. FileCurrent'
    <2>1. ~diskStale => disk.keys \subseteq store
      BY DEF CopiesAgree, FileCurrent
    <2>2. \A w \in store : w \in Workflows /\ stages'[w] = stages[w]
      BY <1>1 DEF Missing, TypeOK
    <2> QED
      BY <1>1, <1>3, <1>5, <2>1, <2>2 DEF CopiesAgree, FileCurrent
  <1>11. \A w \in store' \ store : status[w] \in Final
    BY <1>1, <1>3
  <1> QED
    BY <1>1, <1>5, <1>7, <1>8, <1>9, <1>10, <1>11 DEF CopiesAgree

\* A restart that finds a current file and no save under way.
LEMMA RestartCopies ==
    ASSUME TypeOK, PersistenceTypeOK, PlannedOnce, CopiesAgree, Restart, ~disturbed'
    PROVE  /\ CopiesAgree'
           /\ store' \subseteq store
           /\ \A w \in Workflows :
                 status'[w] = status[w] \/ (w \in store' /\ status[w] = "running")
  <1>1. /\ \A q \in Requests : pending[q] = Nothing /\ pending'[q] = Nothing
        /\ ~diskStale /\ ~diskStale' /\ row' = row /\ boot'.phase = "asked"
        /\ store' = disk.keys /\ disk' = disk
        /\ \A w \in Workflows :
              /\ status'[w] = IF w \in disk.keys THEN disk.status[w] ELSE status[w]
              /\ stages'[w] = IF w \in disk.keys THEN disk.stages[w] ELSE stages[w]
    BY DEF Restart, Crash, SavePending
  <1>2. /\ disk.keys \subseteq store /\ store \subseteq Workflows
        /\ \A w \in store \ disk.keys : status[w] \in Final
        /\ \A w \in disk.keys : disk.stages[w] = stages[w]
    BY <1>1 DEF CopiesAgree, FileCurrent, TypeOK
  <1>3. ASSUME NEW w \in Workflows, status[w] # "draft"
        PROVE  /\ row[w] # NoRow /\ Recorded(w, row[w].status)
               /\ w \in store => row[w].stages = stages[w]
               /\ w \in disk.keys => disk.status[w] = row[w].status
    BY <1>1, <1>3 DEF CopiesAgree, RowsWritten, Nothing
  <1>4. \A w \in store : status[w] # "draft"
    BY DEF PlannedOnce
  <1>5. ASSUME NEW w \in Workflows, status[w] # "draft"
        PROVE  /\ status'[w] = row[w].status /\ status'[w] # "draft"
               /\ status'[w] = status[w] \/ (w \in store' /\ status[w] = "running")
    <2>1. CASE w \in disk.keys
      BY <1>1, <1>3, <1>5, <2>1 DEF PlannedOnce, Recorded
    <2>2. CASE w \notin disk.keys
      <3>1. status[w] \in Final
        BY <1>2, <1>5, <2>2 DEF CopiesAgree, EvictedFinal
      <3> QED
        BY <1>1, <1>3, <1>5, <2>2, <3>1 DEF Recorded, Final
    <2> QED
      BY <2>1, <2>2
  <1>6. \A w \in Workflows : status[w] = "draft" => status'[w] = "draft" /\ w \notin store
    BY <1>1, <1>2, <1>4
  <1>7. OneSave' /\ SavesCurrent'
    BY <1>1 DEF OneSave, SavesCurrent, Nothing
  <1>8. RowsWritten'
    BY <1>1, <1>2, <1>3, <1>5, <1>6 DEF RowsWritten, Recorded
  <1>9. RowsPlanned' /\ BootCurrent'
    BY <1>1, <1>5, <1>6 DEF CopiesAgree, RowsPlanned, BootCurrent
  <1>10. EvictedFinal'
    BY <1>1, <1>2, <1>6 DEF CopiesAgree, EvictedFinal
  <1>11. FileCurrent'
    BY <1>1, <1>2 DEF FileCurrent
  <1> QED
    BY <1>1, <1>2, <1>5, <1>6, <1>7, <1>8, <1>9, <1>10, <1>11 DEF CopiesAgree

-----------------------------------------------------------------------------
(* The limit on active workflows *)

LEMMA CountsFinite ==
    ASSUME TypeOK, NEW u \in Users
    PROVE  /\ IsFiniteSet(Active(u)) /\ IsFiniteSet(Planning(u)) /\ IsFiniteSet(Requests)
           /\ Cardinality(Active(u)) \in Nat /\ Cardinality(Planning(u)) \in Nat
           /\ Cardinality(Requests) \in Nat
           /\ Cardinality(Planning(u)) <= Cardinality(Requests)
  <1>1. Active(u) \subseteq Workflows /\ Planning(u) \subseteq Requests
    BY DEF Active, Planning, TypeOK
  <1> QED
    BY <1>1, FS_Subset, FS_CardinalityType, ServiceAssumption

\* Fewer of both keep the bound.
LEMMA FewerPlans ==
    ASSUME TypeOK, PlansBounded, NEW u \in Users,
           Active(u)' \subseteq Active(u), Planning(u)' \subseteq Planning(u)
    PROVE  Cardinality(Active(u)') + Cardinality(Planning(u)')
              <= MaxActive - 1 + Cardinality(Requests)
  <1>1. /\ Cardinality(Active(u)') <= Cardinality(Active(u))
        /\ Cardinality(Planning(u)') <= Cardinality(Planning(u))
        /\ Cardinality(Active(u)') \in Nat /\ Cardinality(Planning(u)') \in Nat
    BY CountsFinite, FS_Subset, FS_CardinalityType
  <1> QED
    BY <1>1, CountsFinite, ServiceAssumption DEF PlansBounded

\* The test of the limit and what is stored after it.
LEMMA ServicePlans ==
    ASSUME TypeOK, TypeOK', MachineAgrees, PhaseOfOp, PlannedOnce, PlansBounded,
           [AnyNext]_vars, ~Crash
    PROVE  PlansBounded'
  <1> SUFFICES ASSUME NEW u \in Users
               PROVE  Cardinality(Active(u)') + Cardinality(Planning(u)')
                         <= MaxActive - 1 + Cardinality(Requests)
    BY DEF PlansBounded
  <1>1. /\ \A r \in Requests : req[r] \in Call \cup {Idle}
        /\ store \subseteq Workflows /\ store' \subseteq Workflows
    BY DEF TypeOK
  <1>2. \A w \in Workflows : status[w] \in Final => status'[w] \in Final
    BY FinalStays
  <1>3. ASSUME store' = store PROVE Active(u)' \subseteq Active(u)
    BY <1>1, <1>2, <1>3 DEF Active
  <1>4. ASSUME NEW r \in Requests, NEW w \in Workflows, PlanCheck(r, w), Owner[w] = u
        PROVE  Cardinality(Active(u)') + Cardinality(Planning(u)')
                  <= MaxActive - 1 + Cardinality(Requests)
    <2>1. Cardinality(Active(u)) < MaxActive /\ UNCHANGED <<store, status>>
      BY <1>4 DEF PlanCheck, UnderLimit, memory
    <2>2. Active(u)' = Active(u)
      BY <2>1 DEF Active
    <2>3. /\ Cardinality(Planning(u)') <= Cardinality(Requests)
          /\ Cardinality(Planning(u)') \in Nat
      <3>1. Planning(u)' \subseteq Requests
        BY DEF Planning
      <3> QED
        BY <3>1, FS_Subset, FS_CardinalityType, ServiceAssumption
    <2> QED
      BY <2>1, <2>2, <2>3, CountsFinite, ServiceAssumption
  <1>5. ASSUME NEW r \in Requests, PlanStore(r), Owner[req[r].wf] = u
        PROVE  Cardinality(Active(u)') + Cardinality(Planning(u)')
                  <= MaxActive - 1 + Cardinality(Requests)
    <2>1. Active(u)' \subseteq Active(u) \cup {req[r].wf}
      <3>1. PICK evicted \in SUBSET {x \in store : status[x] \in Final} :
               store' = (store \ evicted) \cup {req[r].wf}
        BY <1>5 DEF PlanStore
      <3> QED
        BY <1>1, <1>2, <3>1 DEF Active
    <2>2. r \in Planning(u) /\ Planning(u)' = Planning(u) \ {r}
      <3>1. req[r].pc = "planning" /\ Goto(r, "finishing")
        BY <1>5 DEF PlanStore
      <3> QED
        BY <1>5, <3>1, GotoEffect DEF Planning
    <2>3. /\ Cardinality(Active(u)') <= Cardinality(Active(u)) + 1
          /\ Cardinality(Active(u)') \in Nat
      <3> DEFINE more == Active(u) \cup {req[r].wf}
      <3>1. IsFiniteSet(Active(u)) /\ Cardinality(Active(u)) \in Nat
        BY CountsFinite
      <3>2. IsFiniteSet(more) /\ Cardinality(more) <= Cardinality(Active(u)) + 1
        <4>1. /\ IsFiniteSet(more)
              /\ Cardinality(more) = Cardinality(Active(u))
                    \/ Cardinality(more) = Cardinality(Active(u)) + 1
          BY <3>1, FS_AddElement
        <4> QED
          BY <3>1, <4>1
      <3> QED
        BY <2>1, <3>2, FS_Subset, FS_CardinalityType
    <2>4. Cardinality(Planning(u)') = Cardinality(Planning(u)) - 1
      BY <2>2, CountsFinite, FS_RemoveElement
    <2> QED
      BY <2>3, <2>4, CountsFinite, ServiceAssumption DEF PlansBounded
  <1>6. ASSUME Active(u)' \subseteq Active(u),
               \A q \in Requests : req'[q].pc = "planning" /\ Owner[req'[q].wf] = u =>
                  req[q].pc = "planning" /\ Owner[req[q].wf] = u
        PROVE  Cardinality(Active(u)') + Cardinality(Planning(u)')
                  <= MaxActive - 1 + Cardinality(Requests)
    BY <1>6, FewerPlans DEF Planning
  <1>7. ASSUME NEW r \in Requests, PlanStore(r), Owner[req[r].wf] # u
        PROVE  Cardinality(Active(u)') + Cardinality(Planning(u)')
                  <= MaxActive - 1 + Cardinality(Requests)
    <2>1. req[r].pc = "planning" /\ Goto(r, "finishing")
      BY <1>7 DEF PlanStore
    <2>2. Active(u)' \subseteq Active(u)
      <3>1. PICK evicted \in SUBSET {x \in store : status[x] \in Final} :
               store' = (store \ evicted) \cup {req[r].wf}
        BY <1>7 DEF PlanStore
      <3> QED
        BY <1>1, <1>2, <1>7, <3>1 DEF Active
    <2> QED
      BY <1>6, <2>1, <2>2, GotoEffect
  <1>8. ASSUME \A r \in Requests : ~PlanStore(r),
               \A r \in Requests : \A w \in Workflows : PlanCheck(r, w) => Owner[w] # u
        PROVE  Cardinality(Active(u)') + Cardinality(Planning(u)')
                  <= MaxActive - 1 + Cardinality(Requests)
    <2>1. store' = store
      BY <1>8, StoreStep
    <2>2. ASSUME NEW q \in Requests, req'[q].pc = "planning", Owner[req'[q].wf] = u
          PROVE  req[q].pc = "planning" /\ Owner[req[q].wf] = u
      <3>1. ASSUME NEW r \in Requests, Starts(r) PROVE req'[q] = req[q]
        <4>1. CASE q # r
          BY <3>1, <4>1, StartEffect
        <4>2. CASE q = r
          <5>1. PICK w \in Workflows :
                   \/ PlanCheck(r, w)
                   \/ \E op \in LockedOp, s \in Stages \cup {0}, report \in StageStatus :
                         Submit(r, op, w, s, report)
                   \/ \E op \in ControlOp : SubmitControl(r, op, w)
            BY <3>1 DEF Starts
          <5>2. PlanCheck(r, w) => req'[q].wf = w
            BY <4>2 DEF PlanCheck, TypeOK
          <5>3. ~PlanCheck(r, w) => req'[q].pc # "planning"
            BY <4>2, <5>1 DEF Submit, SubmitControl, TypeOK
          <5> QED
            BY <1>8, <2>2, <5>2, <5>3
        <4> QED
          BY <4>1, <4>2
      <3>2. ASSUME NEW r \in Requests, Reply(r) PROVE req'[q] = req[q]
        BY <2>2, <3>2, ReplyEffect
      <3>3. ASSUME NEW r \in Requests, NEW phase \in {"posting", "finishing"},
                   Goto(r, phase), req[r].pc # "idle"
            PROVE  req'[q] = req[q]
        BY <2>2, <3>3, GotoEffect
      <3>4. \A r \in Requests : DispatchStart(r) \/ Finishes(r) => req[r].pc # "idle"
        BY DEF DispatchStart, Finishes, PlanStore, DispatchSent, StageReport, Complete, Control
      <3>5. CASE UNCHANGED req
        BY <2>2, <3>5
      <3> QED
        BY <2>2, <3>1, <3>2, <3>3, <3>4, <3>5, ReqSteps DEF ReqStep, Finishes
    <2> QED
      BY <1>3, <1>6, <2>1, <2>2
  <1> QED
    BY <1>4, <1>5, <1>7, <1>8

-----------------------------------------------------------------------------
(* Persistence: the theorems *)

LEMMA InitPersistence == PersistenceInit => PersistenceInductive
  <1> SUFFICES ASSUME PersistenceInit PROVE PersistenceInductive
    OBVIOUS
  <1> USE ServiceAssumption
  <1>1. Inductive
    BY InitInductive DEF PersistenceInit
  <1>2. /\ row = [w \in Workflows |-> NoRow] /\ pending = [r \in Requests |-> Nothing]
        /\ boot = [phase |-> "asked"] /\ disturbed = FALSE
        /\ store = {} /\ status = [w \in Workflows |-> "draft"]
        /\ disk = [keys |-> {}, status |-> status, stages |-> stages]
        /\ req = [r \in Requests |-> Idle]
    BY DEF PersistenceInit, Init
  <1>3. PersistenceTypeOK
    <2>1. Nothing \in Partial(WorkflowState)
      BY PartialType DEF Nothing
    <2> QED
      BY <1>2, <2>1 DEF PersistenceTypeOK, Boot
  <1>4. BootRows
    BY <1>2 DEF BootRows
  <1>5. CopiesAgree
    BY <1>2 DEF CopiesAgree, OneSave, SavesCurrent, RowsWritten, RowsPlanned, EvictedFinal,
       FileCurrent, BootCurrent, Nothing
  <1>6. PlansBounded
    <2>1. \A u \in Users : Active(u) = {} /\ Planning(u) = {}
      BY <1>2 DEF Active, Planning, Idle
    <2>2. Cardinality({}) = 0 /\ Cardinality(Requests) \in Nat /\ MaxActive \in Nat \ {0}
      BY FS_EmptySet, FS_CardinalityType
    <2>3. 0 + 0 <= MaxActive - 1 + Cardinality(Requests)
      BY <2>2
    <2> SUFFICES ASSUME NEW u \in Users
                 PROVE  Cardinality(Active(u)) + Cardinality(Planning(u))
                           <= MaxActive - 1 + Cardinality(Requests)
      BY DEF PlansBounded
    <2>4. Cardinality(Active(u)) = 0 /\ Cardinality(Planning(u)) = 0
      BY <2>1, <2>2
    <2> QED
      BY <2>3, <2>4
  <1> QED
    BY <1>1, <1>3, <1>4, <1>5, <1>6 DEF PersistenceInductive, Undisrupted, Inductive

\* A step of neither kind of start counts no crash.
LEMMA ServiceStep ==
    ASSUME TypeOK, [PersistenceNext]_fullVars, ~BootInsert, ~Restart
    PROVE  [AnyNext]_vars /\ ~Crash
  <1>1. ASSUME NEW r \in Requests, SaveStep(r) \/ EndStep(r) \/ OtherStep(r)
        PROVE  crashes' = crashes
    BY <1>1 DEF SaveStep, PlanStore, DispatchSent, StageReport, Complete, Control, EndStep, Finish,
       OtherStep, Arrive, PlanCheck, Submit, SubmitControl, RejectLocked, RejectUnlocked,
       DispatchStart
  <1>2. ASSUME NEW r \in Requests, NEW w \in Workflows, WriteRow(r, w) PROVE crashes' = crashes
    BY <1>2 DEF WriteRow, vars
  <1>3. ASSUME NEW w \in Workflows, SupervisorTimeout(w) \/ BootStages(w)
        PROVE  crashes' = crashes
    BY <1>3 DEF SupervisorTimeout, BootStages, vars
  <1>4. BootRead \/ UNCHANGED fullVars => crashes' = crashes
    BY DEF BootRead, fullVars, vars
  <1>5. crashes' = crashes
    BY <1>1, <1>2, <1>3, <1>4 DEF PersistenceNext
  <1> QED
    BY <1>5, PersistenceIsAny DEF Crash, TypeOK

\* Each kind of step keeps the copies in order.
LEMMA NextCopies ==
    ASSUME TypeOK, TypeOK', PersistenceTypeOK, BootRows, BootRows', MachineAgrees, PhaseOfOp,
           PlannedOnce, CopiesAgree, [PersistenceNext]_fullVars, ~disturbed, ~disturbed'
    PROVE  CopiesAgree'
  <1>1. ASSUME NEW r \in Requests, SaveStep(r) PROVE CopiesAgree'
    BY <1>1, SaveCopies
  <1>2. ASSUME NEW r \in Requests, NEW w \in Workflows, WriteRow(r, w) PROVE CopiesAgree'
    BY <1>2, WriteCopies
  <1>3. ASSUME NEW r \in Requests, DispatchStart(r), UNCHANGED persistVars PROVE CopiesAgree'
    BY <1>3, StartCopies
  <1>4. ASSUME UNCHANGED <<memory, disk, diskStale>>, UNCHANGED persistVars,
               NEW r \in Requests, req[r].pc # "posting",
               \A q \in Requests \ {r} : req'[q] = req[q]
        PROVE  CopiesAgree'
    <2>1. \A w \in Workflows : Underway(w) => Underway(w)'
      BY <1>4 DEF Underway
    <2> QED
      BY <1>4, <2>1, QuietCopies DEF persistVars
  <1>5. ASSUME NEW r \in Requests, Arrive(r), UNCHANGED persistVars PROVE CopiesAgree'
    <2>1. Starts(r)
      BY <1>5, ArriveIsStart
    <2>2. req[r].pc # "posting"
      BY <2>1 DEF Starts, Idle
    <2> QED
      BY <1>4, <1>5, <2>1, <2>2, StartEffect
  <1>6. ASSUME NEW r \in Requests, RejectLocked(r) \/ RejectUnlocked(r) \/ Finish(r),
               UNCHANGED persistVars
        PROVE  CopiesAgree'
    <2>1. /\ Reply(r) /\ req[r].pc # "posting"
          /\ UNCHANGED <<memory, disk, diskStale>>
      BY <1>6 DEF RejectLocked, RejectUnlocked, Finish
    <2> QED
      BY <1>4, <1>6, <2>1, ReplyEffect
  <1>7. ASSUME UNCHANGED <<memory, disk, diskStale, req>>, UNCHANGED persistVars
        PROVE  CopiesAgree'
    BY <1>7, QuietCopies DEF persistVars, Underway
  <1>8. ASSUME NEW w \in Workflows, SupervisorTimeout(w), UNCHANGED persistVars
        PROVE  CopiesAgree'
    BY <1>7, <1>8 DEF SupervisorTimeout
  <1>9. ASSUME BootRead \/ \E w \in Workflows : BootStages(w) PROVE CopiesAgree'
    <2>1. UNCHANGED <<vars, row, pending>>
      BY <1>9 DEF BootRead, BootStages
    <2> QED
      BY <1>9, <2>1, ReadCopies
  <1>10. CASE BootInsert
    BY <1>10, InsertCopies
  <1>11. CASE Restart
    BY <1>11, RestartCopies
  <1>12. CASE UNCHANGED fullVars
    BY <1>7, <1>12 DEF fullVars, vars, memory
  <1>13. ASSUME NEW r \in Requests, EndStep(r) \/ OtherStep(r) PROVE CopiesAgree'
    BY <1>3, <1>5, <1>6, <1>13 DEF EndStep, OtherStep
  <1> QED
    BY <1>1, <1>2, <1>8, <1>9, <1>10, <1>11, <1>12, <1>13 DEF PersistenceNext

LEMMA NextPlansBounded ==
    ASSUME TypeOK, TypeOK', PersistenceTypeOK, BootRows, MachineAgrees, PhaseOfOp,
           PlannedOnce, CopiesAgree, PlansBounded,
           [PersistenceNext]_fullVars, ~disturbed, ~disturbed'
    PROVE  PlansBounded'
  <1>1. CASE BootInsert
    <2> SUFFICES ASSUME NEW u \in Users
                 PROVE  Cardinality(Active(u)') + Cardinality(Planning(u)')
                           <= MaxActive - 1 + Cardinality(Requests)
      BY DEF PlansBounded
    <2>1. /\ status' = status /\ req' = req
          /\ \A w \in store' \ store : status[w] \in Final
      BY <1>1, InsertCopies
    <2>2. Active(u)' \subseteq Active(u) /\ Planning(u)' \subseteq Planning(u)
      BY <2>1 DEF Active, Planning
    <2> QED
      BY <2>2, FewerPlans
  <1>2. CASE Restart
    <2> SUFFICES ASSUME NEW u \in Users
                 PROVE  Cardinality(Active(u)') + Cardinality(Planning(u)')
                           <= MaxActive - 1 + Cardinality(Requests)
      BY DEF PlansBounded
    <2>1. /\ store' \subseteq store /\ store \subseteq Workflows
          /\ \A w \in Workflows :
                status'[w] = status[w] \/ (w \in store' /\ status[w] = "running")
      BY <1>2, RestartCopies DEF TypeOK
    <2>2. Planning(u)' = {}
      BY <1>2 DEF Restart, Crash, Planning, Idle
    <2>3. Active(u)' \subseteq Active(u)
      BY <2>1 DEF Active, Final
    <2> QED
      BY <2>2, <2>3, FewerPlans
  <1>3. CASE ~BootInsert /\ ~Restart
    <2>1. [AnyNext]_vars /\ ~Crash
      BY <1>3, ServiceStep
    <2> QED
      BY <2>1, ServicePlans
  <1> QED
    BY <1>1, <1>2, <1>3

LEMMA NextPersistenceInductive ==
    PersistenceInductive /\ [PersistenceNext]_fullVars => PersistenceInductive'
  <1> SUFFICES ASSUME PersistenceInductive, [PersistenceNext]_fullVars
               PROVE  PersistenceInductive'
    OBVIOUS
  <1> USE DEF PersistenceInductive
  <1>1. TypeOK' /\ MachineAgrees'
    BY PersistenceIsAny, InsertEffect, NextType, NextMachineAgrees
  <1>2. PersistenceTypeOK'
    BY <1>1, NextPersistenceType
  <1>3. BootRows'
    BY NextBootRows
  <1>4. PhaseOfOp' /\ LockDiscipline'
    <2>1. CASE [AnyNext]_vars
      BY <2>1, NextPhaseOfOp, NextLockDiscipline
    <2>2. CASE BootInsert
      BY <2>2, InsertEffect DEF PhaseOfOp, LockDiscipline, HoldsLock
    <2> QED
      BY <2>1, <2>2, PersistenceIsAny
  <1>5. ASSUME ~disturbed' PROVE Undisrupted'
    <2>1. ~disturbed
      BY <1>5 DEF PersistenceNext, SaveStep, WriteRow, EndStep, OtherStep, BootRead, BootStages,
         BootInsert, Restart, persistVars, fullVars
    <2>2. Undisrupted
      BY <2>1
    <2>3. CopiesAgree'
      BY <1>1, <1>3, <1>5, <2>1, <2>2, NextCopies DEF Undisrupted
    <2>4. PlansBounded'
      BY <1>1, <1>5, <2>1, <2>2, NextPlansBounded DEF Undisrupted
    <2>5. PlannedOnce' /\ NeverReporting' /\ DispatchUnderway'
      <3>1. CASE [AnyNext]_vars
        BY <2>2, <3>1, NextPlannedOnce, NextNeverReporting, NextDispatchUnderway DEF Undisrupted
      <3>2. CASE BootInsert
        <4>1. /\ status' = status /\ UNCHANGED <<req, disk>> /\ store \subseteq store'
              /\ \A w \in store' \ store : status[w] \in Final
          BY <2>2, <3>2, InsertCopies DEF Undisrupted
        <4>2. \A w \in store' : status[w] # "draft"
          BY <2>2, <4>1 DEF Undisrupted, PlannedOnce, Final
        <4> QED
          BY <2>2, <4>1, <4>2 DEF Undisrupted, PlannedOnce, NeverReporting, DispatchUnderway
      <3> QED
        BY <3>1, <3>2, PersistenceIsAny
    <2> QED
      BY <2>3, <2>4, <2>5 DEF Undisrupted
  <1> QED
    BY <1>1, <1>2, <1>3, <1>4, <1>5

\* The five copies of a workflow agree until a row may be stale, and the plans
\* let in are bounded.
THEOREM PersistenceInductiveAlways == PersistenceSpec => []PersistenceInductive
  BY InitPersistence, NextPersistenceInductive, PTL DEF PersistenceSpec

\* Every variable keeps its type, those of the service and those of the
\* database.
THEOREM PersistenceTypeCorrect == PersistenceSpec => [](TypeOK /\ PersistenceTypeOK)
  <1>1. PersistenceInductive => TypeOK /\ PersistenceTypeOK
    BY DEF PersistenceInductive
  <1> QED
    BY <1>1, PersistenceInductiveAlways, PTL

\* Between two saves the rows have what the memory has, of evicted workflows
\* too.
THEOREM RowsCurrentAlways == PersistenceSpec => []RowsCurrent
  <1>1. PersistenceInductive => RowsCurrent
    <2> SUFFICES ASSUME PersistenceInductive, ~disturbed, ~SavePending, NEW w \in Workflows,
                        status[w] # "draft"
                 PROVE  /\ row[w] # NoRow
                        /\ w \in store => row[w].stages = stages[w]
                        /\ row[w].status # status[w] =>
                              /\ status[w] = "running"
                              /\ \E r \in Requests : req[r].pc = "posting" /\ req[r].wf = w
      BY DEF RowsCurrent
    <2>1. \A r \in Requests : w \notin DOMAIN pending[r]
      BY DEF SavePending, Nothing
    <2> QED
      BY <2>1 DEF PersistenceInductive, Undisrupted, CopiesAgree, RowsWritten, Recorded, Underway
  <1> QED
    BY <1>1, PersistenceInductiveAlways, PTL

\* Concurrent plans pass a user's limit by one less than the number of
\* requests at most, with any number of restarts.
THEOREM CapOvershootBoundedAlways == PersistenceSpec => []CapOvershootBounded
  <1>1. PersistenceInductive => CapOvershootBounded
    BY DEF PersistenceInductive, Undisrupted, PlansBounded, CapOvershootBounded
  <1> QED
    BY <1>1, PersistenceInductiveAlways, PTL

\* Neither a step of the service, nor a restart, nor the bootstrap revives a
\* workflow that has ended.
THEOREM NoRevivalAlways == PersistenceSpec => NoRevival
  <1> DEFINE Kept == ~disturbed' => \A w \in Workflows :
                        status[w] \in Final => status'[w] = status[w]
  <1>1. PersistenceInductive /\ [PersistenceNext]_fullVars => [Kept]_fullVars
    <2> SUFFICES ASSUME PersistenceInductive, [PersistenceNext]_fullVars, ~disturbed',
                        NEW w \in Workflows, status[w] \in Final
                 PROVE  status'[w] = status[w]
      OBVIOUS
    <2>1. ~disturbed
      BY DEF PersistenceNext, SaveStep, WriteRow, EndStep, OtherStep, BootRead, BootStages,
         BootInsert, Restart, persistVars, fullVars
    <2>2. Undisrupted
      BY <2>1 DEF PersistenceInductive
    <2>3. CASE BootInsert
      BY <2>2, <2>3, InsertCopies DEF PersistenceInductive, Undisrupted
    <2>4. CASE Restart
      BY <2>2, <2>4, RestartCopies DEF PersistenceInductive, Undisrupted, Final
    <2>5. CASE ~BootInsert /\ ~Restart
      <3>1. [AnyNext]_vars /\ ~Crash
        BY <2>5, ServiceStep DEF PersistenceInductive
      <3> QED
        BY <2>2, <3>1, FinalStays DEF PersistenceInductive, Undisrupted
    <2> QED
      BY <2>3, <2>4, <2>5
  <1> QED
    BY <1>1, PersistenceInductiveAlways, PTL DEF PersistenceSpec, NoRevival

===============================================================================
