--------------------------- MODULE WorkflowService ---------------------------
(***************************************************************************)
(* The workflow service (services/workflow/src/index.ts): the in-memory    *)
(* store of workflows, the HTTP handlers that drive them, and the store    *)
(* file the handlers rewrite.                                              *)
(*                                                                         *)
(* The service is one Node.js process, so what a handler does between two  *)
(* awaits is atomic: every action below is such a stretch.  Dispatch,      *)
(* stage report and complete run under the per-workflow lock               *)
(* (withWorkflowLock, given here as a FIFO queue whose head holds the      *)
(* lock; module WorkflowLock shows that the promise chain is one).  Plan,  *)
(* pause, resume, cancel and fail do not take it.                          *)
(*                                                                         *)
(* A handler that replies without touching the state is not a step.        *)
(***************************************************************************)
EXTENDS WorkflowMachine, Integers, Sequences, FiniteSets

CONSTANTS
    Workflows,      \* workflow ids the planner may hand out
    Users,
    Owner,          \* the user each workflow id is planned for
    Requests,       \* HTTP requests in flight, each with its handler
    NStages,        \* length of a plan's stage chain
    ClientOps,      \* the operations on a planned workflow that clients call
    ReportStatus,   \* the stage statuses reported to the service
    MaxActive,      \* MAX_ACTIVE_WORKFLOWS_PER_USER
    MaxStore,       \* WORKFLOW_STORE_MAX_SIZE
    EvictBatch,     \* terminal workflows dropped at once when the store is full
    MaxCrashes      \* bound: process crashes

Stages == 1..NStages

StageStatus ==
    { "pending", "running", "completed", "failed", "waiting_user", "blocked",
      "verifying", "repairing", "paused" }

ASSUME ServiceAssumption ==
    /\ Owner \in [Workflows -> Users]
    /\ IsFiniteSet(Workflows)
    /\ IsFiniteSet(Requests)
    /\ NStages \in Nat
    /\ ClientOps \subseteq {"pause", "resume", "cancel", "fail", "dispatch", "complete"}
    /\ ReportStatus \subseteq StageStatus \ {"pending"}
    /\ MaxActive \in Nat \ {0}
    /\ MaxStore \in Nat \ {0}
    /\ EvictBatch \in Nat \ {0}
    /\ MaxCrashes \in Nat

LockedOp  == {"dispatch", "report", "complete"}
ControlOp == {"pause", "resume", "cancel", "fail"}
Op        == {"plan"} \cup LockedOp \cup ControlOp

(***************************************************************************)
(* Where a handler is: awaiting the planner; waiting for the lock;         *)
(* awaiting its body; awaiting the executor; or past its last change of    *)
(* the store, awaiting the database and the audit log.                     *)
(***************************************************************************)
Phase == {"planning", "queued", "reading", "posting", "finishing"}

Call == [pc: Phase, op: Op, wf: Workflows, stage: Stages \cup {0},
         report: StageStatus]
Idle == [pc |-> "idle"]

VARIABLES
    store,       \* keys of workflowStore
    status,      \* workflow.status
    machine,     \* state of workflow.machine
    stages,      \* workflow.stages, their statuses
    req,         \* the request handlers
    queue,       \* the lock of each workflow
    supervised,  \* workflows registered with the supervisor
    disk,        \* content of .runtime/workflow-store.json
    diskStale,   \* the last write of that file failed
    outcome,     \* rows of workflow_outcome_eval
    lost,        \* history: a restart loaded a stale file
    crashes      \* history: number of crashes

memory == <<store, status, machine, stages>>
vars == <<store, status, machine, stages, req, queue, supervised, disk,
          diskStale, outcome, lost, crashes>>

Content == [keys: SUBSET Workflows, status: [Workflows -> WorkflowState],
            stages: [Workflows -> [Stages -> StageStatus]]]

TypeOK ==
    /\ store \in SUBSET Workflows
    /\ status \in [Workflows -> WorkflowState]
    /\ machine \in [Workflows -> WorkflowState]
    /\ stages \in [Workflows -> [Stages -> StageStatus]]
    /\ req \in [Requests -> Call \cup {Idle}]
    /\ queue \in [Workflows -> Seq(Requests)]
    /\ supervised \in SUBSET Workflows
    /\ disk \in Content
    /\ diskStale \in BOOLEAN
    /\ outcome \in [Workflows -> SUBSET {"succeeded", "failed", "cancelled"}]
    /\ lost \in BOOLEAN
    /\ crashes \in 0..MaxCrashes

NoStages == [s \in Stages |-> "pending"]

Init ==
    /\ store = {}
    /\ status = [w \in Workflows |-> "draft"]
    /\ machine = [w \in Workflows |-> "draft"]
    /\ stages = [w \in Workflows |-> NoStages]
    /\ req = [r \in Requests |-> Idle]
    /\ queue = [w \in Workflows |-> <<>>]
    /\ supervised = {}
    /\ disk = [keys |-> {}, status |-> status, stages |-> stages]
    /\ diskStale = FALSE
    /\ outcome = [w \in Workflows |-> {}]
    /\ lost = FALSE
    /\ crashes = 0

-----------------------------------------------------------------------------
(* Helpers of the handlers *)

(* Definitions named Mutated... are wrong variants of the definition after   *)
(* them, each with a bug this code could have; a property that is worth its  *)
(* run is violated by one of them.                                           *)

MutatedHoldsLock(r) == req[r].pc # "idle"

\* The handler r is inside the lock of its workflow.
HoldsLock(r) ==
    /\ req[r].pc # "idle"
    /\ queue[req[r].wf] # <<>>
    /\ Head(queue[req[r].wf]) = r

Release(w) == queue' = [queue EXCEPT ![w] = Tail(@)]

Goto(r, phase) == req' = [req EXCEPT ![r].pc = phase]

Reply(r) == req' = [req EXCEPT ![r] = Idle]

MutatedTransition(w, event) ==
    /\ machine' = [machine EXCEPT ![w] = Send(@, event)]
    /\ status' = [status EXCEPT ![w] = Target(event)]

\* transitionWorkflow: the event is sent to the machine, and the status
\* follows when the machine moved.
Transition(w, event) ==
    /\ machine' = [machine EXCEPT ![w] = Send(@, event)]
    /\ status' = IF CanHandle(machine[w], event)
                 THEN [status EXCEPT ![w] = machine'[w]]
                 ELSE status

MutatedPersist ==
    /\ disk' = [keys |-> store', status |-> status, stages |-> stages']
    /\ diskStale' = FALSE

\* persistWorkflowStore, its synchronous half: the whole store is written to
\* a temporary file that is renamed over the old one.  A failure is caught
\* and logged, and the old file stays.
Persist ==
    \/ /\ disk' = [keys |-> store', status |-> status', stages |-> stages']
       /\ diskStale' = FALSE
    \/ /\ disk' = disk
       /\ diskStale' = TRUE

\* The workflows that count against a user's limit.
Active(u) == {w \in store : Owner[w] = u /\ status[w] \notin Final}

MutatedUnderLimit(u) == Cardinality(Active(u)) <= MaxActive

UnderLimit(u) == Cardinality(Active(u)) < MaxActive

Planning(u) ==
    {r \in Requests : req[r].pc = "planning" /\ Owner[req[r].wf] = u}

\* A workflow id no plan has used.
Fresh(w) ==
    /\ w \notin store
    /\ status[w] = "draft"
    /\ \A r \in Requests : req[r].pc = "planning" => req[r].wf # w

MutatedCompleteChain(state) == "succeeded"

\* What complete sends: VERIFY, REPORT and COMPLETE, each when the status
\* allows it.
CompleteChain(state) ==
    LET verified == IF state = "running" THEN Send(state, "VERIFY") ELSE state
        reported == IF verified = "verifying" THEN Send(verified, "REPORT")
                    ELSE verified
    IN  IF reported = "reporting" THEN Send(reported, "COMPLETE") ELSE reported

\* No stage is left that complete waits for.
Resolved(w) ==
    \A s \in Stages :
        stages[w][s] \in {"completed", "failed", "blocked", "waiting_user"}

-----------------------------------------------------------------------------
(* POST /internal/workflows/plan *)

\* The limit is tested, then the planner is awaited: it picks the id.
PlanCheck(r, w) ==
    /\ req[r] = Idle
    /\ Fresh(w)
    /\ UnderLimit(Owner[w])
    /\ req' = [req EXCEPT ![r] = [pc |-> "planning", op |-> "plan", wf |-> w,
                                  stage |-> 0, report |-> "pending"]]
    /\ UNCHANGED <<memory, queue, supervised, disk, diskStale, outcome, lost,
                   crashes>>

\* How many finished workflows a full store gives up: a batch, and one more
\* when that was not enough.
EvictCount ==
    LET finished == Cardinality({w \in store : status[w] \in Final})
        batch    == IF finished < EvictBatch THEN finished ELSE EvictBatch
    IN  IF Cardinality(store) < MaxStore THEN 0
        ELSE IF Cardinality(store) - batch >= MaxStore /\ batch < finished
        THEN batch + 1
        ELSE batch

\* The planner answered: make room, insert the workflow, save.
PlanStore(r) ==
    LET w == req[r].wf IN
    /\ req[r].pc = "planning"
    /\ \E evicted \in SUBSET {x \in store : status[x] \in Final} :
          /\ Cardinality(evicted) = EvictCount
          /\ store' = (store \ evicted) \cup {w}
    /\ machine' = [machine EXCEPT ![w] = Send("draft", "PLAN")]
    /\ status' = [status EXCEPT ![w] = "planned"]
    /\ stages' = [stages EXCEPT ![w] = NoStages]
    /\ Persist
    /\ Goto(r, "finishing")
    /\ UNCHANGED <<queue, supervised, outcome, lost, crashes>>

-----------------------------------------------------------------------------
(* Arrival of a request for a workflow whose id was handed out *)

\* dispatch, stage report, complete: take a place in the lock's queue.
Submit(r, op, w, s, report) ==
    /\ req[r] = Idle
    /\ status[w] # "draft"
    /\ req' = [req EXCEPT ![r] = [pc |-> "queued", op |-> op, wf |-> w,
                                  stage |-> s, report |-> report]]
    /\ queue' = [queue EXCEPT ![w] = Append(@, r)]
    /\ UNCHANGED <<memory, supervised, disk, diskStale, outcome, lost, crashes>>

\* pause, resume, cancel, fail: look the workflow up, then await the body.
SubmitControl(r, op, w) ==
    /\ req[r] = Idle
    /\ w \in store
    /\ req' = [req EXCEPT ![r] = [pc |-> "reading", op |-> op, wf |-> w,
                                  stage |-> 0, report |-> "pending"]]
    /\ UNCHANGED <<memory, queue, supervised, disk, diskStale, outcome, lost,
                   crashes>>

\* A locked handler that leaves without a change: the workflow or the stage
\* is unknown (404), the body cannot be read (500), the policy refuses (403),
\* or the state does (409; for complete, stages that are still open).
RejectLocked(r) ==
    LET w == req[r].wf IN
    /\ req[r].pc = "queued"
    /\ HoldsLock(r)
    /\ \/ w \notin store
       \/ req[r].op \in {"dispatch", "report"}
       \/ /\ req[r].op = "complete"
          /\ CompleteChain(status[w]) # "succeeded"
          /\ ~Resolved(w)
    /\ Reply(r)
    /\ Release(w)
    /\ UNCHANGED <<memory, supervised, disk, diskStale, outcome, lost, crashes>>

\* The same outside the lock: 403, 409, an unreadable body, a planner that
\* throws.
RejectUnlocked(r) ==
    /\ req[r].pc \in {"reading", "planning"}
    /\ Reply(r)
    /\ UNCHANGED <<memory, queue, supervised, disk, diskStale, outcome, lost,
                   crashes>>

-----------------------------------------------------------------------------
(* POST /internal/workflows/:ref/dispatch *)

\* START, in memory only; then the executor gateway is awaited.
DispatchStart(r) ==
    LET w == req[r].wf IN
    /\ req[r].pc = "queued"
    /\ req[r].op = "dispatch"
    /\ HoldsLock(r)
    /\ w \in store
    /\ CanHandle(machine[w], "START")
    /\ Transition(w, "START")
    /\ Goto(r, "posting")
    /\ UNCHANGED <<store, stages, queue, supervised, disk, diskStale, outcome,
                   lost, crashes>>

\* The gateway accepted, or could not be reached: the handler goes on alike.
DispatchSent(r) ==
    LET w == req[r].wf IN
    /\ req[r].pc = "posting"
    /\ stages' = [stages EXCEPT ![w] =
                    [s \in Stages |-> IF s = 1 THEN "running" ELSE @[s]]]
    /\ supervised' = supervised \cup {w}
    /\ UNCHANGED <<store, status, machine>>
    /\ Persist
    /\ Goto(r, "finishing")
    /\ UNCHANGED <<queue, outcome, lost, crashes>>

-----------------------------------------------------------------------------
(* POST /internal/workflows/:ref/stages/:id/dispatch *)

\* The workflow event a reported stage status stands for.
ReportEvent(report) ==
    CASE report = "failed"       -> "FAIL"
      [] report = "waiting_user" -> "WAIT_USER"
      [] report = "blocked"      -> "BLOCK"
      [] report = "verifying"    -> "VERIFY"
      [] report = "repairing"    -> "REPAIR"
      [] report = "paused"       -> "PAUSE"
      [] OTHER                   -> "COMPLETE"

\* The stage takes the reported status, whatever the workflow's status is,
\* and a completed stage starts the next one.
AfterReport(chain, s, report) ==
    [i \in Stages |-> IF i = s THEN report
                      ELSE IF i = s + 1 /\ report = "completed" THEN "running"
                      ELSE chain[i]]

StageReport(r) ==
    LET w == req[r].wf IN
    /\ req[r].pc = "queued"
    /\ req[r].op = "report"
    /\ HoldsLock(r)
    /\ w \in store
    /\ stages' = [stages EXCEPT ![w] =
                    AfterReport(@, req[r].stage, req[r].report)]
    /\ Transition(w, ReportEvent(req[r].report))
    /\ UNCHANGED store
    /\ Persist
    /\ Goto(r, "finishing")
    /\ UNCHANGED <<queue, supervised, outcome, lost, crashes>>

-----------------------------------------------------------------------------
(* POST /internal/workflows/:ref/complete *)

Complete(r) ==
    LET w == req[r].wf IN
    /\ req[r].pc = "queued"
    /\ req[r].op = "complete"
    /\ HoldsLock(r)
    /\ w \in store
    /\ machine' = [machine EXCEPT ![w] = CompleteChain(@)]
    /\ status' = [status EXCEPT ![w] = CompleteChain(@)]
    /\ status'[w] = "succeeded" \/ Resolved(w)
    /\ supervised' = supervised \ {w}
    /\ UNCHANGED <<store, stages>>
    /\ Persist
    /\ Goto(r, "finishing")
    /\ UNCHANGED <<queue, outcome, lost, crashes>>

-----------------------------------------------------------------------------
(* POST /internal/workflows/:ref/pause, resume, cancel and fail *)

ControlEvent(op) ==
    CASE op = "pause"  -> "PAUSE"
      [] op = "resume" -> "RESUME"
      [] op = "cancel" -> "CANCEL"
      [] op = "fail"   -> "FAIL"

\* The record was looked up before the await; one that left the store
\* meanwhile is terminal and takes no event.
Control(r) ==
    LET w     == req[r].wf
        event == ControlEvent(req[r].op)
    IN
    /\ req[r].pc = "reading"
    /\ CanHandle(machine[w], event)
    /\ Transition(w, event)
    /\ supervised' = IF req[r].op = "resume" THEN supervised
                     ELSE supervised \ {w}
    /\ UNCHANGED <<store, stages>>
    /\ Persist
    /\ Goto(r, "finishing")
    /\ UNCHANGED <<queue, outcome, lost, crashes>>

-----------------------------------------------------------------------------
(* The end of a handler *)

MutatedOutcomeAfter(op, w) ==
    IF op = "complete" THEN [outcome EXCEPT ![w] = @ \cup {"succeeded"}]
    ELSE outcome

\* recordTerminalWorkflowOutcome reads the status as it is by then; complete,
\* pause and cancel call it.
OutcomeAfter(op, w) ==
    IF op \in {"complete", "pause", "cancel"}
       /\ status[w] \in {"succeeded", "failed", "cancelled"}
    THEN [outcome EXCEPT ![w] = @ \cup {status[w]}]
    ELSE outcome

Finish(r) ==
    LET w == req[r].wf IN
    /\ req[r].pc = "finishing"
    /\ outcome' = OutcomeAfter(req[r].op, w)
    /\ IF req[r].op \in LockedOp THEN Release(w) ELSE UNCHANGED queue
    /\ Reply(r)
    /\ UNCHANGED <<memory, supervised, disk, diskStale, lost, crashes>>

(***************************************************************************)
(* The process dies and starts again: handlers, locks and supervision are  *)
(* gone, and loadWorkflowStore reads the file and replays each machine.    *)
(***************************************************************************)
Crash ==
    /\ crashes < MaxCrashes
    /\ crashes' = crashes + 1
    /\ store' = disk.keys
    /\ status' = [w \in Workflows |->
                    IF w \in disk.keys THEN disk.status[w] ELSE status[w]]
    /\ machine' = [w \in Workflows |->
                    IF w \in disk.keys THEN RestoreMachine(disk.status[w])
                    ELSE machine[w]]
    /\ stages' = [w \in Workflows |->
                    IF w \in disk.keys THEN disk.stages[w] ELSE stages[w]]
    /\ req' = [r \in Requests |-> Idle]
    /\ queue' = [w \in Workflows |-> <<>>]
    /\ supervised' = {}
    /\ lost' = (lost \/ diskStale)
    /\ diskStale' = FALSE
    /\ UNCHANGED <<disk, outcome>>

\* The supervisor gives a workflow up: its timeout or its missed heartbeats
\* unregister it, and the workflow itself is left alone.
SupervisorTimeout(w) ==
    /\ w \in supervised
    /\ supervised' = supervised \ {w}
    /\ UNCHANGED <<memory, req, queue, disk, diskStale, outcome, lost, crashes>>

Arrive(r) ==
    \E w \in Workflows :
        \/ PlanCheck(r, w)
        \/ \E op \in ClientOps \cap LockedOp : Submit(r, op, w, 0, "pending")
        \/ \E s \in Stages, report \in ReportStatus : Submit(r, "report", w, s, report)
        \/ \E op \in ClientOps \cap ControlOp : SubmitControl(r, op, w)

Proceed(r) ==
    \/ PlanStore(r)
    \/ RejectLocked(r)
    \/ RejectUnlocked(r)
    \/ DispatchStart(r)
    \/ DispatchSent(r)
    \/ StageReport(r)
    \/ Complete(r)
    \/ Control(r)
    \/ Finish(r)

Next ==
    \/ \E r \in Requests : Arrive(r) \/ Proceed(r)
    \/ \E w \in Workflows : SupervisorTimeout(w)
    \/ Crash

Spec == Init /\ [][Next]_vars

\* Every await of a handler ends: the planner, the executor gateway, the
\* database and the audit log answer or time out.
Fairness == \A r \in Requests : WF_vars(Proceed(r))

FairSpec == Spec /\ Fairness

-----------------------------------------------------------------------------
(* Properties *)

\* workflow.status and the state of workflow.machine are two copies of one
\* fact: transitionWorkflow writes both, complete chains three events, and a
\* restart rebuilds the machine by replay.  They never disagree.
MachineAgrees == \A w \in Workflows : status[w] = machine[w]

\* What the store holds is what a restart would find, provided the last write
\* of the file succeeded.  The one exception is the START of a dispatch whose
\* executor call is still awaited: it is not yet written, unless another
\* handler's save has written it.
DiskCurrent ==
    ~diskStale =>
        /\ disk.keys = store
        /\ \A w \in store :
              /\ disk.stages[w] = stages[w]
              /\ disk.status[w] # status[w] =>
                    /\ status[w] = "running"
                    /\ \E r \in Requests :
                          req[r].pc = "posting" /\ req[r].wf = w

\* No workflow that has not been dispatched, and none that succeeded, is
\* registered with the supervisor.  The second half rests on the lock: a
\* dispatch that awaits the executor registers the workflow when it resumes,
\* and complete must not fall in between.
SupervisionSound ==
    \A w \in supervised : status[w] \notin {"draft", "planned", "succeeded"}

\* An outcome row is written after two awaits, from the status as it is by
\* then; it never contradicts the status the workflow has at any later time,
\* unless a restart loaded a stale file.
OutcomeTruthful == ~lost => \A w \in Workflows : outcome[w] \subseteq {status[w]}

\* The lock: a handler that is past its wait is the first in the queue of its
\* workflow, so there is at most one of them.
LockDiscipline ==
    \A r \in Requests :
        req[r].pc = "posting" \/ (req[r].pc = "finishing" /\ req[r].op \in LockedOp)
            => HoldsLock(r)

\* A workflow that has ended keeps its status: no late stage report, repeated
\* complete, unlocked pause, cancel or fail, and no restart revives it (a
\* restart from a stale file may).
FinalIsFinal ==
    [][~lost' => \A w \in Workflows :
          status[w] \in Final => status'[w] = status[w]]_vars

-----------------------------------------------------------------------------
(* The inductive invariant behind the safety properties *)

\* Each phase belongs to the operations that have it.
PhaseOfOp ==
    \A r \in Requests :
        /\ req[r].pc = "planning" => req[r].op = "plan"
        /\ req[r].pc = "reading" => req[r].op \in ControlOp
        /\ req[r].pc = "posting" => req[r].op = "dispatch"

\* An id is planned once, and only then do other requests name it.
PlannedOnce ==
    /\ \A r \in Requests :
          /\ req[r].pc = "planning" => status[req[r].wf] = "draft"
          /\ req[r].pc \in {"queued", "reading"} => status[req[r].wf] # "draft"
    /\ \A r, q \in Requests :
          req[r].pc = "planning" /\ req[q].pc = "planning" /\ req[r].wf = req[q].wf
              => r = q
    /\ \A w \in store : status[w] # "draft"
    /\ \A w \in disk.keys : disk.status[w] # "draft"

\* Only complete sends REPORT, and COMPLETE with it: no workflow rests in
\* "reporting", so a stage report's COMPLETE never ends one.
NeverReporting ==
    \A w \in Workflows : status[w] # "reporting" /\ disk.status[w] # "reporting"

\* While the executor is awaited, unlocked requests may stop the workflow but
\* not complete it.
DispatchUnderway ==
    \A r \in Requests :
        req[r].pc = "posting"
            => status[req[r].wf] \notin {"draft", "planned", "succeeded"}

Inductive ==
    /\ TypeOK
    /\ MachineAgrees
    /\ PhaseOfOp
    /\ PlannedOnce
    /\ NeverReporting
    /\ LockDiscipline
    /\ DispatchUnderway
    /\ SupervisionSound
    /\ DiskCurrent
    /\ OutcomeTruthful

=============================================================================
