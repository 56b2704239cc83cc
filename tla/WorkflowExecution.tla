-------------------------- MODULE WorkflowExecution --------------------------
(***************************************************************************)
(* The workflow service together with the executor gateway                 *)
(* (services/executor-gateway/src/index.ts).                               *)
(*                                                                         *)
(* A dispatch starts one run per workflow at the gateway.  The run takes a *)
(* snapshot of the stages, executes those the snapshot calls running or    *)
(* pending, reports each result to the service and, after the last, asks   *)
(* it to complete the workflow.  Reports go through postWorkflowWithRetry: *)
(* an attempt that times out is repeated although the service may still    *)
(* apply it, so a report is applied any number of times.                   *)
(*                                                                         *)
(* Requests of WorkflowService are the HTTP calls of both sides: those of  *)
(* clients (ClientOps) and those of the runs (GatewayCalls).  Calls reach  *)
(* the service in the order they are made; answers take their time.        *)
(***************************************************************************)
EXTENDS WorkflowService

CONSTANTS
    GatewayCalls,   \* the requests the runs make
    Results,        \* the results an executor ends a stage with
    Attempts,       \* attempts of postWorkflowWithRetry
    MaxStarts,      \* bound: dispatches that set a workflow running
    MaxFailures     \* bound: attempts without a final answer

\* The runs are the only callers of the stage report and of complete.
ASSUME ExecutionAssumption ==
    /\ GatewayCalls \subseteq Requests
    /\ ReportStatus = {}
    /\ "complete" \notin ClientOps
    /\ Results \subseteq {"completed", "failed", "waiting_user", "blocked"}
    /\ Attempts \in Nat \ {0}
    /\ MaxStarts \in Nat
    /\ MaxFailures \in Nat

(***************************************************************************)
(* A run: its phase, the snapshot, the stage it is at and that stage's     *)
(* result; the call it awaits (at most one), what it was answered, and the *)
(* attempts made.                                                          *)
(***************************************************************************)
NoRun == [pc |-> "none"]

Answer == {"none", "taken", "refused", "retry"}

Run == [pc: {"accepted", "executing", "reporting", "completing"},
        chain: [Stages -> StageStatus], at: 1..(NStages + 1),
        result: Results \cup {"pending"}, call: SUBSET GatewayCalls,
        answer: Answer, tries: 0..Attempts]

VARIABLES
    run,        \* activeExecutions: the run of each workflow
    accepted,   \* dispatch calls the gateway has answered
    degraded,   \* workflows set running by a dispatch the gateway did not get
    done,       \* history: the stages reported completed
    starts,     \* history: how often a dispatch set a workflow running
    failures    \* history: attempts that timed out or were answered 5xx

gatewayVars == <<run, accepted, degraded, done, starts, failures>>
allVars == <<vars, gatewayVars>>

ExecutionTypeOK ==
    /\ TypeOK
    /\ run \in [Workflows -> Run \cup {NoRun}]
    /\ accepted \in SUBSET Requests
    /\ degraded \in SUBSET Workflows
    /\ done \in [Workflows -> SUBSET Stages]
    /\ starts \in [Workflows -> 0..MaxStarts]
    /\ failures \in 0..MaxFailures

ExecutionInit ==
    /\ Init
    /\ run = [w \in Workflows |-> NoRun]
    /\ accepted = {}
    /\ degraded = {}
    /\ done = [w \in Workflows |-> {}]
    /\ starts = [w \in Workflows |-> 0]
    /\ failures = 0

-----------------------------------------------------------------------------
(* The gateway *)

\* POST /internal/executor/dispatch, called by a dispatch handler: accept,
\* and start a run unless one is active.
GatewayAccept(r) ==
    LET w == req[r].wf IN
    /\ req[r].pc = "posting"
    /\ r \notin accepted
    /\ accepted' = accepted \cup {r}
    /\ run' = IF run[w] # NoRun THEN run
              ELSE [run EXCEPT ![w] =
                        [pc |-> "accepted", chain |-> NoStages, at |-> 1,
                         result |-> "pending", call |-> {}, answer |-> "none",
                         tries |-> 0]]
    /\ UNCHANGED <<vars, degraded, done, starts, failures>>

\* The stages of the snapshot the run has still to execute.
ToExecute(chain, from) ==
    {s \in Stages : s >= from /\ chain[s] \in {"running", "pending"}}

\* The run goes on to the next such stage, or to the complete call.
Advance(chain, from) ==
    LET todo == ToExecute(chain, from)
        last == todo = {}
    IN  [pc |-> IF last THEN "completing" ELSE "executing", chain |-> chain,
         at |-> IF last THEN NStages + 1
                ELSE CHOOSE s \in todo : \A t \in todo : s <= t,
         result |-> "pending", call |-> {}, answer |-> "none", tries |-> 0]

\* GET /internal/workflows/:ref; a workflow that is gone, or has no stages,
\* ends the run.
FetchWorkflow(w) ==
    /\ run[w].pc = "accepted"
    /\ run' = [run EXCEPT ![w] =
                 IF w \in store /\ NStages > 0 THEN Advance(stages[w], 1)
                 ELSE NoRun]
    /\ UNCHANGED <<vars, accepted, degraded, done, starts, failures>>

\* executor.execute, with its repairs, ends with some result.
ExecuteStage(w) ==
    /\ run[w].pc = "executing"
    /\ \E result \in Results :
          run' = [run EXCEPT ![w].pc = "reporting", ![w].result = result]
    /\ UNCHANGED <<vars, accepted, degraded, done, starts, failures>>

\* One attempt of postWorkflowWithRetry.
PostAttempt(w, r) ==
    /\ run[w].pc \in {"reporting", "completing"}
    /\ run[w].call = {}
    /\ run[w].answer = "none"
    /\ \/ /\ run[w].pc = "reporting"
          /\ Submit(r, "report", w, run[w].at, run[w].result)
       \/ /\ run[w].pc = "completing"
          /\ Submit(r, "complete", w, 0, "pending")
    /\ run' = [run EXCEPT ![w].call = {r}, ![w].tries = @ + 1]
    /\ UNCHANGED <<accepted, degraded, done, starts, failures>>

\* The attempt's 10 seconds are over: what the service makes of the call
\* from now on, the run does not learn.
AttemptTimeout(w) ==
    /\ run[w] # NoRun
    /\ run[w].call # {}
    /\ failures < MaxFailures
    /\ failures' = failures + 1
    /\ run' = [run EXCEPT ![w].call = {}, ![w].answer = "retry"]
    /\ UNCHANGED <<vars, accepted, degraded, done, starts>>

MutatedAfterAttemptRepeats(one) ==
    CASE one.answer = "retry" /\ one.tries < Attempts ->
            Advance(one.chain, one.at)
      [] one.answer = "taken" /\ one.pc = "reporting" /\ one.result = "completed" ->
            Advance(one.chain, one.at + 1)
      [] OTHER -> NoRun

MutatedAfterAttemptGivesUp(one) ==
    IF one.answer = "taken" /\ one.pc = "reporting" /\ one.result = "completed"
    THEN Advance(one.chain, one.at + 1)
    ELSE NoRun

\* What the run does after an attempt: a stage that did not complete, a
\* refusal (4xx) and the last failed attempt end it.
AfterAttempt(one) ==
    CASE one.answer = "retry" /\ one.tries < Attempts ->
            [one EXCEPT !.answer = "none"]
      [] one.answer = "taken" /\ one.pc = "reporting" /\ one.result = "completed" ->
            Advance(one.chain, one.at + 1)
      [] OTHER -> NoRun

TakeAnswer(w) ==
    /\ run[w] # NoRun
    /\ run[w].answer # "none"
    /\ run' = [run EXCEPT ![w] = AfterAttempt(@)]
    /\ UNCHANGED <<vars, accepted, degraded, done, starts, failures>>

\* The gateway dies: its runs are gone.
GatewayCrash ==
    /\ crashes < MaxCrashes
    /\ crashes' = crashes + 1
    /\ run' = [w \in Workflows |-> NoRun]
    /\ UNCHANGED <<memory, req, queue, supervised, disk, diskStale, outcome,
                   lost, accepted, degraded, done, starts, failures>>

-----------------------------------------------------------------------------
(* The service's steps, as the gateway sees them *)

\* Handler r answers the run that awaits it, if one does.
Answered(r, answer) ==
    run' = [w \in Workflows |->
              IF run[w] # NoRun /\ r \in run[w].call
              THEN [run[w] EXCEPT !.call = {}, !.answer = answer]
              ELSE run[w]]

ServiceFinishes(r) ==
    /\ Finish(r)
    /\ Answered(r, "taken")
    /\ UNCHANGED <<accepted, degraded, done, starts, failures>>

\* 404 and 409 are final; a body that could not be read is a 500.
ServiceRejects(r) ==
    /\ RejectLocked(r)
    /\ IF req[r].op = "complete" \/ req[r].wf \notin store
       THEN Answered(r, "refused") /\ UNCHANGED failures
       ELSE /\ Answered(r, "retry")
            /\ failures' = IF run' = run THEN failures ELSE failures + 1
            /\ failures' <= MaxFailures
    /\ UNCHANGED <<accepted, degraded, done, starts>>

ServiceReports(r) ==
    /\ StageReport(r)
    /\ done' = IF req[r].report = "completed"
               THEN [done EXCEPT ![req[r].wf] = @ \cup {req[r].stage}]
               ELSE done
    /\ UNCHANGED <<run, accepted, degraded, starts, failures>>

ServiceStarts(r) ==
    /\ DispatchStart(r)
    /\ starts[req[r].wf] < MaxStarts
    /\ starts' = [starts EXCEPT ![req[r].wf] = @ + 1]
    /\ UNCHANGED <<run, accepted, degraded, done, failures>>

\* The dispatch handler resumes, with the gateway's acceptance or without.
ServiceDispatched(r) ==
    /\ DispatchSent(r)
    /\ accepted' = accepted \ {r}
    /\ degraded' = IF r \in accepted THEN degraded \ {req[r].wf}
                   ELSE degraded \cup {req[r].wf}
    /\ UNCHANGED <<run, done, starts, failures>>

\* The other steps do not concern the gateway.
ServiceWorks(r) ==
    /\ \/ PlanStore(r)
       \/ RejectUnlocked(r)
       \/ Complete(r)
       \/ Control(r)
    /\ UNCHANGED gatewayVars

\* A restart of the service breaks every call to it, the fetch of a run that
\* has just started included.
ServiceCrash ==
    /\ Crash
    /\ accepted' = {}
    /\ \E unfetched \in SUBSET {w \in Workflows : run[w].pc = "accepted"} :
          run' = [w \in Workflows |->
                    IF w \in unfetched THEN NoRun
                    ELSE IF run[w] # NoRun /\ run[w].call # {}
                    THEN [run[w] EXCEPT !.call = {}, !.answer = "retry"]
                    ELSE run[w]]
    /\ UNCHANGED <<degraded, done, starts, failures>>

ServiceProceeds(r) ==
    \/ ServiceFinishes(r)
    \/ ServiceRejects(r)
    \/ ServiceReports(r)
    \/ ServiceStarts(r)
    \/ ServiceDispatched(r)
    \/ ServiceWorks(r)

GatewayProceeds(w) ==
    \/ FetchWorkflow(w)
    \/ ExecuteStage(w)
    \/ \E r \in GatewayCalls : PostAttempt(w, r)
    \/ TakeAnswer(w)

ExecutionNext ==
    \/ \E r \in Requests \ GatewayCalls : Arrive(r) /\ UNCHANGED gatewayVars
    \/ \E r \in Requests : ServiceProceeds(r) \/ GatewayAccept(r)
    \/ \E w \in Workflows :
          \/ GatewayProceeds(w)
          \/ AttemptTimeout(w)
          \/ SupervisorTimeout(w) /\ UNCHANGED gatewayVars
    \/ ServiceCrash
    \/ GatewayCrash

ExecutionSpec == ExecutionInit /\ [][ExecutionNext]_allVars

\* Every await ends: those of the service's handlers, and those of a run
\* (the executor's work, the fetch, the attempt with its back-off).
ExecutionFairness ==
    /\ \A r \in Requests : WF_allVars(ServiceProceeds(r))
    /\ \A w \in Workflows : WF_allVars(GatewayProceeds(w))

-----------------------------------------------------------------------------
(* Properties *)

\* Dispatched once, a workflow that succeeded has every stage completed: the
\* complete call does not look at the stages before it sends VERIFY, REPORT
\* and COMPLETE, so this rests on the run's order of reports, on the lock and
\* on the repeated reports doing no harm.
SucceededIsDone ==
    ~lost => \A w \in Workflows :
        starts[w] <= 1 /\ status[w] = "succeeded"
            => \A s \in Stages : stages[w][s] = "completed"

\* Dispatched once, no stage is executed again after it was reported
\* completed, whatever reports were repeated.
NoStageRepeated ==
    \A w \in Workflows :
        starts[w] <= 1 /\ run[w].pc = "executing" => run[w].at \notin done[w]

\* Dispatched once, the stages run once each, and all of them before a success.
StagesRunOnce == SucceededIsDone /\ NoStageRepeated

\* A dispatch handler that went on with the gateway's acceptance leaves a
\* running workflow to a run, until the run's last attempt failed or the
\* workflow was paused meanwhile.  (One that is resumed after its run ended has
\* none, and a crash ends runs: without those.)
DispatchedRunEnds ==
    \A w \in Workflows :
        status[w] = "running" /\ w \notin degraded
            ~> status[w] # "running" \/ w \in degraded

\* What the state tables of the documentation say of succeeded: all stages
\* are completed.
SucceededMeansAllStagesDone ==
    \A w \in Workflows :
        status[w] = "succeeded" => \A s \in Stages : stages[w][s] = "completed"

=============================================================================
