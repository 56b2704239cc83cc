----------------------------- MODULE Supervision -----------------------------
(***************************************************************************)
(* The workflow supervisor (services/workflow/src/supervisor/manager.ts):  *)
(* heartbeats, their timers, the retries a silent workflow is granted, and *)
(* the row that mirrors a registration.                                    *)
(*                                                                         *)
(* Time passes in heartbeat intervals.  handleTimeout decides, awaits the  *)
(* audit log and only then acts, on the name of the workflow: what it does *)
(* may fall on a later registration.  The row is written by a debounced    *)
(* timer and removed by a call nobody awaits, each on a connection of its     *)
(* own, so the two may be applied in any order.                            *)
(***************************************************************************)
EXTENDS Naturals, FiniteSets

CONSTANTS
    Monitored,           \* workflow_instance_ref
    MaxRetries,     \* max_retries, the grace periods too
    SoftTicks,      \* soft_timeout_sec, in heartbeat intervals
    HardTicks,      \* hard_timeout_sec, in heartbeat intervals
    RetryMax,       \* HEARTBEAT_RETRY_MAX
    Timeouts,       \* bound: calls of handleTimeout awaiting the audit log
    MaxRegs,        \* bound: registrations of one workflow
    MaxReports      \* bound: heartbeats and progress reports of one workflow

ASSUME SupervisionAssumption ==
    /\ MaxRetries \in Nat \ {0}
    /\ SoftTicks \in Nat \ {0}
    /\ HardTicks \in Nat /\ HardTicks > SoftTicks
    /\ RetryMax \in Nat \ {0}
    /\ IsFiniteSet(Timeouts)
    /\ MaxRegs \in Nat /\ MaxReports \in Nat

Unknown == [n |-> 0]
NoTimeout == [act |-> "idle"]
Off  == HardTicks + 1

Status == {"running", "paused", "waiting_user"}

VARIABLES
    reg,        \* supervisedWorkflows
    soft,       \* ticks left of the soft timeout timer; 0 is due
    hard,       \* ticks left of the hard timeout timer
    beating,    \* refs whose heartbeat interval runs
    timeout,    \* handleTimeout, after its decision
    early,      \* attempts of the pendingHeartbeats entry; 0 is no entry
    debounce,   \* refs with a persist timer
    write,      \* statements on supervision_state under way
    row,        \* refs with a row in supervision_state
    overtaken,  \* history: refs whose row was removed while a write was under way
    ended,      \* history: refs whose progress was last reported final
    regs,       \* history: registrations so far
    reports     \* history: heartbeats and reports so far

supVars == <<reg, soft, hard, beating, timeout, early, debounce, write, row,
             overtaken, ended, regs, reports>>
timers == <<soft, hard, beating>>
rows   == <<write, row, overtaken, ended>>

SupTypeOK ==
    /\ reg \in [Monitored -> [n: 1..MaxRegs, status: Status, silent: Nat, retries: Nat]
                        \cup {Unknown}]
    /\ soft \in [Monitored -> 0..Off] /\ hard \in [Monitored -> 0..Off]
    /\ beating \subseteq Monitored
    /\ timeout \in [Timeouts -> [act: {"retry", "give_up"}, ref: Monitored, n: 1..MaxRegs]
                             \cup {NoTimeout}]
    /\ early \in [Monitored -> 0..RetryMax]
    /\ debounce \subseteq Monitored /\ row \subseteq Monitored
    /\ overtaken \subseteq Monitored /\ ended \subseteq Monitored
    /\ write \in [Monitored -> SUBSET {"put", "delete"}]
    /\ regs \in [Monitored -> 0..MaxRegs] /\ reports \in [Monitored -> 0..MaxReports]

SupInit ==
    /\ reg = [w \in Monitored |-> Unknown]
    /\ soft = [w \in Monitored |-> Off]
    /\ hard = [w \in Monitored |-> Off]
    /\ beating = {}
    /\ timeout = [t \in Timeouts |-> NoTimeout]
    /\ early = [w \in Monitored |-> 0]
    /\ debounce = {}
    /\ write = [w \in Monitored |-> {}]
    /\ row = {}
    /\ overtaken = {}
    /\ ended = {}
    /\ regs = [w \in Monitored |-> 0]
    /\ reports = [w \in Monitored |-> 0]

Registered(w) == reg[w] # Unknown

-----------------------------------------------------------------------------
(* Timers *)

\* resetTimeoutTimers, and the timeouts of startSupervision.
ArmTimeouts(w) ==
    /\ soft' = [soft EXCEPT ![w] = SoftTicks]
    /\ hard' = [hard EXCEPT ![w] = HardTicks]

\* stopSupervision.
StopTimers(w) ==
    /\ soft' = [soft EXCEPT ![w] = Off]
    /\ hard' = [hard EXCEPT ![w] = Off]
    /\ beating' = beating \ {w}

MutatedUnregister(w) ==
    /\ reg' = [reg EXCEPT ![w] = IF @ = Unknown THEN @ ELSE [@ EXCEPT !.status = "paused"]]
    /\ StopTimers(w)

\* unregisterWorkflow: the persist timer and a pending heartbeat stay.
Unregister(w) ==
    /\ reg' = [reg EXCEPT ![w] = Unknown]
    /\ StopTimers(w)

\* One more report of the workflow.
Report(w) ==
    /\ reports[w] < MaxReports
    /\ reports' = [reports EXCEPT ![w] = @ + 1]

-----------------------------------------------------------------------------
(* The operations *)

\* registerWorkflow: a fresh record replaces an older one, its timers start,
\* and a heartbeat that came too early is recorded now.
Register(w) ==
    /\ regs[w] < MaxRegs
    /\ regs' = [regs EXCEPT ![w] = @ + 1]
    /\ reg' = [reg EXCEPT ![w] = [n |-> regs'[w], status |-> "running",
                                  silent |-> 0, retries |-> 0]]
    /\ ArmTimeouts(w)
    /\ beating' = beating \cup {w}
    /\ debounce' = debounce \cup {w}
    /\ early' = [early EXCEPT ![w] = 0]
    /\ ended' = ended \ {w}
    /\ UNCHANGED <<timeout, write, row, overtaken, reports>>

\* recordHeartbeat of a registered workflow.  The retries it was granted stay
\* used up.
HeartbeatKnown(w) ==
    /\ Registered(w)
    /\ reg' = [reg EXCEPT ![w].silent = 0]
    /\ ArmTimeouts(w)
    /\ debounce' = debounce \cup {w}

\* queueHeartbeatRetry, with the attempts counted before.
QueueHeartbeat(w, attempts) ==
    early' = [early EXCEPT ![w] = IF attempts + 1 > RetryMax THEN 0 ELSE attempts + 1]

RecordHeartbeat(w) ==
    /\ Report(w)
    /\ \/ /\ HeartbeatKnown(w)
          /\ UNCHANGED early
       \/ /\ ~Registered(w)
          /\ QueueHeartbeat(w, early[w])
          /\ UNCHANGED <<reg, soft, hard, debounce>>
    /\ UNCHANGED <<beating, timeout, rows, regs>>

\* The retry timer removes its entry before it records again: the attempts
\* of a workflow that stays unknown start over each time.
RetryHeartbeat(w) ==
    /\ early[w] > 0
    /\ \/ /\ HeartbeatKnown(w)
          /\ early' = [early EXCEPT ![w] = 0]
       \/ /\ ~Registered(w)
          /\ QueueHeartbeat(w, 0)
          /\ UNCHANGED <<reg, soft, hard, debounce>>
    /\ UNCHANGED <<beating, timeout, rows, regs, reports>>

\* A handler of the service that ends or stops the workflow.
UnregisterCalled(w) ==
    /\ Registered(w)
    /\ Unregister(w)
    /\ UNCHANGED <<timeout, early, debounce, rows, regs, reports>>

\* updateProgress: a final status unregisters the workflow and removes its
\* row, without awaiting that.
UpdateProgress(w) ==
    /\ Registered(w)
    /\ Report(w)
    /\ \/ /\ \E s \in Status : reg' = [reg EXCEPT ![w].status = s]
          /\ debounce' = debounce \cup {w}
          /\ UNCHANGED <<timers, rows>>
       \/ /\ Unregister(w)
          /\ ended' = ended \cup {w}
          /\ overtaken' = IF "put" \in write[w] THEN overtaken \cup {w}
                        ELSE overtaken \ {w}
          /\ write' = [write EXCEPT ![w] = @ \cup {"delete"}]
          /\ UNCHANGED <<debounce, row>>
    /\ UNCHANGED <<timeout, early, regs>>

-----------------------------------------------------------------------------
(* Timeouts *)

\* The decision of handleTimeout.
GrantsRetry(w, kind) == kind = "soft" /\ reg[w].retries < MaxRetries

\* handleTimeout up to its await.
HandleTimeout(w, kind) ==
    \E t \in Timeouts :
        /\ timeout[t] = NoTimeout
        /\ timeout' = [timeout EXCEPT ![t] =
                      [act |-> IF GrantsRetry(w, kind) THEN "retry" ELSE "give_up",
                       ref |-> w, n |-> reg[w].n]]

\* And after it: a retry is counted on the record that was looked up, which
\* may be out of use; giving up unregisters whatever has the name now.
AfterAudit(t) ==
    LET w == timeout[t].ref IN
    /\ timeout[t] # NoTimeout
    /\ \/ /\ timeout[t].act = "retry"
          /\ reg' = IF reg[w].n = timeout[t].n
                    THEN [reg EXCEPT ![w].retries = @ + 1, ![w].status = "running"]
                    ELSE reg
          /\ UNCHANGED timers
       \/ /\ timeout[t].act = "give_up"
          /\ Unregister(w)
    /\ timeout' = [timeout EXCEPT ![t] = NoTimeout]
    /\ UNCHANGED <<early, debounce, rows, regs, reports>>

\* A timeout timer fires, once; only a heartbeat arms it again.
TimerFires(w) ==
    /\ \/ /\ soft[w] = 0
          /\ HandleTimeout(w, "soft")
          /\ soft' = [soft EXCEPT ![w] = Off]
          /\ UNCHANGED hard
       \/ /\ hard[w] = 0
          /\ HandleTimeout(w, "hard")
          /\ hard' = [hard EXCEPT ![w] = Off]
          /\ UNCHANGED soft
    /\ UNCHANGED <<reg, beating, early, debounce, rows, regs, reports>>

Down(left) == IF left = Off THEN Off ELSE left - 1

\* checkHeartbeat skips workflows that wait for someone; the others are
\* handled as timed out once no grace period is left.
Overdue(w) ==
    /\ reg[w].status \notin {"paused", "waiting_user"}
    /\ reg[w].silent + 1 >= MaxRetries

\* One heartbeat interval passes for the workflow and its interval timer
\* calls checkHeartbeat; the silence is counted as far as it matters.
Tick(w) ==
    /\ w \in beating
    /\ soft[w] # 0 /\ hard[w] # 0
    /\ reg' = [reg EXCEPT ![w].silent = IF @ < MaxRetries THEN @ + 1 ELSE @]
    /\ IF Overdue(w) THEN HandleTimeout(w, "soft") ELSE UNCHANGED timeout
    /\ soft' = [soft EXCEPT ![w] = Down(@)]
    /\ hard' = [hard EXCEPT ![w] = Down(@)]
    /\ UNCHANGED <<beating, early, debounce, rows, regs, reports>>

-----------------------------------------------------------------------------
(* The row *)

MutatedPersistToDb(w) ==
    /\ w \in debounce
    /\ debounce' = debounce \ {w}
    /\ write' = [write EXCEPT ![w] = @ \cup {"put"}]
    /\ UNCHANGED <<reg, timers, timeout, early, row, overtaken, ended, regs, reports>>

\* persistToDb, called by the debounce timer: nothing for a workflow that is
\* no longer registered.
PersistToDb(w) ==
    /\ w \in debounce
    /\ debounce' = debounce \ {w}
    /\ write' = IF Registered(w) THEN [write EXCEPT ![w] = @ \cup {"put"}] ELSE write
    /\ UNCHANGED <<reg, timers, timeout, early, row, overtaken, ended, regs, reports>>

\* The database applies a statement, or it fails, which is only logged.
Applied(w, statement) ==
    /\ statement \in write[w]
    /\ write' = [write EXCEPT ![w] = @ \ {statement}]
    /\ row' = IF statement = "put" THEN row \cup {w} ELSE row \ {w}
    /\ UNCHANGED <<reg, timers, timeout, early, debounce, overtaken, ended, regs, reports>>

WriteFails(w) ==
    /\ "put" \in write[w]
    /\ write' = [write EXCEPT ![w] = @ \ {"put"}]
    /\ UNCHANGED <<reg, timers, timeout, early, debounce, row, overtaken, ended, regs,
                   reports>>

SupNext ==
    \/ \E w \in Monitored :
          \/ Register(w)
          \/ RecordHeartbeat(w)
          \/ RetryHeartbeat(w)
          \/ UnregisterCalled(w)
          \/ UpdateProgress(w)
          \/ TimerFires(w)
          \/ Tick(w)
          \/ PersistToDb(w)
          \/ \E statement \in {"put", "delete"} : Applied(w, statement)
          \/ WriteFails(w)
    \/ \E t \in Timeouts : AfterAudit(t)

\* Timers fire, and the audit log answers or times out.
SupFairness ==
    /\ \A w \in Monitored : WF_supVars(Tick(w)) /\ WF_supVars(TimerFires(w))
    /\ \A t \in Timeouts : WF_supVars(AfterAudit(t))

SupSpec == SupInit /\ [][SupNext]_supVars /\ SupFairness

-----------------------------------------------------------------------------
(* Properties *)

\* max_retries is tested before the audit log is awaited and counted after:
\* calls of handleTimeout that overlap are granted one retry too many each,
\* and never more.
RetriesBounded ==
    \A w \in Monitored : Registered(w) =>
        reg[w].retries
            + Cardinality({t \in Timeouts : /\ timeout[t] # NoTimeout
                                            /\ timeout[t].act = "retry"
                                            /\ timeout[t].ref = w
                                            /\ timeout[t].n = reg[w].n})
            <= MaxRetries - 1 + Cardinality(Timeouts)

\* A workflow whose end was reported leaves no row behind, unless a write was
\* under way when the row was removed: the debounce timer outlives the
\* registration, but writes nothing for it.
RemovedRowStaysAway ==
    \A w \in ended \ overtaken : write[w] = {} => w \notin row

\* Timers that outlive what they were armed for neither retry nor write it.
TimersBounded == RetriesBounded /\ RemovedRowStaysAway

\* A workflow that is no longer heard of is given up: paused or waiting ones
\* too, and those whose timeout timers a heartbeat armed again.
SilentIsGivenUp == \A w \in Monitored : Registered(w) ~> ~Registered(w)

=============================================================================
