------------------------- MODULE WorkflowPersistence -------------------------
(***************************************************************************)
(* The database side of the workflow store.  persistWorkflowStore          *)
(* (services/workflow/src/index.ts) first rewrites the store file, then    *)
(* takes a snapshot of all records and writes their rows one after the     *)
(* other, awaiting each (persistWorkflowRecord in persistence/db.ts).      *)
(* When the process starts, bootstrapWorkflowStoreFromDatabase reads the   *)
(* rows back beside the running server and adds those the store lacks.     *)
(*                                                                         *)
(* Every other step is a step of WorkflowService.                          *)
(***************************************************************************)
EXTENDS WorkflowService

VARIABLES
    row,         \* rows of workflow_instance and workflow_stage
    pending,     \* what each handler's save has still to write
    boot,        \* progress of the bootstrap
    disturbed    \* history: something happened that can leave a row stale

persistVars == <<row, pending, boot, disturbed>>
fullVars == <<vars, persistVars>>

NoRow   == [status |-> "none"]
Row     == [status: WorkflowState, stages: [Stages -> StageStatus]]
Partial(S) == UNION {[d -> S] : d \in SUBSET Workflows}

Boot ==
    [phase: {"asked", "off"}]
        \cup [phase: {"read"}, status: Partial(WorkflowState),
              stages: Partial([Stages -> StageStatus])]

PersistenceTypeOK ==
    /\ row \in [Workflows -> Row \cup {NoRow}]
    /\ pending \in [Requests -> Partial(WorkflowState)]
    /\ boot \in Boot
    /\ disturbed \in BOOLEAN

Nothing == [w \in {} |-> "draft"]

PersistenceInit ==
    /\ Init
    /\ row = [w \in Workflows |-> NoRow]
    /\ pending = [r \in Requests |-> Nothing]
    /\ boot = [phase |-> "asked"]
    /\ disturbed = FALSE

SavePending == \E r \in Requests : pending[r] # Nothing

Without(f, x) == [y \in DOMAIN f \ {x} |-> f[y]]

-----------------------------------------------------------------------------
(* The rows of a save *)

MutatedStartSave(r) == pending' = [pending EXCEPT ![r] = [w \in store |-> status[w]]]

\* The records a save is to write, with their status at this moment; their
\* stages are shared with the store and read when the row is written.
StartSave(r) == pending' = [pending EXCEPT ![r] = [w \in store' |-> status'[w]]]

\* The stretches that end in persistWorkflowStore.  Two saves whose rows
\* interleave, and a workflow evicted while the bootstrap holds what it read,
\* are remembered.
SaveStep(r) ==
    /\ PlanStore(r) \/ DispatchSent(r) \/ StageReport(r) \/ Complete(r) \/ Control(r)
    /\ StartSave(r)
    /\ disturbed' = \/ disturbed
                    \/ SavePending
                    \/ boot.phase = "read" /\ ~ store \subseteq store'
    /\ UNCHANGED <<row, boot>>

\* persistWorkflowRecord: one transaction upserts the row of the workflow and
\* those of its stages; an error is logged and the save goes on.
WriteRow(r, w) ==
    /\ w \in DOMAIN pending[r]
    /\ \/ /\ row' = [row EXCEPT ![w] = [status |-> pending[r][w], stages |-> stages[w]]]
          /\ UNCHANGED disturbed
       \/ /\ disturbed' = TRUE
          /\ UNCHANGED row
    /\ pending' = [pending EXCEPT ![r] = Without(@, w)]
    /\ UNCHANGED <<vars, boot>>

\* A handler goes on after its save.
EndStep(r) ==
    /\ pending[r] = Nothing
    /\ Finish(r)
    /\ UNCHANGED persistVars

-----------------------------------------------------------------------------
(* Start *)

\* loadPersistedWorkflows, its first query: the rows of the workflows, or
\* nothing when the database fails.
BootRead ==
    /\ boot.phase = "asked"
    /\ \/ boot' = [phase |-> "read",
                   status |-> [w \in {x \in Workflows : row[x] # NoRow} |-> row[w].status],
                   stages |-> [w \in {} |-> NoStages]]
       \/ boot' = [phase |-> "off"]
    /\ UNCHANGED <<vars, row, pending, disturbed>>

\* Then, one query per workflow, the rows of its stages.
BootStages(w) ==
    /\ boot.phase = "read"
    /\ w \in DOMAIN boot.status \ DOMAIN boot.stages
    /\ boot' = [boot EXCEPT !.stages =
                  [x \in DOMAIN @ \cup {w} |-> IF x = w THEN row[w].stages ELSE @[x]]]
    /\ UNCHANGED <<vars, row, pending, disturbed>>

MutatedMissing == DOMAIN boot.status

\* The workflows read that the store does not hold.
Missing == DOMAIN boot.status \ store

\* bootstrapWorkflowStoreFromDatabase: they are added, each with a machine
\* replayed from its status; nothing is evicted and nothing is saved.
BootInsert ==
    /\ boot.phase = "read"
    /\ DOMAIN boot.stages = DOMAIN boot.status
    /\ store' = store \cup Missing
    /\ status' = [w \in Workflows |->
                    IF w \in Missing THEN boot.status[w] ELSE status[w]]
    /\ machine' = [w \in Workflows |->
                    IF w \in Missing THEN RestoreMachine(boot.status[w])
                    ELSE machine[w]]
    /\ stages' = [w \in Workflows |->
                    IF w \in Missing THEN boot.stages[w] ELSE stages[w]]
    /\ boot' = [phase |-> "off"]
    /\ UNCHANGED <<req, queue, supervised, disk, diskStale, outcome, lost,
                   crashes, row, pending, disturbed>>

\* The saves under way and the bootstrap die with the process, and another
\* bootstrap begins.
Restart ==
    /\ Crash
    /\ pending' = [r \in Requests |-> Nothing]
    /\ boot' = [phase |-> "asked"]
    /\ disturbed' = (disturbed \/ diskStale \/ SavePending)
    /\ UNCHANGED row

OtherStep(r) ==
    /\ \/ Arrive(r)
       \/ RejectLocked(r)
       \/ RejectUnlocked(r)
       \/ DispatchStart(r)
    /\ UNCHANGED persistVars

PersistenceNext ==
    \/ \E r \in Requests :
          \/ SaveStep(r)
          \/ \E w \in Workflows : WriteRow(r, w)
          \/ EndStep(r)
          \/ OtherStep(r)
    \/ \E w \in Workflows : SupervisorTimeout(w) /\ UNCHANGED persistVars
    \/ BootRead
    \/ \E w \in Workflows : BootStages(w)
    \/ BootInsert
    \/ Restart

PersistenceSpec == PersistenceInit /\ [][PersistenceNext]_fullVars

-----------------------------------------------------------------------------
(* Properties *)

\* When no save is under way, the row of every workflow ever planned, evicted
\* ones included, has the status the memory had last, and the stages too as
\* long as the store holds it; the START of a dispatch that still awaits the
\* executor is the one exception.  Only interleaved saves, a failed write, a
\* crash in the middle of a save or a stale store file can make it untrue.
RowsCurrent ==
    ~disturbed /\ ~SavePending =>
        \A w \in Workflows :
            status[w] # "draft" =>
                /\ row[w] # NoRow
                /\ w \in store => row[w].stages = stages[w]
                /\ row[w].status # status[w] =>
                      /\ status[w] = "running"
                      /\ \E r \in Requests : req[r].pc = "posting" /\ req[r].wf = w

\* The limit on a user's active workflows, with restarts that bring back
\* evicted workflows: unless a row was stale, concurrent plans exceed the
\* limit by one less than the number of requests at most.
CapOvershootBounded ==
    ~disturbed => \A u \in Users :
        Cardinality(Active(u)) + Cardinality(Planning(u))
            <= MaxActive - 1 + Cardinality(Requests)

\* Neither the store file nor the database revives a workflow that has ended,
\* whenever it was evicted, as long as no row was stale.
NoRevival ==
    [][~disturbed' => \A w \in Workflows :
          status[w] \in Final => status'[w] = status[w]]_fullVars

=============================================================================
