------------------------------ MODULE OpsConsole ------------------------------
(***************************************************************************)
(* The server of the mainline's operations console                         *)
(* (apps/ops-console/server.mjs) and the contracts it promises to keep     *)
(* (src/contracts/).  The state is one object in memory, filled from       *)
(* fixtures: evidence linked to tasks, information gaps and gate checks;   *)
(* commands decomposed into execution tasks on swimlanes; intents to write *)
(* to external systems.  A handler changes it in one step, after its body  *)
(* was read.  Evidence and intents are validated when they change, the     *)
(* commands never: /health only reports what became of them.               *)
(*                                                                         *)
(* A request that is refused before it changed anything is no step.        *)
(***************************************************************************)
EXTENDS Naturals, FiniteSets, SequencesExt

CONSTANTS
    GraphTasks,     \* tasks of the task graph
    Gaps,           \* information gaps
    GapTask,        \* the task a gap belongs to
    Gates,          \* gates of a stage with a stored check
    EvidenceTypes,  \* the vocabulary of the contract
    Expects,        \* per gap and gate the evidence types it takes
    EvidenceIds,    \* what a title and a millisecond make an id of
    FirstEvidence,  \* evidence of the fixture
    Titles,         \* titles of commands
    Slug,           \* what their ids are made of: the words in a-z and 0-9
    Projects,
    Intents,
    Null,
    MaxEvidence     \* bound: pieces of evidence

\* The opportunity the task graph and every stored check are about.
Opportunity == "acme"

\* What a gate takes of the fixture's evidence is about the opportunity, and
\* none of it is for a gap, which are all open.
ASSUME ConsoleAssumption ==
    /\ GapTask \in [Gaps -> GraphTasks]
    /\ Expects \in [Gaps \cup Gates -> SUBSET EvidenceTypes]
    /\ Slug \in [Titles -> Seq(STRING)]
    /\ IsFiniteSet(FirstEvidence)
    /\ \A e \in FirstEvidence :
          /\ \A g \in Gates : e.type \in Expects[g] => e.opportunity = Opportunity
          /\ \A g \in Gaps : e.task = GapTask[g] => e.type \notin Expects[g]
          /\ e.id # Null
    /\ Null \notin EvidenceIds \cup Gaps \cup GraphTasks \cup {"user", "not a string"}
    /\ MaxEvidence \in Nat

VARIABLES
    evidence,       \* the pieces in the order they came; two may have one id
    taskEvidence,   \* task.evidence_ids
    gap,            \* status and closed_by_evidence_ids of a gap
    checkEvidence,  \* evidence_ids of a gate's stored check
    replies,        \* gapReplies
    intent,         \* policy_decision and confirmed_by of an intent
    commands,       \* management.commands: from ids to commands
    tasks,          \* management.execution_tasks: from ids to tasks
    updates,        \* management.execution_updates: from ids to task ids
    listed,         \* command_ids of a project
    lanes           \* task_ids of the swimlane of a status

linkVars    == <<evidence, taskEvidence, gap, checkEvidence, replies>>
commandVars == <<commands, tasks, updates, listed, lanes>>
consoleVars == <<linkVars, intent, commandVars>>

Ids(pieces) == {e.id : e \in pieces}

EmptyMap == [id \in {} |-> Null]

Statuses == {"delegated", "in_progress", "needs_info"}

ConsoleInit ==
    /\ evidence = SetToSeq(FirstEvidence)
    /\ taskEvidence = [t \in GraphTasks |-> Ids({e \in FirstEvidence : e.task = t})]
    /\ gap = [g \in Gaps |-> [status |-> "collecting", closedBy |-> {}]]
    /\ checkEvidence = [g \in Gates |-> Ids({e \in FirstEvidence : e.type \in Expects[g]})]
    /\ replies = {}
    /\ intent = [i \in Intents |-> [decision |-> "auto_execute", by |-> Null]]
    /\ commands = EmptyMap
    /\ tasks = EmptyMap
    /\ updates = EmptyMap
    /\ listed = [p \in Projects |-> {}]
    /\ lanes = [s \in Statuses |-> {}]

-----------------------------------------------------------------------------
(* Evidence *)

\* What a request brings: types the contract does not know and tasks that do
\* not exist are sent, too.
EvidenceInputs ==
    [type : EvidenceTypes \cup {"unknown"},
     task : GraphTasks \cup {Null, "unknown"},
     opportunity : {Opportunity, "other", Null}]

\* A known task, not of another opportunity, and valid evidence.
TakenEvidence(input) ==
    /\ input.task # Null =>
          input.task \in GraphTasks /\ input.opportunity \in {Opportunity, Null}
    /\ input.type \in EvidenceTypes

EvidenceOf(input, id) ==
    [id |-> id, type |-> input.type, task |-> input.task,
     opportunity |-> IF input.task # Null THEN Opportunity ELSE input.opportunity]

\* The stored check of the gate takes the evidence.
Supports(e, g) == e.opportunity = Opportunity /\ e.type \in Expects[g]

\* createEvidence: the piece is kept and linked; a gap it was a reply to takes
\* it whatever its type is.
Link(e, answered) ==
    /\ Len(evidence) < MaxEvidence
    /\ evidence' = Append(evidence, e)
    /\ taskEvidence' = [t \in GraphTasks |->
          IF e.task = t THEN taskEvidence[t] \cup {e.id} ELSE taskEvidence[t]]
    /\ gap' = [g \in Gaps |->
          IF g = answered \/ (e.task = GapTask[g] /\ e.type \in Expects[g])
          THEN [gap[g] EXCEPT !.closedBy = @ \cup {e.id}]
          ELSE gap[g]]
    /\ checkEvidence' = [g \in Gates |->
          IF Supports(e, g) THEN checkEvidence[g] \cup {e.id} ELSE checkEvidence[g]]

SubmitEvidence ==
    /\ \E input \in {i \in EvidenceInputs : TakenEvidence(i)}, id \in EvidenceIds :
          Link(EvidenceOf(input, id), Null)
    /\ UNCHANGED <<replies, intent, commandVars>>

\* replyToInformationGap: a rebuttal waives the gap; any other reply becomes
\* evidence for the gap's task.  Neither looks at the status of the gap.
ReplyToGap(g) ==
    /\ \/ /\ gap' = [gap EXCEPT ![g].status = "waived"]
          /\ replies' = replies \cup {[gap |-> g, decision |-> "rebut", id |-> Null]}
          /\ UNCHANGED <<evidence, taskEvidence, checkEvidence>>
       \/ \E input \in {i \in EvidenceInputs : i.task = GapTask[g] /\ TakenEvidence(i)},
             id \in EvidenceIds :
                /\ Link(EvidenceOf(input, id), g)
                /\ replies' = replies \cup
                      {[gap |-> g, decision |-> "evidence_submitted", id |-> id]}
    /\ UNCHANGED <<intent, commandVars>>

\* evaluateSalesStage: what an audit of the evidence finds for a gate.
AuditEvidence(g) ==
    Ids({e \in ToSet(evidence) : e.opportunity = Opportunity /\ e.type \in Expects[g]})

-----------------------------------------------------------------------------
(* Intents to write to external systems *)

\* decideWritebackPolicy, for the intents of the fixture: notes and comments
\* of a low risk, whose payload has no risky field.  A rejection reason in the
\* payload is none either.
WritebackPolicy(i) == "auto_execute"

PolicyRank == [auto_execute |-> 0, needs_confirmation |-> 1, manual_only |-> 2, reject |-> 3]

IntentValid(i) ==
    /\ intent[i].by \in {Null, "user"}
    /\ PolicyRank[intent[i].decision] >= PolicyRank[WritebackPolicy(i)]

\* decideWritebackIntent: the intent is changed first and validated then, so
\* that one confirmed by something that is no user id (JSON of any kind) is
\* answered with an error, and stays.
DecideWriteback(i) ==
    /\ \E by \in {"user", "not a string"}, decision \in {intent[i].decision, "reject"} :
          intent' = [intent EXCEPT ![i] = [decision |-> decision, by |-> by]]
    /\ UNCHANGED <<linkVars, commandVars>>

-----------------------------------------------------------------------------
(* Commands *)

\* What a command is asked for with.  A flaw is a field the contract forbids:
\* an unknown trigger, no objective, an executor that is no person's.
CommandInputs ==
    [title : Titles,
     project : Projects \cup {"unknown"},
     flaw : {"none", "trigger", "objective", "executor"}]

PreviewId(path) == [space |-> "preview", path |-> path]

LiveId(path) == [space |-> "live", path |-> path]

MutatedRewriteTask(task) ==
    [task EXCEPT !.id = LiveId(task.id.path), !.command = LiveId(task.command.path)]

\* rewritePreviewTaskIds: the ids of a preview become live ones.
RewriteTask(task) ==
    [task EXCEPT !.id = LiveId(task.id.path), !.command = LiveId(task.command.path),
                 !.latest = [of |-> LiveId(task.latest.of.path), kind |-> task.latest.kind]]

\* buildPreviewExecutionTasks: the task of the PM agent and those of the
\* specialist and the executor, whose ids extend its id, each with an update.
PreviewTasks(input) ==
    LET slug == Slug[input.title]
        task(path, status, kind) ==
            [id |-> PreviewId(path), command |-> PreviewId(slug),
             project |-> input.project, status |-> status,
             latest |-> [of |-> PreviewId(path), kind |-> kind]]
    IN {task(slug, "delegated", "decomposition"),
        task(Append(slug, "specialist"), "in_progress", "progress"),
        task(Append(slug, "executor"), "needs_info", "handoff")}

LiveTasks(input) == {RewriteTask(task) : task \in PreviewTasks(input)}

\* The updates' ids and tasks, each rewritten by the same rule.
LiveUpdateId(task) == [of |-> LiveId(task.latest.of.path), kind |-> task.latest.kind]

\* upsertById.
Upserted(items, new) == [id \in DOMAIN items \cup DOMAIN new |->
                            IF id \in DOMAIN new THEN new[id] ELSE items[id]]

ById(rows) == [id \in {row.id : row \in rows} |-> CHOOSE row \in rows : row.id = id]

\* POST /api/management/commands, of a user who may create commands: nothing
\* else of the request is looked at.
CreateManagementCommand ==
    /\ \E input \in CommandInputs :
          LET new == LiveTasks(input)
              id  == LiveId(Slug[input.title])
          IN /\ commands' = Upserted(commands, ById({
                   [id |-> id, title |-> input.title, flaw |-> input.flaw,
                    project |-> input.project,
                    generated |-> {LiveId(task.id.path) : task \in new}]}))
             /\ tasks' = Upserted(tasks, ById(new))
             /\ updates' = Upserted(updates,
                   [u \in {LiveUpdateId(task) : task \in new} |-> u.of])
             /\ listed' = [p \in Projects |->
                   IF p = input.project THEN listed[p] \cup {id} ELSE listed[p]]
             /\ lanes' = [s \in Statuses |->
                   lanes[s] \cup {task.id : task \in {t \in new : t.status = s}}]
    /\ UNCHANGED <<linkVars, intent>>

ConsoleNext ==
    \/ SubmitEvidence
    \/ \E g \in Gaps : ReplyToGap(g)
    \/ \E i \in Intents : DecideWriteback(i)
    \/ CreateManagementCommand

ConsoleSpec == ConsoleInit /\ [][ConsoleNext]_consoleVars

-----------------------------------------------------------------------------
(* The contract of the management centre: validateManagementCommandCenter-
   Semantics with the schema's rules that these fields can break *)

CommandValid(c) ==
    /\ c.flaw = "none"
    /\ c.project \in Projects
    /\ c.generated \subseteq DOMAIN tasks

\* All updates of a task have one time, and their ids differ in the kind.
KindRank == [decomposition |-> 1, handoff |-> 2, progress |-> 3]

TaskValid(t) ==
    /\ t.command \in DOMAIN commands
    /\ t.project \in Projects
    /\ t.id \in commands[t.command].generated
    /\ t.latest \in DOMAIN updates
    /\ updates[t.latest] = t.id
    /\ \A u \in DOMAIN updates :
          updates[u] = t.id => KindRank[u.kind] <= KindRank[t.latest.kind]

CenterValid ==
    /\ \A id \in DOMAIN commands : CommandValid(commands[id])
    /\ \A id \in DOMAIN tasks : TaskValid(tasks[id])
    /\ \A u \in DOMAIN updates : updates[u] \in DOMAIN tasks
    /\ \A p \in Projects : listed[p] \subseteq DOMAIN commands
    /\ \A s \in Statuses : lanes[s] \subseteq DOMAIN tasks

\* What /health answers.
Healthy == CenterValid /\ \A i \in Intents : IntentValid(i)

-----------------------------------------------------------------------------
(* Properties *)

\* The links that every request adds to are those a look at all the evidence
\* finds: a task has the evidence submitted for it, a gap that of its task
\* which it expects or was answered with, and a stored gate check that which
\* the audit on the same screen computes afresh.
LinksAgree ==
    /\ \A t \in GraphTasks : taskEvidence[t] = Ids({e \in ToSet(evidence) : e.task = t})
    /\ \A g \in Gaps :
          gap[g].closedBy =
             Ids({e \in ToSet(evidence) :
                    /\ e.task = GapTask[g]
                    /\ \/ e.type \in Expects[g]
                       \/ \E r \in replies : r.gap = g /\ r.id = e.id})
    /\ \A g \in Gates : checkEvidence[g] = AuditEvidence(g)

\* One title is another with the suffix of a generated task's id.
Clash(c, d) ==
    d.path \in {Append(c.path, "specialist"), Append(c.path, "executor")}

\* As long as no generated id is also the id of a command's own task, the
\* console is healthy exactly if every command it keeps was asked for without a
\* flaw and for a known project, and every decision was a user's: nothing else a
\* sequence of requests does, repeated titles and moves to another project
\* included, breaks the contracts.
ContractsHold ==
    (\A c, d \in DOMAIN commands : ~Clash(c, d)) =>
        (Healthy <=>
            /\ \A id \in DOMAIN commands :
                  commands[id].flaw = "none" /\ commands[id].project \in Projects
            /\ \A i \in Intents : intent[i].by # "not a string")

\* What requests leave is linked and keeps the contracts.
ConsoleSound == LinksAgree /\ ContractsHold

===============================================================================
