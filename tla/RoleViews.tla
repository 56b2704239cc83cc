------------------------------ MODULE RoleViews ------------------------------
(***************************************************************************)
(* What a role is shown of the management centre: commands, projects,      *)
(* execution tasks, tasks of the graph, and a queue of what to do next.    *)
(* The code exists twice, in JavaScript (view-models.mjs) and in Rust      *)
(* (view_models.rs), and each takes every list through filters of its own. *)
(*                                                                         *)
(* The centre is written line by line.  Of actors a view asks only whether *)
(* they are the role's user.                                               *)
(***************************************************************************)
EXTENDS Naturals, FiniteSets

CONSTANTS
    QueueLength,    \* actions the queue has room for
    MaxLines,       \* bound: lines of the centre
    MaxOfKind       \* bound: lines of one kind

ASSUME ViewsAssumption == {QueueLength, MaxLines, MaxOfKind} \subseteq Nat

VARIABLE centre

Kinds == <<"command", "project", "task", "graph task", "gap", "gate", "mirror", "intent">>

KindPlace(kind) == CHOOSE i \in DOMAIN Kinds : Kinds[i] = kind

Of(kind) == {line \in centre : line.kind = kind}

CentreInit == centre = {}

NextId == Cardinality(centre) + 1

\* A line of each kind, with what the views look at, kind after kind.  Lines are
\* numbered, as titles are ordered; no due date is 0.
Write(line) ==
    /\ Cardinality(centre) < MaxLines
    /\ \A other \in centre : KindPlace(other.kind) <= KindPlace(line.kind)
    /\ Cardinality(Of(line.kind)) < MaxOfKind
    /\ centre' = centre \cup {line}

WriteCommand ==
    \E mine, ofGraph \in BOOLEAN :
        Write([id |-> NextId, kind |-> "command", mine |-> mine, ofGraph |-> ofGraph])

WriteProject ==
    \E mine, ofGraph \in BOOLEAN, lists \in SUBSET {c.id : c \in Of("command")} :
        Write([id |-> NextId, kind |-> "project", mine |-> mine, ofGraph |-> ofGraph,
               lists |-> lists])

TaskStates == {"planning", "delegated", "in_progress", "needs_info", "done"}

WriteTask ==
    \E mine, blocker \in BOOLEAN, status \in TaskStates, due \in {0, 1} :
        /\ blocker => status = "delegated"
        /\ Write([id |-> NextId, kind |-> "task", mine |-> mine, blocker |-> blocker,
                  status |-> status, due |-> due])

WriteGraphTask ==
    \E mine \in BOOLEAN : Write([id |-> NextId, kind |-> "graph task", mine |-> mine])

WriteGap ==
    \E mine \in BOOLEAN, priority \in {"high", "low"}, due \in {0, 2},
       status \in {"collecting", "closed"} :
        /\ status = "closed" => priority = "high" /\ due = 0
        /\ Write([id |-> NextId, kind |-> "gap", mine |-> mine, priority |-> priority,
                  due |-> due, status |-> status])

WriteGate ==
    \E mine \in BOOLEAN :
        Write([id |-> NextId, kind |-> "gate", mine |-> mine, status |-> "missing"])

WriteMirror == Write([id |-> NextId, kind |-> "mirror", status |-> "stale"])

WriteIntent ==
    \E risk \in {"high", "low"} :
        Write([id |-> NextId, kind |-> "intent", risk |-> risk, due |-> 1,
               status |-> "needs_confirmation"])

CentreNext ==
    WriteCommand \/ WriteProject \/ WriteTask \/ WriteGraphTask
    \/ WriteGap \/ WriteGate \/ WriteMirror \/ WriteIntent

CentreSpec == CentreInit /\ [][CentreNext]_centre

-----------------------------------------------------------------------------
(* Permissions *)

\* view_all_projects and view_management_dashboard open the same everywhere:
\* either is "view_all".
Permissions == {"view_all", "view_assigned_work", "configure_governance"}

SeesAll(may) == "view_all" \in may

\* canSeeDashboard and can_see_dashboard.
SeesDashboard(may) == SeesAll(may) \/ "configure_governance" \in may

\* Of all lines, of those that are the role's own, or of none.
Filter(all, assigned, lines) ==
    IF all THEN lines ELSE IF assigned THEN {l \in lines : l.mine} ELSE {}

Assigned(may) == "view_assigned_work" \in may

-----------------------------------------------------------------------------
(* The lists *)

\* filterVisibleCommands; Rust keeps the ids in its role context.
JsCommands(may) == Filter(SeesAll(may), Assigned(may), Of("command"))

RustCommands(may) ==
    {c \in Of("command") :
        c.id \in {d.id : d \in Filter(SeesAll(may), Assigned(may), Of("command"))}}

Shows(project, commands) == project.mine \/ project.lists \cap {c.id : c \in commands} # {}

\* filterVisibleProjects, and visible_projects, which does not ask for the
\* permission to view assigned work.
JsProjects(may) ==
    {p \in Of("project") :
        SeesAll(may) \/ (Assigned(may) /\ Shows(p, JsCommands(may)))}

RustProjects(may) ==
    {p \in Of("project") : SeesAll(may) \/ Shows(p, RustCommands(may))}

MutatedJsTasks(may) == Filter(SeesDashboard(may), Assigned(may), Of("task"))

\* canSeeExecutionTask, and can_see_execution_task, for which those who
\* configure the governance see all.
JsTasks(may) == Filter(SeesAll(may), Assigned(may), Of("task"))

RustTasks(may) == Filter(SeesDashboard(may), Assigned(may), Of("task"))

GraphInSight(commands, projects) == \E l \in commands \cup projects : l.ofGraph

\* canSeeTask and can_see_task.
JsGraphTasks(may) ==
    {t \in Of("graph task") :
        \/ SeesAll(may)
        \/ Assigned(may) /\ (t.mine \/ GraphInSight(JsCommands(may), JsProjects(may)))}

RustGraphTasks(may) ==
    {t \in Of("graph task") :
        \/ SeesDashboard(may)
        \/ Assigned(may) /\ (t.mine \/ GraphInSight(RustCommands(may), RustProjects(may)))}

-----------------------------------------------------------------------------
(* The queue of what to do next: buildRoleActionQueue and
   build_role_action_queue *)

Open(lines) == {l \in lines : l.status \notin {"done", "closed"}}

\* What has an owner is for the owner and for the dashboards, the rest for the
\* dashboards.
Asked(may) ==
    Open({l \in centre :
        \/ l.kind \in {"gap", "gate"} /\ (SeesDashboard(may) \/ l.mine)
        \/ l.kind \in {"mirror", "intent"} /\ SeesDashboard(may)})

JsActions(may) == Open(JsTasks(may)) \cup Asked(may)

RustActions(may) == Open(RustTasks(may)) \cup Asked(may)

\* executionTaskPriority and execution_task_priority.
TaskPriority(t) ==
    IF t.status = "needs_info" \/ t.blocker THEN 0
    ELSE IF t.status = "in_progress" THEN 1 ELSE 2

\* Of high priority 0.  In Rust an intent is, whatever its risk.
JsPriority(l) ==
    CASE l.kind = "task"   -> TaskPriority(l)
      [] l.kind = "gap"    -> IF l.priority = "high" THEN 0 ELSE 2
      [] l.kind = "gate"   -> 0
      [] l.kind = "mirror" -> 1
      [] l.kind = "intent" -> IF l.risk = "high" THEN 0 ELSE 1

RustPriority(l) == IF l.kind = "intent" THEN 0 ELSE JsPriority(l)

Due(l) == IF l.kind \in {"gate", "mirror"} THEN 0 ELSE l.due

\* statusRank.
StatusRank(status) ==
    CASE status \in {"needs_info", "missing"} -> 1
      [] status = "collecting"                -> 2
      [] status = "in_progress"               -> 3
      [] status = "delegated"                 -> 5
      [] OTHER                                -> 9

\* Lexicographic order of tuples.
Before(a, b) == \E i \in DOMAIN a : a[i] < b[i] /\ \A j \in 1 .. i - 1 : a[j] = b[j]

\* compareRoleActions: what has no due date comes last; in Rust it comes first.
NoDueDate == 9

JsKey(l) == <<JsPriority(l), IF Due(l) = 0 THEN NoDueDate ELSE Due(l), StatusRank(l.status), l.id>>

RustKey(l) == <<RustPriority(l), Due(l), l.id>>

Queue(actions, Key(_)) ==
    {a \in actions : Cardinality({b \in actions : Before(Key(b), Key(a))}) < QueueLength}

JsQueue(may) == Queue(JsActions(may), JsKey)

RustQueue(may) == Queue(RustActions(may), RustKey)

-----------------------------------------------------------------------------
(* Properties *)

JsPage(may) == JsCommands(may) \cup JsProjects(may) \cup JsTasks(may) \cup JsGraphTasks(may)

RustPage(may) ==
    RustCommands(may) \cup RustProjects(may) \cup RustTasks(may) \cup RustGraphTasks(may)

\* The two versions show a role one page, but for the roles that only configure
\* the governance and for projects of those who view no work, whose page is empty
\* in JavaScript; they ask it for the same if all has room in the queue; a
\* permission more never hides a line of the page or an action; and a task the
\* role is asked to do is on its page.
RoleViewsAgree ==
    LET PerRole(Shown(_)) == [may \in SUBSET Permissions |-> Shown(may)]
        page     == [js |-> PerRole(JsPage), rust |-> PerRole(RustPage)]
        actions  == [js |-> PerRole(JsActions), rust |-> PerRole(RustActions)]
        IsTask(l) == l.kind = "task"
    IN \A may \in SUBSET Permissions :
        /\ SeesAll(may) \/ (Assigned(may) /\ "configure_governance" \notin may) =>
              /\ page.js[may] = page.rust[may]
              /\ Cardinality(actions.js[may]) <= QueueLength => JsQueue(may) = RustQueue(may)
        /\ ~SeesAll(may) /\ ~Assigned(may) => page.js[may] = {}
        /\ \A one \in Permissions \ may, code \in {"js", "rust"} :
              /\ page[code][may] \subseteq page[code][may \cup {one}]
              /\ actions[code][may] \subseteq actions[code][may \cup {one}]
        /\ {a \in JsQueue(may) : IsTask(a)} \subseteq page.js[may]
        /\ {a \in RustQueue(may) : IsTask(a)} \subseteq page.rust[may]

=============================================================================
