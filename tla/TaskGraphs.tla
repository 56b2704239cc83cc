------------------------------ MODULE TaskGraphs ------------------------------
(***************************************************************************)
(* Task graphs of the mainline: when one is accepted, and the order in     *)
(* which its tasks become the stages of a legacy workflow.  The code       *)
(* exists twice.  In JavaScript validateTaskGraphSemantics judges a graph  *)
(* and sortTasksTopologically orders it; in Rust TaskGraph.validate and    *)
(* plan_task_graph do, whose order comes in layers.  Both look for cycles  *)
(* by the same search.                                                     *)
(*                                                                         *)
(* A graph is a document: tasks in a sequence, with names that may repeat  *)
(* and dependencies that may be anything.  Names are numbers, ordered as   *)
(* the names are.                                                          *)
(***************************************************************************)
EXTENDS Integers, FiniteSets, SequencesExt

CONSTANTS
    TaskNames,      \* names of tasks
    Missing,        \* a name no task has
    Dependencies,   \* lists of dependencies a task may have
    MaxTasks        \* bound: tasks of the document

ASSUME GraphAssumption ==
    /\ TaskNames \subseteq Nat /\ Missing \in Nat \ TaskNames
    /\ Dependencies \subseteq Seq(TaskNames \cup {Missing})
    /\ MaxTasks \in Nat

VARIABLE document

\* Statuses, by what they mean to those that depend on the task and to those
\* it depends on: at work, settled, or (accepted with its evidence) both.  One
\* that is neither is to the former as one at work, to the latter as one waived.
TaskStatuses == {"working", "accepted", "waived"}

TaskNamesOf(doc) == {t.name : t \in ToSet(doc)}

RepeatsName(doc) == Cardinality(TaskNamesOf(doc)) < Len(doc)

GraphInit == document = << >>

\* A task is written into the document: the first has the first name, each
\* further one the next or a name that is taken, which ends the document.
AddTask ==
    /\ Len(document) < MaxTasks /\ ~RepeatsName(document)
    /\ \E name \in {n \in TaskNames : n <= Len(document) + 1},
          deps \in Dependencies, status \in TaskStatuses :
          document' = Append(document, [name |-> name, deps |-> deps, status |-> status])

GraphNext == AddTask

GraphSpec == GraphInit /\ [][GraphNext]_document

-----------------------------------------------------------------------------
(* What the two validators test *)

\* A map from names to tasks keeps the last of a name.
Named(doc, name) == doc[Max({i \in DOMAIN doc : doc[i].name = name})]

AtWork(task) == task.status \in {"working", "accepted"}

Settled(task) == task.status \in {"accepted", "waived"}

\* A dependency is unknown, on the task itself, or listed twice.
WrongDependency(doc, task) ==
    \/ ToSet(task.deps) \ TaskNamesOf(doc) # {}
    \/ task.name \in ToSet(task.deps)
    \/ ~IsInjective(task.deps)

\* A task is at work before what it depends on is settled.
OutrunsDependency(doc, task) ==
    /\ AtWork(task)
    /\ \E name \in ToSet(task.deps) \cap TaskNamesOf(doc) : ~Settled(Named(doc, name))

\* What each element of a sequence makes, in turn, of what there is.
InTurn(step, elements, start) ==
    LET after[n \in 0..Len(elements)] ==
            IF n = 0 THEN start ELSE step[elements[n]][after[n - 1]]
    IN after[Len(elements)]

NamesListed(doc) == [i \in DOMAIN doc |-> doc[i].name]

\* A search: what is on the path to where it is, what was left, and whether the
\* path closed.
Searches ==
    [visiting : SUBSET TaskNames, visited : SUBSET TaskNames, cycle : BOOLEAN]

\* One visit, which leaves the task's dependencies to visits below it.
Visit(doc, name, search, below) ==
    IF name \in search.visiting THEN [search EXCEPT !.cycle = TRUE]
    ELSE IF name \in search.visited \/ name \notin TaskNamesOf(doc) THEN search
    ELSE LET entered == [search EXCEPT !.visiting = @ \cup {name}]
             left    == InTurn(below, Named(doc, name).deps, entered)
         IN [left EXCEPT !.visiting = @ \ {name}, !.visited = @ \cup {name}]

\* Visits so many deep, which is enough: the tasks on a path are different ones,
\* and a visit below all of them enters none.
Visits(doc) ==
    LET visits[depth \in Nat] ==
            [name \in TaskNames \cup {Missing} |-> [search \in Searches |->
                IF depth = 0 THEN search ELSE Visit(doc, name, search, visits[depth - 1])]]
    IN visits[Len(doc) + 1]

\* detectCycles and dependency_cycle_issues.
CycleDetected(doc) ==
    InTurn(Visits(doc), NamesListed(doc),
           [visiting |-> {}, visited |-> {}, cycle |-> FALSE]).cycle

\* validateTaskGraphSemantics, with the schema's least number of tasks.
JsAccepts(doc) ==
    /\ doc # << >>
    /\ ~RepeatsName(doc)
    /\ \A task \in ToSet(doc) : ~WrongDependency(doc, task) /\ ~OutrunsDependency(doc, task)
    /\ ~CycleDetected(doc)

\* The structure is tested once more by the planner.
StructureAccepted(doc) ==
    ~RepeatsName(doc) /\ \A task \in ToSet(doc) : ~WrongDependency(doc, task)

\* TaskGraph.validate.
RustAccepts(doc) ==
    /\ doc # << >>
    /\ StructureAccepted(doc)
    /\ ~CycleDetected(doc)
    /\ \A task \in ToSet(doc) : ~OutrunsDependency(doc, task)

-----------------------------------------------------------------------------
(* The orders *)

\* A sort: what was entered, and the order.
Sorts == [visited : SUBSET TaskNames, ordered : Seq(TaskNames)]

MutatedPlace(doc, name, sort, below) ==
    IF name \in sort.visited \/ name \notin TaskNamesOf(doc) THEN sort
    ELSE InTurn(below, Named(doc, name).deps,
                [visited |-> sort.visited \cup {name}, ordered |-> Append(sort.ordered, name)])

\* The inner visit of sortTasksTopologically: a task follows what it depends on.
Place(doc, name, sort, below) ==
    IF name \in sort.visited \/ name \notin TaskNamesOf(doc) THEN sort
    ELSE LET entered == [sort EXCEPT !.visited = @ \cup {name}]
             left    == InTurn(below, Named(doc, name).deps, entered)
         IN [left EXCEPT !.ordered = Append(@, name)]

Places(doc) ==
    LET places[depth \in Nat] ==
            [name \in TaskNames \cup {Missing} |-> [sort \in Sorts |->
                IF depth = 0 THEN sort ELSE Place(doc, name, sort, places[depth - 1])]]
    IN places[Len(doc) + 1]

JsOrder(doc) ==
    InTurn(Places(doc), NamesListed(doc), [visited |-> {}, ordered |-> << >>]).ordered

ByName(names) ==
    CHOOSE s \in [1..Cardinality(names) -> names] :
        \A i, j \in 1..Cardinality(names) : i < j => s[i] < s[j]

\* plan_task_graph begins with the tasks that wait for nothing.
FirstPlan(doc) ==
    LET waits == [name \in TaskNamesOf(doc) |-> Cardinality(ToSet(Named(doc, name).deps))]
    IN [waits  |-> waits,
        ready  |-> {name \in TaskNamesOf(doc) : waits[name] = 0},
        order  |-> << >>,
        layers |-> << >>]

\* What is ready is a layer, by name; each task it holds up waits for one less.
NextPlan(doc, plan) ==
    IF plan.ready = {} THEN plan
    ELSE LET left == [name \in TaskNamesOf(doc) |->
                        plan.waits[name]
                           - Cardinality(ToSet(Named(doc, name).deps) \cap plan.ready)]
         IN [waits  |-> left,
             ready  |-> {name \in TaskNamesOf(doc) : left[name] = 0 /\ plan.waits[name] > 0},
             order  |-> plan.order \o ByName(plan.ready),
             layers |-> Append(plan.layers, plan.ready)]

\* There are no more layers than tasks.
RustPlan(doc) ==
    LET plan[n \in Nat] == IF n = 0 THEN FirstPlan(doc) ELSE NextPlan(doc, plan[n - 1])
    IN plan[Len(doc)]

-----------------------------------------------------------------------------
(* Properties *)

\* What a set of tasks needs from another: no order exists exactly if some
\* tasks each wait for one among themselves.
Deadlocked(doc) ==
    \E some \in (SUBSET TaskNamesOf(doc)) \ {{}} :
        \A name \in some : ToSet(Named(doc, name).deps) \cap some # {}

\* Every name is one task, whose dependencies are other tasks, each listed once,
\* and settled when it is at work; and the tasks can be done one after another.
Sound(doc) ==
    /\ doc # << >>
    /\ \A i, j \in DOMAIN doc : doc[i].name = doc[j].name => i = j
    /\ \A task \in ToSet(doc) :
          /\ ToSet(task.deps) \subseteq TaskNamesOf(doc) \ {task.name}
          /\ Cardinality(ToSet(task.deps)) = Len(task.deps)
          /\ AtWork(task) =>
                \A other \in ToSet(doc) : other.name \in ToSet(task.deps) => Settled(other)
    /\ ~Deadlocked(doc)

\* The order has each task once, after all it depends on.
Fits(doc, order) ==
    /\ ToSet(order) = TaskNamesOf(doc) /\ IsInjective(order)
    /\ \A i, j \in DOMAIN order : order[j] \in ToSet(Named(doc, order[i]).deps) => j < i

\* Both validators accept the sound documents and no others, and the stages both
\* make of one stand behind those they depend on; a task stands in the first
\* layer it can.
GraphsPlanned ==
    /\ JsAccepts(document) <=> Sound(document)
    /\ RustAccepts(document) <=> Sound(document)
    /\ Sound(document) =>
          /\ Fits(document, JsOrder(document))
          /\ Fits(document, RustPlan(document).order)
          /\ \A i \in DOMAIN RustPlan(document).layers : i > 1 =>
                \A name \in RustPlan(document).layers[i] :
                    ToSet(Named(document, name).deps) \cap RustPlan(document).layers[i - 1] # {}

=============================================================================
