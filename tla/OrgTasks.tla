------------------------------- MODULE OrgTasks -------------------------------
(***************************************************************************)
(* One organisation task on its way to the users                           *)
(* (apps/gateway-adapter/src/index.ts).  A round, of the portal's task     *)
(* scheduler, of an admin or of a chat message, posts to the assign route  *)
(* and then to the notify route; users submit their answers meanwhile.     *)
(*                                                                         *)
(* The routes run one statement after the other, without a transaction.    *)
(* The caller of a round waits for assign up to a timeout and then posts   *)
(* notify all the same.                                                    *)
(***************************************************************************)
EXTENDS Naturals

CONSTANTS
    Users,      \* the users of the task's organisation
    Rounds,     \* rounds of assign and notify
    Submits     \* calls of the submit route

\* Rows of org_task_assignment: a round inserts one for a user at most.
Rows == Rounds \X Users
NoRow == [status |-> "none", answers |-> 0]
Still == [pc |-> "still", todo |-> {}]

VARIABLES
    exists,     \* the row of org_task
    row,        \* the rows of org_task_assignment: status, and the history of
                \*   how many answers they took
    assign,     \* per round: the assign call, with the users to go
    notify,     \* per round: the notify call, with the rows to go
    submit,     \* submit calls under way
    deleting,   \* the delete route is between its statements
    reopened,   \* history: rows a notify call took back from "completed"
    contested,  \* history: rows two submits read before either wrote
    together    \* history: pairs of rounds whose assign calls overlapped

taskVars == <<exists, row, assign, notify, submit, deleting, reopened, contested,
              together>>

Open(r) == row[r].status \in {"pending", "notified"}

TaskInit ==
    /\ exists = TRUE
    /\ row = [r \in Rows |-> NoRow]
    /\ assign = [c \in Rounds |-> Still]
    /\ notify = [c \in Rounds |-> Still]
    /\ submit = [s \in Submits |-> [pc |-> "still"]]
    /\ deleting = "no"
    /\ reopened = {}
    /\ contested = {}
    /\ together = {}

-----------------------------------------------------------------------------
(* POST /internal/tasks/assign *)

Assigning(c) == assign[c].pc \in {"checking", "inserting"}

\* The task and its users are read.
AssignStart(c) ==
    /\ assign[c].pc = "still"
    /\ exists
    /\ assign' = [assign EXCEPT ![c] = [pc |-> "checking", todo |-> Users]]
    /\ together' = together \cup {{c, o} : o \in {o \in Rounds : Assigning(o)}}
    /\ UNCHANGED <<exists, row, notify, submit, deleting, reopened, contested>>

\* The user has a row that is not answered.
Asked(u) == \E c \in Rounds : Open(<<c, u>>)

\* Such a user is passed over.
AssignCheck(c, u) ==
    /\ assign[c].pc = "checking"
    /\ u \in assign[c].todo
    /\ assign' = [assign EXCEPT ![c] =
                    IF Asked(u)
                    THEN [assign[c] EXCEPT !.todo = @ \ {u}]
                    ELSE [pc |-> "inserting", todo |-> @.todo, user |-> u]]
    /\ UNCHANGED <<exists, row, notify, submit, deleting, reopened, contested, together>>

\* The foreign key refuses the row of a task that is gone, and the call ends.
AssignInsert(c) ==
    LET u == assign[c].user IN
    /\ assign[c].pc = "inserting"
    /\ IF exists
       THEN /\ row' = [row EXCEPT ![<<c, u>>] = [status |-> "pending", answers |-> 0]]
            /\ assign' = [assign EXCEPT ![c] = [pc |-> "checking", todo |-> @.todo \ {u}]]
       ELSE /\ assign' = [assign EXCEPT ![c] = [pc |-> "ended", todo |-> {}]]
            /\ UNCHANGED row
    /\ UNCHANGED <<exists, notify, submit, deleting, reopened, contested, together>>

\* After the last user, or with an error of the database.
AssignEnd(c) ==
    /\ Assigning(c)
    /\ assign' = [assign EXCEPT ![c] = [pc |-> "ended", todo |-> {}]]
    /\ UNCHANGED <<exists, row, notify, submit, deleting, reopened, contested, together>>

-----------------------------------------------------------------------------
(* POST /internal/tasks/notify *)

\* The round goes on once its assign call has ended, or has taken too long.
NotifyStart(c) ==
    /\ notify[c].pc = "still"
    /\ assign[c].pc # "still"
    /\ exists
    /\ notify' = [notify EXCEPT ![c] =
                    [pc |-> "sending", todo |-> {r \in Rows : row[r].status = "pending"}]]
    /\ UNCHANGED <<exists, row, assign, submit, deleting, reopened, contested, together>>

\* The messages are sent, or fail, and the row is marked by its id alone.
NotifyMark(c, r) ==
    /\ notify[c].pc = "sending"
    /\ r \in notify[c].todo
    /\ notify' = [notify EXCEPT ![c].todo = @ \ {r}]
    /\ IF row[r].status = "none"
       THEN UNCHANGED <<row, reopened>>
       ELSE /\ row' = [row EXCEPT ![r].status = "notified"]
            /\ reopened' = IF row[r].status = "completed" THEN reopened \cup {r}
                           ELSE reopened
    /\ UNCHANGED <<exists, assign, submit, deleting, contested, together>>

-----------------------------------------------------------------------------
(* POST /tasks/:id/submit *)

\* An answered row takes no second answer.
MutatedTakesAnswer(r) == row[r].status # "none"

TakesAnswer(r) == row[r].status \notin {"none", "completed"}

SubmitRead(s, r) ==
    /\ submit[s].pc = "still"
    /\ TakesAnswer(r)
    /\ submit' = [submit EXCEPT ![s] = [pc |-> "writing", row |-> r]]
    /\ contested' = IF \E o \in Submits : submit[o] = [pc |-> "writing", row |-> r]
                    THEN contested \cup {r} ELSE contested
    /\ UNCHANGED <<exists, row, assign, notify, deleting, reopened, together>>

SubmitWrite(s) ==
    LET r == submit[s].row IN
    /\ submit[s].pc = "writing"
    /\ submit' = [submit EXCEPT ![s] = [pc |-> "ended"]]
    /\ row' = IF row[r].status = "none" THEN row
              ELSE [row EXCEPT ![r] = [status |-> "completed", answers |-> @.answers + 1]]
    /\ UNCHANGED <<exists, assign, notify, deleting, reopened, contested, together>>

-----------------------------------------------------------------------------
(* DELETE /admin/tasks/:id *)

DeleteRows ==
    /\ exists
    /\ deleting = "no"
    /\ deleting' = "rows"
    /\ row' = [r \in Rows |-> NoRow]
    /\ UNCHANGED <<exists, assign, notify, submit, reopened, contested, together>>

\* The rows inserted since are deleted with the task.
DeleteTask ==
    /\ deleting = "rows"
    /\ deleting' = "task"
    /\ exists' = FALSE
    /\ row' = [r \in Rows |-> NoRow]
    /\ UNCHANGED <<assign, notify, submit, reopened, contested, together>>

TaskNext ==
    \/ \E c \in Rounds :
          \/ AssignStart(c) \/ AssignInsert(c) \/ AssignEnd(c) \/ NotifyStart(c)
          \/ \E u \in Users : AssignCheck(c, u)
          \/ \E r \in Rows : NotifyMark(c, r)
    \/ \E s \in Submits : SubmitWrite(s) \/ \E r \in Rows : SubmitRead(s, r)
    \/ DeleteRows
    \/ DeleteTask

TaskSpec == TaskInit /\ [][TaskNext]_taskVars

-----------------------------------------------------------------------------
(* Properties *)

\* An answer is replaced only where two submits ran together, or where a
\* notify call that read the row before the answer set it back after it.
AnsweredOnce ==
    \A r \in Rows : row[r].answers > 1 => r \in reopened \cup contested

\* A user has one open row for the task, unless two assign calls ran together
\* or an answered row was set back.
AskedOnce ==
    \A r1, r2 \in {r \in Rows : Open(r)} :
        r1 # r2 /\ r1[2] = r2[2]
            => {r1[1], r2[1]} \in together \/ reopened \cap {r1, r2} # {}

\* Rounds, answers and notifications that overlap keep one open row for a user
\* and the answer it got, but for these races.
RoundsAgree == AnsweredOnce /\ AskedOnce

=============================================================================
