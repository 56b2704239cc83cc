----------------------------- MODULE WorkflowLock -----------------------------
(***************************************************************************)
(* withWorkflowLock (services/workflow/src/index.ts): a chain of promises  *)
(* per workflow.  A call makes a promise, puts it into workflowLocks as    *)
(* the last of its workflow, awaits the one that was there, runs its body, *)
(* resolves its promise, and deletes the map's entry if it is still its    *)
(* own.  The promise of a call is named by the call.                       *)
(***************************************************************************)
EXTENDS Naturals, FiniteSets

CONSTANTS Calls, Refs, RefOf, NoCall

ASSUME LockAssumption ==
    /\ RefOf \in [Calls -> Refs]
    /\ NoCall \notin Calls

VARIABLES
    pc,         \* where a call is
    previous,   \* previousLock of a call, NoCall for Promise.resolve()
    locks,      \* workflowLocks, NoCall where the map has no entry
    ticket,     \* history: the order in which the calls came
    clock       \* history: their number

vars == <<pc, previous, locks, ticket, clock>>

Active(c) == pc[c] \in {"waiting", "inside"}

\* The promise of a call is resolved.
Resolved(c) == pc[c] = "done"

TypeOK ==
    /\ pc \in [Calls -> {"new", "waiting", "inside", "done"}]
    /\ previous \in [Calls -> Calls \cup {NoCall}]
    /\ locks \in [Refs -> Calls \cup {NoCall}]
    /\ ticket \in [Calls -> Nat]
    /\ clock \in Nat

Init ==
    /\ pc = [c \in Calls |-> "new"]
    /\ previous = [c \in Calls |-> NoCall]
    /\ locks = [w \in Refs |-> NoCall]
    /\ ticket = [c \in Calls |-> 0]
    /\ clock = 0

\* What a call finds in the map and awaits.
MutatedAwaited(c) == c

Awaited(c) == locks[RefOf[c]]

\* Up to `await previousLock`, which is one synchronous stretch.
Enter(c) ==
    /\ pc[c] = "new"
    /\ previous' = [previous EXCEPT ![c] = Awaited(c)]
    /\ locks' = [locks EXCEPT ![RefOf[c]] = c]
    /\ pc' = [pc EXCEPT ![c] = "waiting"]
    /\ clock' = clock + 1
    /\ ticket' = [ticket EXCEPT ![c] = clock + 1]

\* The awaited promise is resolved: the body runs.
Acquire(c) ==
    /\ pc[c] = "waiting"
    /\ previous[c] # NoCall => Resolved(previous[c])
    /\ pc' = [pc EXCEPT ![c] = "inside"]
    /\ UNCHANGED <<previous, locks, ticket, clock>>

\* What the finally block leaves in the map.
MutatedAfterLeave(c) == [locks EXCEPT ![RefOf[c]] = NoCall]

AfterLeave(c) ==
    IF locks[RefOf[c]] = c THEN [locks EXCEPT ![RefOf[c]] = NoCall] ELSE locks

\* The body returned or threw.
Leave(c) ==
    /\ pc[c] = "inside"
    /\ pc' = [pc EXCEPT ![c] = "done"]
    /\ locks' = AfterLeave(c)
    /\ UNCHANGED <<previous, ticket, clock>>

Next == \E c \in Calls : Enter(c) \/ Acquire(c) \/ Leave(c)

Spec == Init /\ [][Next]_vars

\* Promises that are resolved are noticed, and bodies end.
LockFairness == \A c \in Calls : WF_vars(Acquire(c)) /\ WF_vars(Leave(c))

FairSpec == Spec /\ LockFairness

-----------------------------------------------------------------------------
(* Properties *)

\* At most one call is inside the lock of a workflow.
Exclusive ==
    \A c, d \in Calls :
        pc[c] = "inside" /\ pc[d] = "inside" /\ RefOf[c] = RefOf[d] => c = d

\* The lock the callers rely on; the place of a call is the history's ticket.
Fifo == INSTANCE FifoLock WITH
            Calls <- Calls, Refs <- Refs, RefOf <- RefOf,
            pc <- pc, ticket <- ticket, clock <- clock

\* The chain of promises implements that lock: one at a time, in the order of
\* arrival.
ImplementsFifo == Fifo!FifoSpec

\* No call waits forever.
EveryCallServed == \A c \in Calls : pc[c] = "waiting" ~> pc[c] = "done"

-----------------------------------------------------------------------------
(* The inductive invariant *)

\* Calls of one workflow have their own tickets.
TicketsOrder ==
    /\ \A c \in Calls :
          IF pc[c] = "new" THEN ticket[c] = 0 ELSE ticket[c] \in 1..clock
    /\ \A c, d \in Calls : pc[c] # "new" /\ ticket[c] = ticket[d] => c = d

\* The entry of the map is the last call that came; without an entry every
\* call that came is done.
EntryIsLast ==
    \A c \in Calls :
        LET last == locks[RefOf[c]] IN
        pc[c] # "new" =>
            \/ last = NoCall /\ Resolved(c)
            \/ last \in Calls /\ RefOf[last] = RefOf[c] /\ Active(last)
               /\ ticket[c] <= ticket[last]

\* A call awaits the one that came before it, with none in between.
AwaitsPredecessor ==
    \A c, d \in Calls :
        Active(c) /\ pc[d] # "new" /\ RefOf[d] = RefOf[c] /\ ticket[d] < ticket[c] =>
            \/ Resolved(d)
            \/ /\ previous[c] \in Calls
               /\ RefOf[previous[c]] = RefOf[c]
               /\ pc[previous[c]] # "new"
               /\ ticket[d] <= ticket[previous[c]]
               /\ ticket[previous[c]] < ticket[c]

\* Calls leave in the order they came.
LeaveInOrder ==
    \A c, d \in Calls :
        pc[c] \in {"inside", "done"} /\ pc[d] # "new" /\ RefOf[d] = RefOf[c]
            /\ ticket[d] < ticket[c] => Resolved(d)

Inductive ==
    /\ TypeOK
    /\ TicketsOrder
    /\ EntryIsLast
    /\ AwaitsPredecessor
    /\ LeaveInOrder

===============================================================================
