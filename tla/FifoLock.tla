------------------------------- MODULE FifoLock -------------------------------
(***************************************************************************)
(* What a lock per workflow promises its callers: the calls for a workflow *)
(* are inside one at a time, in the order they came.                       *)
(***************************************************************************)
EXTENDS Naturals

CONSTANTS
    Calls,      \* invocations, each with a workflow it is for
    Refs,
    RefOf       \* the workflow of a call

VARIABLES
    pc,         \* where a call is
    ticket,     \* the place of a call in the order of arrival, 0 before
    clock       \* number of calls that have come

lockVars == <<pc, ticket, clock>>

Active(c) == pc[c] \in {"waiting", "inside"}

FifoInit ==
    /\ pc = [c \in Calls |-> "new"]
    /\ ticket = [c \in Calls |-> 0]
    /\ clock = 0

FifoEnter(c) ==
    /\ pc[c] = "new"
    /\ clock' = clock + 1
    /\ ticket' = [ticket EXCEPT ![c] = clock + 1]
    /\ pc' = [pc EXCEPT ![c] = "waiting"]

FifoAcquire(c) ==
    /\ pc[c] = "waiting"
    /\ \A d \in Calls :
          Active(d) /\ RefOf[d] = RefOf[c] => ticket[d] >= ticket[c]
    /\ pc' = [pc EXCEPT ![c] = "inside"]
    /\ UNCHANGED <<ticket, clock>>

FifoLeave(c) ==
    /\ pc[c] = "inside"
    /\ pc' = [pc EXCEPT ![c] = "done"]
    /\ UNCHANGED <<ticket, clock>>

FifoNext == \E c \in Calls : FifoEnter(c) \/ FifoAcquire(c) \/ FifoLeave(c)

FifoSpec == FifoInit /\ [][FifoNext]_lockVars

===============================================================================
