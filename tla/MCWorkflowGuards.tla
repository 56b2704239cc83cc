-------------------------- MODULE MCWorkflowGuards --------------------------
(***************************************************************************)
(* Small instances of what the workflow service keeps beside its store:    *)
(* the supervisor, the checkpoint manager and the lock.  They share no     *)
(* state, so a behaviour exercises one of them.                            *)
(***************************************************************************)
EXTENDS Supervision, Checkpoints, WorkflowLock, TLC

CONSTANTS c1, c2, c3, c4, w1, w2

\* Three calls for one workflow and one for another.
Chosen == (c1 :> w1) @@ (c2 :> w1) @@ (c3 :> w1) @@ (c4 :> w2)

VARIABLE guard

GuardsInit ==
    /\ guard \in {"supervisor", "checkpoints", "lock"}
    /\ SupInit
    /\ CpInit
    /\ Init

GuardsNext ==
    /\ UNCHANGED guard
    /\ \/ guard = "supervisor" /\ SupNext /\ UNCHANGED <<cpVars, vars>>
       \/ guard = "checkpoints" /\ CpNext /\ UNCHANGED <<supVars, vars>>
       \/ guard = "lock" /\ Next /\ UNCHANGED <<supVars, cpVars>>

\* A guard that is not exercised has nothing under way, so its fairness asks
\* for nothing.
GuardsSpec ==
    /\ GuardsInit /\ [][GuardsNext]_<<supVars, cpVars, vars, guard>>
    /\ SupFairness
    /\ LockFairness

=============================================================================
