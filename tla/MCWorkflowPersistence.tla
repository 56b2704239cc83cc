------------------------ MODULE MCWorkflowPersistence ------------------------
(***************************************************************************)
(* A small instance of WorkflowPersistence for TLC.                        *)
(***************************************************************************)
EXTENDS WorkflowPersistence, TLC

CONSTANT u1

OneUser  == {u1}
OneOwner == [w \in Workflows |-> u1]

Symmetric == Permutations(Requests) \cup Permutations(Workflows)

\* Beyond a disturbance the properties promise nothing.
Undisturbed == ~disturbed

\* Workflows are dispatched until a third is planned or the process restarts.
DispatchesFirst ==
    (\E r \in Requests : req[r].pc # "idle" /\ req[r].op = "dispatch")
        => crashes = 0 /\ Cardinality({w \in Workflows : status[w] # "draft"}) <= 2

=============================================================================
