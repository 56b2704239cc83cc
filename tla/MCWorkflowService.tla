-------------------------- MODULE MCWorkflowService --------------------------
(***************************************************************************)
(* Small instances of WorkflowService for TLC.                             *)
(***************************************************************************)
EXTENDS WorkflowService, TLC

CONSTANT u1

OneUser  == {u1}
OneOwner == [w \in Workflows |-> u1]

Symmetric == Permutations(Requests)

=============================================================================
