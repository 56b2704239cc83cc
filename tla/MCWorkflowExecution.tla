-------------------------- MODULE MCWorkflowExecution --------------------------
(***************************************************************************)
(* Small instances of WorkflowExecution for TLC.                           *)
(***************************************************************************)
EXTENDS WorkflowExecution

CONSTANT u1

OneUser  == {u1}
OneOwner == [w \in Workflows |-> u1]

\* A behaviour has every fault, or none but attempts that time out and fair
\* processes: it then has no pause either, since a workflow that is resumed
\* after its run ended has none.
VARIABLE part

PartInit == part \in {"faults", "ends"} /\ ExecutionInit

PartNext ==
    /\ UNCHANGED part
    /\ ExecutionNext
    /\ part = "ends" =>
          /\ crashes' = 0
          /\ \A r \in Requests : req'[r].pc # "idle" => req'[r].op \notin {"pause", "resume"}

PartSpec ==
    /\ PartInit /\ [][PartNext]_<<allVars, part>>
    /\ part = "ends" => ExecutionFairness

\* In the behaviours without faults, what is dispatched ends.
FairRunEnds == part = "ends" => DispatchedRunEnds

===============================================================================
