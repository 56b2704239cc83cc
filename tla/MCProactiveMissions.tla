------------------------- MODULE MCProactiveMissions -------------------------
(***************************************************************************)
(* A few invocations of the proactive orchestrator's handlers, for TLC.    *)
(***************************************************************************)
EXTENDS ProactiveMissions, TLC

CONSTANTS s1, s2, v1, v2, d1, d2, c1, b1, f1, f2

Symmetry == Permutations(Dispatches)

\* A bound for the runs with several dispatches: they start when the scans and
\* reviews are over.
DispatchLast ==
    (\E d \in Dispatches : pc[d] # "idle") => \A h \in Scans \cup Reviews : pc[h] \in {"idle", "done"}

===============================================================================
