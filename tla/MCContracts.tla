----------------------------- MODULE MCContracts -----------------------------
(***************************************************************************)
(* Small instances of the mainline's documents: those the server of the    *)
(* operations console keeps and lays before the bridge to the legacy       *)
(* system, and those that the two versions of the contracts, one in        *)
(* JavaScript and one in Rust, judge, order, send on and show.  The parts  *)
(* touch no common variable, so a behaviour exercises one of them.         *)
(***************************************************************************)
EXTENDS ConsoleBridge, TaskGraphs, RoleViews

CONSTANTS e1, e2, e3, e4, champion, nextAction, gapChampion, dG1, dG7, acme, acmeToo,
          specialist, p1, p2, i1, i2, t1, t2

MCGapTask == gapChampion :> champion

\* What the gap and the gates D-G1 and D-G7 of the sales model take.
MCExpects ==
    gapChampion :> {"quote", "meeting"} @@ dG1 :> {"quote"} @@ dG7 :> {"calendar", "meeting"}

MCFirstEvidence ==
    {[id |-> e1, type |-> "calendar", task |-> nextAction, opportunity |-> Opportunity],
     [id |-> e2, type |-> "snapshot", task |-> Null, opportunity |-> Opportunity]}

\* Two titles, in Chinese but for a name, have one slug; a third has it with a
\* suffix.
MCSlug == acme :> <<"acme">> @@ acmeToo :> <<"acme">>
          @@ specialist :> <<"acme", "specialist">>

\* Lists of dependencies: known, unknown and repeated names, up to two.
MCDependencies ==
    {<< >>, <<1>>, <<2>>, <<3>>, <<2, 1>>, <<2, 2>>, <<9>>}

\* The bridge's tasks, of which no property tells one from the other.
MCSymmetry == Permutations({t1, t2})

VARIABLE part

documentVars == <<docs, document, centre>>

PartInit ==
    /\ part \in {"evidence", "intents", "commands", "bridge", "graph", "views"}
    /\ ConsoleInit
    /\ BridgeInit
    /\ GraphInit
    /\ CentreInit

PartNext ==
    /\ UNCHANGED part
    /\ \/ /\ part = "evidence"
          /\ SubmitEvidence \/ \E g \in Gaps : ReplyToGap(g)
          /\ UNCHANGED documentVars
       \/ part = "intents" /\ (\E i \in Intents : DecideWriteback(i)) /\ UNCHANGED documentVars
       \/ part = "commands" /\ CreateManagementCommand /\ UNCHANGED documentVars
       \/ part = "bridge" /\ BridgeNext /\ UNCHANGED <<consoleVars, document, centre>>
       \/ part = "graph" /\ GraphNext /\ UNCHANGED <<consoleVars, docs, centre>>
       \/ part = "views" /\ CentreNext /\ UNCHANGED <<consoleVars, docs, document>>

PartSpec == PartInit /\ [][PartNext]_<<consoleVars, documentVars, part>>

=============================================================================
