---------------------------- MODULE ConsoleBridge ----------------------------
(***************************************************************************)
(* The operations console and the bridge to the legacy system: every time  *)
(* the page is loaded the server lays its task graph, gaps, evidence and   *)
(* intents before the bridge, with the decision it shows for each intent   *)
(* (server.mjs, loadState).                                                *)
(***************************************************************************)
EXTENDS OpsConsole, LegacyBridge

\* The fixture's evidence is of tasks of the graph, or of none.
ASSUME ConsoleBridgeAssumption ==
    /\ IsFiniteSet(Gaps) /\ IsFiniteSet(Intents)
    /\ \A e \in FirstEvidence : e.task \in GraphTasks \cup {Null}

\* A gap is listed by its task; evidence that is submitted names no gap; the
\* intents of the fixture name no task, and rest on evidence of the fixture.
ConsoleGaps ==
    {[id |-> g, task |-> GapTask[g], open |-> gap[g].status \notin {"closed", "waived"},
      closedBy |-> gap[g].closedBy] : g \in Gaps}

ConsolePieces ==
    [k \in DOMAIN evidence |->
        [id |-> evidence[k].id, task |-> IF evidence[k].task = Null THEN Nobody
                                         ELSE evidence[k].task,
         gap |-> Nobody,
         opportunity |-> CASE evidence[k].opportunity = Opportunity -> "of the graph"
                           [] evidence[k].opportunity = Null -> "none"
                           [] OTHER -> "other"]]

ConsoleIntents ==
    {[id |-> i, task |-> Nobody, evidence |-> Ids(FirstEvidence), risk |-> "low",
      operation |-> "create_note", touchesRisk |-> FALSE,
      stored |-> intent[i].decision] : i \in Intents}

MutatedVisibleDecision(i) == Policy(i)

\* buildVisibleWritebackDecision: what was rejected stays so, the rest is as the
\* policy finds it.
VisibleDecision(i) == IF i.stored = "reject" THEN "reject" ELSE Policy(i)

ConsoleDocs ==
    [tasks |-> [t \in GraphTasks |->
        [evidence |-> taskEvidence[t], gaps |-> {g \in Gaps : GapTask[g] = t}]],
     gaps |-> SetToSeq(ConsoleGaps),
     evidence |-> ConsolePieces,
     intents |-> SetToSeq(ConsoleIntents),
     decisions |-> SetToSeq({[id |-> i.id, recommendation |-> VisibleDecision(i),
                              final |-> Nobody] : i \in ConsoleIntents})]

\* Whether the preview on the page has payloads: the documents are valid, and fit.
PreviewOk == (\A i \in Intents : IntentValid(i)) /\ JsBridgeOk(ConsoleDocs)

\* Whatever is submitted, replied and decided, the bridge stays open, until two
\* pieces of evidence get one id or somebody decides whose name is no string; and
\* what it would send is what the users did: no task for a gap that was rebutted,
\* and a rejection for what was rejected.
BridgeStaysOpen ==
    /\ PreviewOk <=>
          /\ \A k, l \in DOMAIN evidence : evidence[k].id = evidence[l].id => k = l
          /\ \A i \in Intents : intent[i].by # "not a string"
    /\ PreviewOk =>
          /\ OrgTasksSent(ConsoleDocs) =
                Gaps \ {r.gap : r \in {s \in replies : s.decision = "rebut"}}
          /\ \A audit \in AuditsSent(ConsoleDocs) :
                audit.decision = "reject" <=> intent[audit.intent].decision = "reject"

=============================================================================
