----------------------------- MODULE LegacyBridge -----------------------------
(***************************************************************************)
(* The bridge of the mainline to the legacy system: one look at a task     *)
(* graph, its gaps, its evidence and the intents to write to external      *)
(* systems, which becomes a workflow, organisation tasks, facts and audit  *)
(* events, or is refused as a whole.  The code exists twice: in JavaScript *)
(* buildLegacyBridgePreview (adapter.mjs), in Rust                         *)
(* build_legacy_bridge_preview (adapter.rs).                               *)
(*                                                                         *)
(* Every document is valid taken alone; what is written here is how they   *)
(* may disagree.  They are sequences, in which an id may repeat.           *)
(***************************************************************************)
EXTENDS Naturals, FiniteSets, SequencesExt

CONSTANTS
    BridgeTasks,    \* tasks of the graph
    BridgeGaps,     \* ids of gaps
    Pieces,         \* ids of evidence
    BridgeIntents,  \* ids of intents
    Absent,         \* no id, or an unknown one
    Nobody,
    MaxDocuments    \* bound: documents and links

Strictness == [auto_execute |-> 0, needs_confirmation |-> 1, manual_only |-> 2, reject |-> 3]

PolicyDecisions == DOMAIN Strictness

ASSUME BridgeAssumption ==
    /\ {Absent, Nobody} \cap (BridgeTasks \cup BridgeGaps \cup Pieces \cup BridgeIntents) = {}
    /\ Nobody \notin PolicyDecisions
    /\ Absent # Nobody
    /\ MaxDocuments \in Nat

VARIABLE docs

BridgeIds(items) == {item.id : item \in ToSet(items)}

\* Maps by id keep the last; no map is asked for what it does not have.
LastOf(items, id) == items[Max({i \in DOMAIN items : items[i].id = id})]

Repeats(items) == Cardinality(BridgeIds(items)) < Len(items)

-----------------------------------------------------------------------------
(* The policy of an intent *)

HighRiskOperations == {"update_field", "update_status"}

LowRiskOperations == {"create_note", "create_task", "create_comment", "add_link"}

\* decideWritebackPolicy and decide_writeback_policy: of the payload, whether a
\* field at any depth is one that matters.
Policy(intent) ==
    CASE \/ intent.risk = "high" \/ intent.operation \in HighRiskOperations
         \/ intent.touchesRisk \/ intent.risk = "medium" -> "needs_confirmation"
      [] OTHER -> IF intent.operation \in LowRiskOperations
                  THEN "auto_execute" ELSE "manual_only"

AtLeast(decision, required) == Strictness[decision] >= Strictness[required]

\* writebackIntentToLegacyAuditEvent: the stricter of the stored decision and
\* the one supplied.
EffectiveDecision(intent, supplied) ==
    IF AtLeast(intent.stored, supplied) THEN intent.stored ELSE supplied

-----------------------------------------------------------------------------
(* How the documents must fit, as both versions test it *)

MutatedGapFits(d, g) ==
    /\ g.task \in DOMAIN d.tasks
    /\ \A id \in g.closedBy :
          /\ id \in BridgeIds(d.evidence)
          /\ LastOf(d.evidence, id).gap \in {Nobody, g.id}

\* A gap's task is known, and evidence that closes it is, and is of no other
\* task and no other gap.
GapFits(d, g) ==
    /\ g.task \in DOMAIN d.tasks
    /\ \A id \in g.closedBy :
          /\ id \in BridgeIds(d.evidence)
          /\ LastOf(d.evidence, id).task \in {Nobody, g.task}
          /\ LastOf(d.evidence, id).gap \in {Nobody, g.id}

\* The task and the gap of evidence are known, and the gap is the task's.
PieceFits(d, e) ==
    /\ e.task \in DOMAIN d.tasks \cup {Nobody}
    /\ e.gap \in BridgeIds(d.gaps) \cup {Nobody}
    /\ (e.task # Nobody /\ e.gap # Nobody) => LastOf(d.gaps, e.gap).task = e.task

\* The gap of evidence belongs to the task, or is of no matter.
GapOfTask(d, e, task) == e.gap \in BridgeIds(d.gaps) => LastOf(d.gaps, e.gap).task = task

\* The evidence of an intent is of the task the intent comes from.
IntentFits(d, i) ==
    /\ i.task \in DOMAIN d.tasks \cup {Nobody}
    /\ i.evidence \subseteq BridgeIds(d.evidence)
    /\ i.task # Nobody =>
          \A id \in i.evidence :
              /\ LastOf(d.evidence, id).task = i.task
              /\ GapOfTask(d, LastOf(d.evidence, id), i.task)

TaskFits(d, t) ==
    /\ \A id \in d.tasks[t].evidence :
          id \in BridgeIds(d.evidence) /\ LastOf(d.evidence, id).task \in {Nobody, t}
    /\ d.tasks[t].gaps \subseteq BridgeIds(d.gaps)

DocumentsFit(d) ==
    /\ ~Repeats(d.gaps) /\ ~Repeats(d.evidence) /\ ~Repeats(d.intents)
    /\ \A g \in ToSet(d.gaps) : GapFits(d, g)
    /\ \A e \in ToSet(d.evidence) : PieceFits(d, e)
    /\ \A i \in ToSet(d.intents) : IntentFits(d, i)
    /\ \A t \in DOMAIN d.tasks : TaskFits(d, t)

\* Each intent has one decision, and no decision is of something else.
OneDecisionEach(d) ==
    /\ ~Repeats(d.decisions)
    /\ BridgeIds(d.decisions) = BridgeIds(d.intents)

StoredIsStrict(i) == AtLeast(i.stored, Policy(i))

\* What a decision comes to: what was decided in the end, or the recommendation.
Supplied(decision) ==
    IF decision.final = Nobody THEN decision.recommendation ELSE decision.final

\* buildLegacyBridgePreview has one decision per intent.
JsBridgeOk(d) ==
    /\ DocumentsFit(d)
    /\ OneDecisionEach(d)
    /\ \A i \in ToSet(d.intents) :
          LET decision == Supplied(LastOf(d.decisions, i.id))
          IN AtLeast(decision, Policy(i)) /\ AtLeast(decision, i.stored) /\ StoredIsStrict(i)

\* build_legacy_bridge_preview holds the evidence a task or an intent uses
\* against the opportunity and the gap, too, and the recommendation against the
\* policy; a decision that was recommended and not made final need not be as
\* strict as the stored one.
UsedEvidenceFits(d) ==
    /\ \A t \in DOMAIN d.tasks : \A id \in d.tasks[t].evidence \cap BridgeIds(d.evidence) :
          GapOfTask(d, LastOf(d.evidence, id), t)
    /\ \A id \in UNION ({d.tasks[t].evidence : t \in DOMAIN d.tasks}
                        \cup {i.evidence : i \in ToSet(d.intents)}) \cap BridgeIds(d.evidence) :
          LastOf(d.evidence, id).opportunity \in {"of the graph", "none"}

RustBridgeOk(d) ==
    /\ DocumentsFit(d)
    /\ UsedEvidenceFits(d)
    /\ OneDecisionEach(d)
    /\ \A i \in ToSet(d.intents) :
          LET decision == LastOf(d.decisions, i.id)
          IN /\ decision.recommendation = Policy(i)
             /\ decision.final # Nobody =>
                   AtLeast(decision.final, Policy(i)) /\ AtLeast(decision.final, i.stored)
             /\ StoredIsStrict(i)

\* What is sent if nothing was found wrong, and otherwise nothing.
OrgTasksSent(d) == {g.id : g \in {h \in ToSet(d.gaps) : h.open}}

AuditsSent(d) ==
    {[intent |-> i.id, decision |-> EffectiveDecision(i, Supplied(LastOf(d.decisions, i.id)))] :
        i \in ToSet(d.intents)}

-----------------------------------------------------------------------------
(* The documents are written one after another *)

BridgeInit ==
    docs = [tasks |-> [t \in BridgeTasks |-> [evidence |-> {}, gaps |-> {}]],
            gaps |-> << >>, evidence |-> << >>, intents |-> << >>, decisions |-> << >>]

Documents(d) ==
    Len(d.gaps) + Len(d.evidence) + Len(d.intents) + Len(d.decisions)
    + Cardinality({link \in BridgeTasks \X (Pieces \cup BridgeGaps \cup {Absent}) :
                      link[2] \in d.tasks[link[1]].evidence \cup d.tasks[link[1]].gaps})

\* Bounds of the inputs: an id is used again only early on, nothing is written
\* after that, and of several flaws that a document can have it has one.
New(id, items) == id \notin BridgeIds(items) \/ Documents(docs) = 1

AddGap ==
    \E id \in BridgeGaps, task \in BridgeTasks \cup {Absent}, open \in BOOLEAN,
       closedBy \in {{}} \cup {{e} : e \in Pieces \cup {Absent}} :
        /\ New(id, docs.gaps)
        /\ ~open \/ task = Absent => closedBy = {}
        /\ docs' = [docs EXCEPT !.gaps =
              Append(@, [id |-> id, task |-> task, open |-> open, closedBy |-> closedBy])]

AddPiece ==
    \E id \in Pieces, task \in BridgeTasks \cup {Nobody, Absent},
       g \in BridgeGaps \cup {Nobody, Absent}, opportunity \in {"of the graph", "other"} :
        /\ New(id, docs.evidence)
        /\ task = Absent => g = Nobody
        /\ g = Absent => task = Nobody
        /\ docs' = [docs EXCEPT !.evidence =
              Append(@, [id |-> id, task |-> task, gap |-> g, opportunity |-> opportunity])]

UseInTask ==
    \E t \in BridgeTasks :
        \/ \E id \in Pieces \cup {Absent} : docs' = [docs EXCEPT !.tasks[t].evidence = @ \cup {id}]
        \/ \E id \in BridgeGaps : docs' = [docs EXCEPT !.tasks[t].gaps = @ \cup {id}]

\* Either what an intent rests on is of interest or how strictly it was judged.
AddIntent ==
    \E i \in [id : BridgeIntents, task : BridgeTasks \cup {Nobody, Absent},
              evidence : {{}} \cup {{e} : e \in Pieces \cup {Absent}}, risk : {"low", "medium"},
              operation : {"create_note", "other"}, touchesRisk : {FALSE},
              stored : PolicyDecisions \ {"manual_only"}] :
        /\ New(i.id, docs.intents)
        /\ i.task = Absent => i.evidence = {}
        /\ <<i.task, i.evidence>> = <<Nobody, {}>>
              \/ <<i.risk, i.operation, i.stored>> = <<"low", "create_note", "auto_execute">>
        /\ docs' = [docs EXCEPT !.intents = Append(@, i)]

AddDecision ==
    \E id \in BridgeIntents \cup {Absent}, recommendation \in PolicyDecisions \ {"reject"},
       final \in (PolicyDecisions \ {"manual_only"}) \cup {Nobody} :
        /\ New(id, docs.decisions)
        /\ id = Absent => final = Nobody
        /\ docs' = [docs EXCEPT !.decisions =
              Append(@, [id |-> id, recommendation |-> recommendation, final |-> final])]

BridgeNext ==
    /\ Documents(docs) < MaxDocuments
    /\ \A items \in {docs.gaps, docs.evidence, docs.intents, docs.decisions} : ~Repeats(items)
    /\ AddGap \/ AddPiece \/ UseInTask \/ AddIntent \/ AddDecision

BridgeSpec == BridgeInit /\ [][BridgeNext]_docs

-----------------------------------------------------------------------------
(* Properties *)

Owners(d, e) ==
    ({e.task} \ {Nobody})
    \cup {g.task : g \in {h \in ToSet(d.gaps) : h.id = e.gap}}

\* The tasks that use a piece, themselves, for a gap or through an intent.
Users(d, e) ==
    {t \in DOMAIN d.tasks : e.id \in d.tasks[t].evidence}
    \cup {g.task : g \in {h \in ToSet(d.gaps) : e.id \in h.closedBy}}
    \cup {i.task : i \in {j \in ToSet(d.intents) : e.id \in j.evidence /\ j.task # Nobody}}

\* Every decision made final as it is written to the audit.
MadeFinal(d) ==
    LET final(decision) ==
            [decision EXCEPT !.final =
                EffectiveDecision(LastOf(d.intents, decision.id), Supplied(decision))]
    IN [d EXCEPT !.decisions = [k \in DOMAIN d.decisions |-> final(d.decisions[k])]]

\* Nothing is sent that rests on evidence of another task: what names a task is
\* used by that one alone, and in Rust what names only a gap as well; what Rust
\* sends JavaScript would send, once the decisions are final; and no decision is
\* recorded that is weaker than the policy's or the stored one.
BridgesSound ==
    /\ JsBridgeOk(docs) =>
          \A e \in ToSet(docs.evidence) :
             /\ Cardinality(Owners(docs, e)) <= 1
             /\ e.task # Nobody => Users(docs, e) \subseteq {e.task}
    /\ RustBridgeOk(docs) =>
          /\ \A e \in ToSet(docs.evidence) :
                Owners(docs, e) # {} => Users(docs, e) \subseteq Owners(docs, e)
          /\ JsBridgeOk(MadeFinal(docs))
          /\ AuditsSent(MadeFinal(docs)) = AuditsSent(docs)
    /\ JsBridgeOk(docs) \/ RustBridgeOk(docs) =>
          \A audit \in AuditsSent(docs) :
             LET i == LastOf(docs.intents, audit.intent)
             IN AtLeast(audit.decision, Policy(i)) /\ AtLeast(audit.decision, i.stored)

=============================================================================
