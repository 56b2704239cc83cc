----------------------------- MODULE SkillReview -----------------------------
(***************************************************************************)
(* How skills of the skill library become workflow definitions             *)
(* (services/skill-library/src/index.ts): versions of an active skill are  *)
(* nominated for review, a review is decided, and an approval inserts a    *)
(* definition.  Around it the life of a skill: publish, archive, promote.  *)
(*                                                                         *)
(* A nomination selects its candidates with one statement and writes them  *)
(* one by one; a decision runs in a transaction that locks its row.  The   *)
(* skills of the model have one owner each, and a name each.               *)
(***************************************************************************)
EXTENDS Naturals, FiniteSets, Sequences

CONSTANTS
    Skills,
    Nominations,    \* calls of nominateWorkflowDefinitionReviews
    Decisions,      \* calls of decideWorkflowDefinitionReview
    Audits,         \* calls of the audit routes and of promote-to-org
    MaxSkillVersion,\* bound: versions of a skill
    MaxNominated    \* bound: times a version is nominated

ASSUME SkillAssumption ==
    /\ MaxSkillVersion \in Nat \ {0}
    /\ MaxNominated \in Nat \ {0}

\* Rows of skill_version, of which a skill has the first ones.
SkillVersions == Skills \X (1..MaxSkillVersion)

NoReview == [status |-> "none"]
Resting  == [pc |-> "resting"]

VARIABLES
    skill,      \* rows of skill: status and scope_type
    latest,     \* the latest version of a skill
    proposal,   \* rows of workflow_definition_review, one for a skill version
    definition, \* rows of workflow_definition: per skill the version each
                \*   number was approved from
    registry,   \* skills with a row in org_skill_registry
    nomination, decision, audit,    \* calls under way
    nominated   \* history: how often a version was nominated

skillVars == <<skill, latest, proposal, definition, registry, nomination, decision,
               audit, nominated>>
skillRows == <<skill, latest, registry>>

\* The definitions approved from a version.
DefinedFrom(v) == {n \in DOMAIN definition[v[1]] : definition[v[1]][n] = v}

SkillInit ==
    /\ skill = [s \in Skills |-> [status |-> "draft", scope |-> "private"]]
    /\ latest = [s \in Skills |-> 1]
    /\ proposal = [v \in SkillVersions |-> NoReview]
    /\ definition = [s \in Skills |-> <<>>]
    /\ registry = {}
    /\ nomination = [c \in Nominations |-> Resting]
    /\ decision = [c \in Decisions |-> Resting]
    /\ audit = [c \in Audits |-> Resting]
    /\ nominated = [v \in SkillVersions |-> 0]

-----------------------------------------------------------------------------
(* The life of a skill *)

\* updateSkill with another definition: the next version.
NewVersion(s) ==
    /\ latest[s] < MaxSkillVersion
    /\ latest' = [latest EXCEPT ![s] = @ + 1]
    /\ UNCHANGED <<skill, proposal, definition, registry, nomination, decision, audit,
                   nominated>>

\* publishSkill and archiveSkill, each one guarded update.
SetSkillStatus(s, from, to) ==
    /\ skill[s].status = from
    /\ skill' = [skill EXCEPT ![s].status = to]
    /\ UNCHANGED <<latest, proposal, definition, registry, nomination, decision, audit,
                   nominated>>

Publish(s) == SetSkillStatus(s, "draft", "active")
Archive(s) == SetSkillStatus(s, "active", "archived")

\* promote-to-org reads its skill, whatever it is; an audit with a score that
\* promotes reads a private one, and the batch an active one.
AuditRead(c) ==
    /\ audit[c].pc = "resting"
    /\ \E s \in Skills : audit' = [audit EXCEPT ![c] = [pc |-> "promote", skill |-> s]]
    /\ UNCHANGED <<skillRows, proposal, definition, nomination, decision, nominated>>

\* The update of the skill, whatever its status is by now.
Promote(c) ==
    /\ audit[c].pc = "promote"
    /\ skill' = [skill EXCEPT ![audit[c].skill] = [status |-> "active", scope |-> "org"]]
    /\ audit' = [audit EXCEPT ![c].pc = "register"]
    /\ UNCHANGED <<latest, registry, proposal, definition, nomination, decision, nominated>>

\* The row of the registry, or a failed insert.
RegisterSkill(c) ==
    /\ audit[c].pc = "register"
    /\ \/ registry' = registry \cup {audit[c].skill}
       \/ UNCHANGED registry
    /\ audit' = [audit EXCEPT ![c] = Resting]
    /\ UNCHANGED <<skill, latest, proposal, definition, nomination, decision, nominated>>

-----------------------------------------------------------------------------
(* Nomination *)

\* The latest versions of active skills that no review is pending or approved
\* for.
Nominable == {v \in SkillVersions :
                /\ skill[v[1]].status = "active"
                /\ v[2] = latest[v[1]]
                /\ proposal[v].status \notin {"pending", "approved"}}

\* The select; usage and audit scores leave some of the candidates.
NominateSelect(c) ==
    /\ nomination[c].pc = "resting"
    /\ \E some \in SUBSET Nominable :
          /\ some # {}
          /\ nomination' = [nomination EXCEPT ![c] = [pc |-> "upsert", todo |-> some]]
    /\ UNCHANGED <<skillRows, proposal, definition, decision, audit, nominated>>

\* The row of a version a decision holds.
RowLocked(v) == \E c \in Decisions : decision[c].pc = "decide" /\ decision[c].version = v

\* One upsert: a row that is there is made pending again, whatever it is by
\* now, and forgets its definition.  It waits for a decision on the row; its
\* failure ends the call.
NominateUpsert(c) ==
    /\ nomination[c].pc = "upsert"
    /\ \/ \E v \in nomination[c].todo :
            /\ ~RowLocked(v)
            /\ nominated[v] < MaxNominated
            /\ nominated' = [nominated EXCEPT ![v] = @ + 1]
            /\ proposal' = [proposal EXCEPT ![v] = [status |-> "pending", from |-> 0]]
            /\ nomination' = [nomination EXCEPT ![c] =
                  IF @.todo = {v} THEN Resting
                  ELSE [nomination[c] EXCEPT !.todo = @ \ {v}]]
       \/ /\ nomination' = [nomination EXCEPT ![c] = Resting]
          /\ UNCHANGED <<proposal, nominated>>
    /\ UNCHANGED <<skillRows, definition, decision, audit>>

-----------------------------------------------------------------------------
(* Decisions *)

MutatedDecidable(v) == proposal[v].status # "none"

Decidable(v) == proposal[v].status = "pending"

\* The transaction up to what it reads: the row, locked, and the highest
\* version of the definitions of that name.  A row that is decided is refused.
DecideStart(c) ==
    /\ decision[c].pc = "resting"
    /\ \E v \in SkillVersions :
          /\ Decidable(v) /\ ~RowLocked(v)
          /\ decision' = [decision EXCEPT ![c] =
                [pc |-> "decide", version |-> v,
                 next |-> Cardinality(DOMAIN definition[v[1]]) + 1]]
    /\ UNCHANGED <<skillRows, proposal, definition, nomination, audit, nominated>>

Approved(v, n) == [status |-> "approved", from |-> n]

\* What is committed: an approval inserts the definition and names it in the
\* review.  The number of a definition may have been taken by then, which, as
\* any failure, rolls everything back.
DecideCommit(c) ==
    LET v == decision[c].version
        n == decision[c].next
    IN /\ decision[c].pc = "decide"
       /\ decision' = [decision EXCEPT ![c] = Resting]
       /\ \/ /\ n \notin DOMAIN definition[v[1]]
             /\ definition' = [definition EXCEPT ![v[1]] = Append(@, v)]
             /\ proposal' = [proposal EXCEPT ![v] = Approved(v, n)]
          \/ /\ proposal' = [proposal EXCEPT ![v].status = "rejected"]
             /\ UNCHANGED definition
          \/ UNCHANGED <<definition, proposal>>
       /\ UNCHANGED <<skillRows, nomination, audit, nominated>>

SkillNext ==
    \/ \E s \in Skills : NewVersion(s) \/ Publish(s) \/ Archive(s)
    \/ \E c \in Audits : AuditRead(c) \/ Promote(c) \/ RegisterSkill(c)
    \/ \E c \in Nominations : NominateSelect(c) \/ NominateUpsert(c)
    \/ \E c \in Decisions : DecideStart(c) \/ DecideCommit(c)

SkillSpec == SkillInit /\ [][SkillNext]_skillVars

-----------------------------------------------------------------------------
(* Properties *)

\* An approved review names a definition, and one that was made of the version
\* it reviewed, although decisions of two versions of a skill that run at once
\* take the same number; and however often a review is decided, a version gives
\* at most one definition for every time it was nominated: two decisions of one
\* nomination never both count.  A nomination that overtakes an approval resets
\* the review and does allow a second one.
ApprovedIsDefinedOnce ==
    \A v \in SkillVersions :
        /\ proposal[v].status = "approved" => proposal[v].from \in DefinedFrom(v)
        /\ Cardinality(DefinedFrom(v)) <= nominated[v]

=============================================================================
