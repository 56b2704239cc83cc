--------------------------- MODULE ProactiveMissions ---------------------------
(***************************************************************************)
(* The proactive orchestrator (services/proactive-orchestrator/src/        *)
(* service.ts) and the parts of the gateway it works with: a scan finds    *)
(* insights, an administrator reviews them, an approved one becomes a      *)
(* mission, a mission is dispatched as an assignment to a user, and the    *)
(* user's feedback comes back.  All state is in the database; every        *)
(* handler is a sequence of statements without a transaction, and handlers *)
(* overlap.  One rule is modelled.  A row is named by the handler that     *)
(* inserts it: a run by its scan, an insight by its run and finding, a     *)
(* mission by the review, an assignment by the dispatch.                   *)
(***************************************************************************)
EXTENDS Naturals, FiniteSets

CONSTANTS
    Scans, Reviews, Dispatches, Completes,  \* invocations of the handlers
    Scheduled,      \* the scans the timer starts; the others are manual
    Dashboards,     \* the pages that show the dashboard, again and again
    Findings,       \* insight type and evidence hash
    Safe,           \* findings the rule approves by itself
    None

\* An invocation is one of one handler.
ASSUME ProactiveAssumption ==
    /\ Scheduled \subseteq Scans
    /\ Safe \subseteq Findings
    /\ Scans \cap (Reviews \cup Dispatches \cup Completes \cup Dashboards) = {}
    /\ Reviews \cap (Dispatches \cup Completes \cup Dashboards) = {}
    /\ Dispatches \cap (Completes \cup Dashboards) = {}
    /\ Completes \cap Dashboards = {}
    /\ None \notin Reviews \cup Dispatches

VARIABLES
    run,            \* proactive_run: status
    report,         \* proactive_report of a run: status
    insight,        \* proactive_insight: review_status
    mission,        \* proactive_mission
    assignment,     \* org_task_assignment
    notifying,      \* the gateway's notify handler: the assignments it selected
    pc,             \* where a handler is
    on,             \* the row a handler works on
    todo,           \* what a handler has still to visit
    seen,           \* refreshRunSummary: the run and what was counted so far
    submitted       \* history: assignments whose user sent feedback

tables == <<run, report, insight, mission, assignment>>
local == <<pc, on, todo, seen>>
vars == <<tables, notifying, local, submitted>>

Handlers == Scans \cup Reviews \cup Dispatches \cup Completes \cup Dashboards

Insights == Scans \X Findings

NoRow == "none"

Mission ==
    [insight : Insights \cup {None}, status : {NoRow, "queued", "assigned", "done"},
     ref : Dispatches \cup {None}]

Assignment ==
    [mission : Reviews \cup {None}, status : {NoRow, "pending", "notified", "completed"}]

TypeOK ==
    /\ run \in [Scans -> {NoRow, "running", "reviewing", "completed", "failed"}]
    /\ report \in [Scans -> {NoRow, "draft", "published"}]
    /\ insight \in [Insights -> {NoRow, "pending", "approved", "rejected", "auto_approved"}]
    /\ mission \in [Reviews -> Mission]
    /\ assignment \in [Dispatches -> Assignment]
    /\ notifying \subseteq Dispatches /\ submitted \subseteq Dispatches

Init ==
    /\ run = [s \in Scans |-> NoRow]
    /\ report = [s \in Scans |-> NoRow]
    /\ insight = [i \in Insights |-> NoRow]
    /\ mission = [v \in Reviews |-> [insight |-> None, status |-> NoRow, ref |-> None]]
    /\ assignment = [d \in Dispatches |-> [mission |-> None, status |-> NoRow]]
    /\ pc = [h \in Handlers |-> "idle"]
    /\ on = [h \in Handlers |-> None]
    /\ todo = [h \in Handlers |-> {}]
    /\ seen = [h \in Handlers |-> None]
    /\ notifying = {} /\ submitted = {}

Goto(h, there) == pc' = [pc EXCEPT ![h] = there]

\* A handler ends, early or not, and forgets its local state.
Leave(h) ==
    /\ Goto(h, "done")
    /\ on' = [on EXCEPT ![h] = None]
    /\ todo' = [todo EXCEPT ![h] = {}]
    /\ seen' = [seen EXCEPT ![h] = None]

RunOf(m) == mission[m].insight[1]

Open == {"pending", "approved", "auto_approved"}

-----------------------------------------------------------------------------
(* refreshRunSummary: the counts of its Promise.all are one step, the count  *)
(* of completed missions the next, and the run is written last.              *)

InsightsOf(r, states) == {f \in Findings : insight[<<r, f>>] \in states}

MissionsOf(r, states) ==
    {m \in Reviews : mission[m].status \in states /\ RunOf(m) = r}

StartRefresh(h, r, after) ==
    /\ Goto(h, "refreshing")
    /\ seen' = [seen EXCEPT ![h] = [run |-> r, then |-> after]]

ReadCounts(h) ==
    /\ pc[h] = "refreshing"
    /\ LET r == seen[h].run
       IN seen' = [seen EXCEPT ![h] =
            [run |-> r, then |-> @.then,
             pending |-> InsightsOf(r, {"pending"}) # {},
             approved |-> InsightsOf(r, {"approved", "auto_approved"}) # {},
             missions |-> Cardinality(MissionsOf(r, {"queued", "assigned", "done"}))]]
    /\ Goto(h, "counted")
    /\ UNCHANGED <<tables, notifying, on, todo, submitted>>

MutatedFinished(counts, completed) ==
    /\ ~counts.pending
    /\ counts.approved
    /\ completed > counts.missions
    /\ counts.missions > 0

Finished(counts, completed) ==
    /\ ~counts.pending
    /\ counts.approved
    /\ completed >= counts.missions
    /\ counts.missions > 0

ReadCompleted(h) ==
    /\ pc[h] = "counted"
    /\ LET now == seen[h]
       IN seen' = [seen EXCEPT ![h] =
            [run |-> now.run, then |-> now.then, pending |-> now.pending,
             finished |-> Finished(now, Cardinality(MissionsOf(now.run, {"done"})))]]
    /\ Goto(h, "summing")
    /\ UNCHANGED <<tables, notifying, on, todo, submitted>>

WriteSummary(h) ==
    /\ pc[h] = "summing"
    /\ LET now == seen[h]
       IN /\ run' = [run EXCEPT ![now.run] = IF now.finished THEN "completed"
                                             ELSE IF now.pending THEN "reviewing" ELSE @]
          /\ Goto(h, IF now.finished THEN "finalizing" ELSE now.then)
          /\ seen' = [seen EXCEPT ![h] = IF now.finished
                                         THEN [run |-> now.run, then |-> now.then] ELSE None]
    /\ UNCHANGED <<report, insight, mission, assignment, notifying, on, todo, submitted>>

\* upsertReport of a finished run publishes the report it finds.
FinalizeReport(h) ==
    /\ pc[h] = "finalizing"
    /\ report' = [report EXCEPT ![seen[h].run] = IF @ = NoRow THEN "draft" ELSE "published"]
    /\ Goto(h, seen[h].then)
    /\ seen' = [seen EXCEPT ![h] = None]
    /\ UNCHANGED <<run, insight, mission, assignment, notifying, on, todo, submitted>>

-----------------------------------------------------------------------------
(* scanRule *)

\* scanInFlight keeps scheduled scans apart; a manual scan does not look at it.
MayStart(s) ==
    s \in Scheduled => \A t \in Scheduled : pc[t] \in {"idle", "done"}

ScanStart(s) ==
    /\ pc[s] = "idle"
    /\ MayStart(s)
    /\ run' = [run EXCEPT ![s] = "running"]
    /\ \E found \in SUBSET Findings : todo' = [todo EXCEPT ![s] = found]
    /\ Goto(s, "scanning")
    /\ UNCHANGED <<report, insight, mission, assignment, notifying, on, seen, submitted>>

\* An open insight with the same evidence is only marked as seen again.
ScanLook(s, f) ==
    /\ pc[s] = "scanning"
    /\ f \in todo[s]
    /\ IF \E r \in Scans : insight[<<r, f>>] \in Open
       THEN /\ todo' = [todo EXCEPT ![s] = @ \ {f}]
            /\ UNCHANGED <<pc, on>>
       ELSE /\ on' = [on EXCEPT ![s] = f]
            /\ Goto(s, "inserting")
            /\ UNCHANGED todo
    /\ UNCHANGED <<tables, notifying, seen, submitted>>

ScanInsert(s) ==
    /\ pc[s] = "inserting"
    /\ insight' = [insight EXCEPT ![<<s, on[s]>>] =
                     IF on[s] \in Safe THEN "auto_approved" ELSE "pending"]
    /\ todo' = [todo EXCEPT ![s] = @ \ {on[s]}]
    /\ on' = [on EXCEPT ![s] = None]
    /\ Goto(s, "scanning")
    /\ UNCHANGED <<run, report, mission, assignment, notifying, seen, submitted>>

ScanSummary(s) ==
    /\ pc[s] = "scanning"
    /\ todo[s] = {}
    /\ StartRefresh(s, s, "reporting")
    /\ UNCHANGED <<tables, notifying, on, todo, submitted>>

ScanReport(s) ==
    /\ pc[s] = "reporting"
    /\ report' = [report EXCEPT ![s] = IF @ = NoRow THEN "draft" ELSE @]
    /\ Goto(s, "closing")
    /\ UNCHANGED <<run, insight, mission, assignment, notifying, on, todo, seen, submitted>>

ScanEnd(s) ==
    /\ pc[s] = "closing"
    /\ run' = [run EXCEPT ![s] = "reviewing"]
    /\ Leave(s)
    /\ UNCHANGED <<report, insight, mission, assignment, notifying, submitted>>

Failed == [r \in Scans |-> IF run[r] \in {"running", "reviewing"} THEN "failed" ELSE run[r]]

\* A statement of the scan fails, or the process is stopped.  The timer's scan
\* fails the rule's runs that are not over (failRunForRule) if it still can.
ScanFails(s) ==
    /\ s \in Scans
    /\ pc[s] \notin {"idle", "done"}
    /\ Leave(s)
    /\ run' \in {run} \cup IF s \in Scheduled THEN {Failed} ELSE {}
    /\ UNCHANGED <<report, insight, mission, assignment, notifying, submitted>>

-----------------------------------------------------------------------------
(* reviewInsight *)

Review(v, i, decision) ==
    /\ pc[v] = "idle"
    /\ insight[i] # NoRow
    /\ insight' = [insight EXCEPT ![i] = decision]
    /\ IF decision = "approved"
       THEN Goto(v, "creating") /\ on' = [on EXCEPT ![v] = i] /\ UNCHANGED seen
       ELSE StartRefresh(v, i[1], "done") /\ UNCHANGED on
    /\ UNCHANGED <<run, report, mission, assignment, notifying, todo, submitted>>

\* createMissionFromInsight refreshes the run, and so does reviewInsight.
CreateMission(v) ==
    /\ pc[v] = "creating"
    /\ mission' = [mission EXCEPT ![v] = [insight |-> on[v], status |-> "queued", ref |-> None]]
    /\ StartRefresh(v, on[v][1], "created")
    /\ UNCHANGED <<run, report, insight, assignment, notifying, on, todo, submitted>>

ReviewSummary(v) ==
    /\ pc[v] = "created"
    /\ StartRefresh(v, on[v][1], "done")
    /\ UNCHANGED <<tables, notifying, on, todo, submitted>>

-----------------------------------------------------------------------------
(* dispatchMission and createOrgTaskForMission *)

Dispatch(d, m, force) ==
    /\ pc[d] = "idle"
    /\ mission[m].status # NoRow
    /\ on' = [on EXCEPT ![d] = m]
    /\ Goto(d, IF force \/ mission[m].status = "queued" THEN "assigning" ELSE "done")
    /\ UNCHANGED <<tables, notifying, todo, seen, submitted>>

\* The task and its assignment.
CreateAssignment(d) ==
    /\ pc[d] = "assigning"
    /\ assignment' = [assignment EXCEPT ![d] = [mission |-> on[d], status |-> "pending"]]
    /\ Goto(d, "linking")
    /\ UNCHANGED <<run, report, insight, mission, notifying, on, todo, seen, submitted>>

MutatedLinked(m, d) == [mission[m] EXCEPT !.status = "assigned"]

Linked(m, d) == [mission[m] EXCEPT !.ref = d, !.status = "queued"]

LinkAssignment(d) ==
    /\ pc[d] = "linking"
    /\ mission' = [mission EXCEPT ![on[d]] = Linked(on[d], d)]
    /\ Goto(d, "notifying")
    /\ UNCHANGED <<run, report, insight, assignment, notifying, on, todo, seen, submitted>>

\* The gateway's notify handler selects the pending assignments, tells the user
\* over several channels, ...
Notify(d) ==
    /\ pc[d] = "notifying"
    /\ notifying' = IF assignment[d].status = "pending" THEN notifying \cup {d} ELSE notifying
    /\ Goto(d, "waiting")
    /\ UNCHANGED <<tables, on, todo, seen, submitted>>

\* ... and marks the assignment.
MarkNotified(d) ==
    /\ d \in notifying
    /\ notifying' = notifying \ {d}
    /\ assignment' = [assignment EXCEPT ![d].status = "notified"]
    /\ UNCHANGED <<run, report, insight, mission, local, submitted>>

\* A message or the gateway fails before that.
NotifyFails(d) ==
    /\ d \in notifying
    /\ notifying' = notifying \ {d}
    /\ UNCHANGED <<tables, local, submitted>>

\* The gateway has answered, or the call has timed out: the dispatch goes on.
MarkAssigned(d) ==
    /\ pc[d] = "waiting"
    /\ mission' = [mission EXCEPT ![on[d]].status = "assigned"]
    /\ Goto(d, "recording")
    /\ UNCHANGED <<run, report, insight, assignment, notifying, on, todo, seen, submitted>>

RecordAssigned(d) ==
    /\ pc[d] = "recording"
    /\ mission' = [mission EXCEPT ![on[d]].status = "assigned", ![on[d]].ref = d]
    /\ StartRefresh(d, RunOf(on[d]), "done")
    /\ UNCHANGED <<run, report, insight, assignment, notifying, on, todo, submitted>>

-----------------------------------------------------------------------------
(* The user's feedback and how it comes back *)

\* The gateway's submit handler.
UserSubmits(d) ==
    /\ assignment[d].status \in {"pending", "notified"}
    /\ assignment' = [assignment EXCEPT ![d].status = "completed"]
    /\ submitted' = submitted \cup {d}
    /\ UNCHANGED <<run, report, insight, mission, notifying, local>>

Answered(d) == assignment[d].status = "completed"

\* completeMissionByAssignment
Complete(c, d) ==
    /\ pc[c] = "idle"
    /\ \E m \in Reviews :
          /\ mission[m].ref = d
          /\ Answered(d)
    /\ on' = [on EXCEPT ![c] = d]
    /\ Goto(c, "completing")
    /\ UNCHANGED <<tables, notifying, todo, seen, submitted>>

\* The mission is found by its assignment again: a new one is left alone.
CompleteMission(c) ==
    /\ pc[c] = "completing"
    /\ mission' = [m \in Reviews |-> IF mission[m].ref = on[c]
                                     THEN [mission[m] EXCEPT !.status = "done"] ELSE mission[m]]
    /\ StartRefresh(c, RunOf(assignment[on[c]].mission), "done")
    /\ UNCHANGED <<run, report, insight, assignment, notifying, on, todo, submitted>>

\* syncDerivedState: the missions whose user has answered ...
Awaited(m) ==
    /\ mission[m].status = "assigned"
    /\ mission[m].ref # None
    /\ Answered(mission[m].ref)

Poll(b) ==
    /\ pc[b] = "idle"
    /\ todo' = [todo EXCEPT ![b] = {m \in Reviews : Awaited(m)}]
    /\ Goto(b, "syncing")
    /\ UNCHANGED <<tables, notifying, on, seen, submitted>>

\* ... are done, ...
SyncMission(b, m) ==
    /\ pc[b] = "syncing"
    /\ m \in todo[b]
    /\ mission' = [mission EXCEPT ![m].status = "done"]
    /\ todo' = [todo EXCEPT ![b] = @ \ {m}]
    /\ UNCHANGED <<run, report, insight, assignment, notifying, pc, on, seen, submitted>>

\* ... and the runs that are not over are refreshed, one after the other.
SelectRuns(b) ==
    /\ pc[b] = "syncing"
    /\ todo[b] = {}
    /\ todo' = [todo EXCEPT ![b] = {r \in Scans : run[r] \in {"running", "reviewing"}}]
    /\ Goto(b, "refreshRuns")
    /\ UNCHANGED <<tables, notifying, on, seen, submitted>>

SyncRun(b, r) ==
    /\ pc[b] = "refreshRuns"
    /\ r \in todo[b]
    /\ todo' = [todo EXCEPT ![b] = @ \ {r}]
    /\ StartRefresh(b, r, "refreshRuns")
    /\ UNCHANGED <<tables, notifying, on, submitted>>

ShowDashboard(b) ==
    /\ pc[b] = "refreshRuns"
    /\ todo[b] = {}
    /\ Goto(b, "idle")
    /\ UNCHANGED <<tables, notifying, on, todo, seen, submitted>>

\* A statement of a handler fails, or the process is stopped.
HandlerFails(h) ==
    /\ h \in Reviews \cup Dispatches \cup Completes
    /\ pc[h] \notin {"idle", "done"}
    /\ Leave(h)
    /\ UNCHANGED <<tables, notifying, submitted>>

\* publishReport
Publish(r) ==
    /\ report[r] # NoRow
    /\ report' = [report EXCEPT ![r] = "published"]
    /\ UNCHANGED <<run, insight, mission, assignment, notifying, local, submitted>>

-----------------------------------------------------------------------------

Refresh(h) ==
    ReadCounts(h) \/ ReadCompleted(h) \/ WriteSummary(h) \/ FinalizeReport(h)

ScanStep(s) ==
    \/ \E f \in Findings : ScanLook(s, f)
    \/ ScanInsert(s) \/ ScanSummary(s) \/ ScanReport(s) \/ ScanEnd(s)

ReviewStep(v) == CreateMission(v) \/ ReviewSummary(v)

DispatchStep(d) ==
    \/ CreateAssignment(d) \/ LinkAssignment(d)
    \/ Notify(d) \/ MarkAssigned(d) \/ RecordAssigned(d)

DashboardStep(b) ==
    \/ Poll(b) \/ SelectRuns(b) \/ ShowDashboard(b)
    \/ \E m \in Reviews : SyncMission(b, m)
    \/ \E r \in Scans : SyncRun(b, r)

Next ==
    \/ \E h \in Handlers : Refresh(h) \/ HandlerFails(h)
    \/ \E s \in Scans : ScanStart(s) \/ ScanStep(s) \/ ScanFails(s) \/ Publish(s)
    \/ \E v \in Reviews :
          \/ \E i \in Insights, decision \in {"approved", "rejected"} : Review(v, i, decision)
          \/ ReviewStep(v)
    \/ \E d \in Dispatches :
          \/ \E m \in Reviews, force \in BOOLEAN : Dispatch(d, m, force)
          \/ DispatchStep(d)
          \/ MarkNotified(d) \/ NotifyFails(d)
          \/ UserSubmits(d)
    \/ \E c \in Completes :
          \/ \E d \in Dispatches : Complete(c, d)
          \/ CompleteMission(c)
    \/ \E b \in Dashboards : DashboardStep(b)

Spec == Init /\ [][Next]_vars

\* Handlers that were started go on, and the dashboard is looked at again and
\* again.  Nobody has to scan, review, dispatch or submit.
FairSpec ==
    /\ Spec
    /\ \A b \in Dashboards : WF_vars(DashboardStep(b) \/ Refresh(b))
    /\ \A s \in Scans : WF_vars(ScanStep(s) \/ Refresh(s))
    /\ \A v \in Reviews : WF_vars(ReviewStep(v) \/ Refresh(v))
    /\ \A d \in Dispatches : WF_vars(DispatchStep(d) \/ Refresh(d)) /\ WF_vars(MarkNotified(d))
    /\ \A c \in Completes : WF_vars(CompleteMission(c) \/ Refresh(c))

-----------------------------------------------------------------------------
(* Properties *)

\* A mission that is assigned or done has an assignment that was made for it,
\* wherever a dispatch failed and however dispatches overlapped.
AssignedIsLinked ==
    \A m \in Reviews :
        mission[m].status \in {"assigned", "done"} =>
            /\ mission[m].ref # None
            /\ assignment[mission[m].ref].mission = m

\* A mission is done only after a user it was given to sent feedback.
DoneHasFeedback ==
    \A m \in Reviews :
        mission[m].status = "done" => \E d \in submitted : assignment[d].mission = m

\* The mission, its assignment and its feedback agree, however dispatches,
\* reviews and reports overlap.
MissionsAgree == AssignedIsLinked /\ DoneHasFeedback

\* Feedback that stays in the assignment reaches its mission, if the mission's
\* dispatch came to its end.
KeptFeedbackArrives ==
    \A m \in Reviews, d \in Dispatches :
        <>[](assignment[d].status = "completed" /\ mission[m].ref = d /\ pc[d] = "done"
             /\ mission[m].status # "queued")
            => <>(mission[m].status = "done")

Over(r) ==
    /\ InsightsOf(r, {"pending"}) = {}
    /\ InsightsOf(r, {"approved", "auto_approved"}) # {}
    /\ MissionsOf(r, {"done"}) # {}
    /\ MissionsOf(r, {"queued", "assigned"}) = {}

\* A run whose insights are reviewed and whose missions are done is over.
RunEnds == \A r \in Scans : Over(r) ~> (run[r] \in {"completed", "failed"} \/ ~Over(r))

\* What is answered and what is over does not stay as it is.
RunsSettle == KeptFeedbackArrives /\ RunEnds

\* The user stories: once feedback for the mission's assignment is submitted,
\* the mission is submitted or done.  Does not hold.
FeedbackArrives ==
    \A m \in Reviews, d \in Dispatches :
        (mission[m].ref = d /\ mission[m].status = "assigned" /\ d \in submitted)
            ~> mission[m].status = "done"

===============================================================================
