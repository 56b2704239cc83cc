------------------------ MODULE ProactiveMissionsProofs ------------------------
(***************************************************************************)
(* Proofs about the missions of the proactive orchestrator, for any number *)
(* of scans, reviews, dispatches, completions and dashboards at once.      *)
(*                                                                         *)
(* No handler runs in a transaction, so what one of them read is only as   *)
(* good as what the others leave alone.  The invariant says, per handler,  *)
(* what stays true of the row it works on from one of its statements to    *)
(* the next (HandlerSound), and what the rows say of each other            *)
(* (RowsSound).                                                            *)
(***************************************************************************)
EXTENDS ProactiveMissions, TLAPS

\* Where a handler can be.
Places ==
    {"idle", "done", "refreshing", "counted", "summing", "finalizing", "scanning", "inserting",
     "reporting", "closing", "creating", "created", "assigning", "linking", "notifying",
     "waiting", "recording", "completing", "syncing", "refreshRuns"}

\* The local variables of every handler.
LocalTypeOK ==
    /\ pc \in [Handlers -> Places]
    /\ DOMAIN on = Handlers /\ DOMAIN todo = Handlers /\ DOMAIN seen = Handlers

\* Where a refresh may return to.
After == {"reporting", "created", "done", "refreshRuns"}

ReviewSound(v) ==
    /\ pc[v] \in {"idle", "creating"} => mission[v].status = NoRow
    /\ pc[v] = "creating" => on[v] \in Insights

Calling == {"notifying", "waiting", "recording"}

DispatchSound(d) ==
    /\ pc[d] \in {"idle", "assigning"} =>
          assignment[d] = [mission |-> None, status |-> NoRow] /\ d \notin notifying
    /\ pc[d] \in {"assigning", "linking"} \cup Calling =>
          on[d] \in Reviews /\ mission[on[d]].status # NoRow
    /\ pc[d] \in {"linking"} \cup Calling => assignment[d].mission = on[d]
    /\ pc[d] \in Calling => mission[on[d]].ref # None

HasFeedback(m) == \E d \in submitted : assignment[d].mission = m

HandlerSound(h) ==
    /\ pc[h] \in {"refreshing", "counted", "summing", "finalizing"} => seen[h].then \in After
    /\ h \in Reviews => ReviewSound(h)
    /\ h \in Dispatches => DispatchSound(h)
    /\ h \in Completes /\ pc[h] = "completing" => on[h] \in submitted
    /\ h \in Dashboards /\ pc[h] = "syncing" =>
          \A m \in todo[h] : m \in Reviews /\ mission[m].ref # None /\ HasFeedback(m)

RowsSound ==
    /\ \A d \in Dispatches : Answered(d) => d \in submitted
    /\ \A m \in Reviews :
          /\ mission[m].status = NoRow => mission[m].ref = None
          /\ mission[m].ref # None => assignment[mission[m].ref].mission = m

MissionInductive ==
    /\ TypeOK /\ LocalTypeOK
    /\ \A h \in Handlers : HandlerSound(h)
    /\ RowsSound
    /\ MissionsAgree

-----------------------------------------------------------------------------
(* What a step leaves alone *)

\* What the handlers' soundness and the rows say, apart from local variables.
RowsKept == UNCHANGED <<mission, assignment, submitted, notifying>>

\* A step of h changes the local variables of h only.
Moves(h) ==
    /\ LocalTypeOK'
    /\ \A g \in Handlers \ {h} :
          /\ pc'[g] = pc[g] /\ on'[g] = on[g]
          /\ todo'[g] = todo[g] /\ seen'[g] = seen[g]

\* The handlers of different kinds are different.
LEMMA KindsDiffer ==
    \A h \in Handlers :
        /\ h \in Scans => h \notin Reviews \cup Dispatches \cup Completes \cup Dashboards
        /\ h \in Reviews => h \notin Dispatches \cup Completes \cup Dashboards
        /\ h \in Dispatches => h \notin Completes \cup Dashboards
        /\ h \in Completes => h \notin Dashboards
  BY ProactiveAssumption DEF Handlers

\* A local variable changes for h at most.
KeepsOthers(f, h) == f' = f \/ \E x : f' = [f EXCEPT ![h] = x]

LEMMA OthersKept ==
    ASSUME LocalTypeOK, NEW h \in Handlers
    PROVE  /\ KeepsOthers(on, h) =>
                 DOMAIN on' = Handlers /\ \A g \in Handlers \ {h} : on'[g] = on[g]
           /\ KeepsOthers(todo, h) =>
                 DOMAIN todo' = Handlers /\ \A g \in Handlers \ {h} : todo'[g] = todo[g]
           /\ KeepsOthers(seen, h) =>
                 DOMAIN seen' = Handlers /\ \A g \in Handlers \ {h} : seen'[g] = seen[g]
  <1>1. KeepsOthers(on, h) =>
            DOMAIN on' = Handlers /\ \A g \in Handlers \ {h} : on'[g] = on[g]
    BY DEF LocalTypeOK, KeepsOthers
  <1>2. KeepsOthers(todo, h) =>
            DOMAIN todo' = Handlers /\ \A g \in Handlers \ {h} : todo'[g] = todo[g]
    BY DEF LocalTypeOK, KeepsOthers
  <1>3. KeepsOthers(seen, h) =>
            DOMAIN seen' = Handlers /\ \A g \in Handlers \ {h} : seen'[g] = seen[g]
    BY DEF LocalTypeOK, KeepsOthers
  <1> QED
    BY <1>1, <1>2, <1>3

\* A handler goes somewhere.
LEMMA GotoMoves ==
    ASSUME LocalTypeOK, NEW h \in Handlers, NEW there \in Places, Goto(h, there),
           KeepsOthers(on, h), KeepsOthers(todo, h), KeepsOthers(seen, h)
    PROVE  Moves(h) /\ pc'[h] = there
  <1>1. pc' \in [Handlers -> Places] /\ pc'[h] = there
        /\ \A g \in Handlers \ {h} : pc'[g] = pc[g]
    BY DEF LocalTypeOK, Goto
  <1> QED
    BY <1>1, OthersKept DEF Moves, LocalTypeOK

\* What a handler notes for its refresh.
LEMMA SeenSet ==
    ASSUME LocalTypeOK, NEW h \in Handlers, NEW s, seen' = [seen EXCEPT ![h] = s]
    PROVE  KeepsOthers(seen, h) /\ seen'[h] = s
  BY DEF LocalTypeOK, KeepsOthers

\* A handler that ends.
LEMMA LeaveMoves ==
    ASSUME LocalTypeOK, NEW h \in Handlers, Leave(h)
    PROVE  Moves(h) /\ pc'[h] = "done"
  <1>1. KeepsOthers(on, h) /\ KeepsOthers(todo, h) /\ KeepsOthers(seen, h)
    BY DEF Leave, KeepsOthers
  <1> QED
    BY <1>1, GotoMoves DEF Leave, Places

\* A handler that does not move is as sound as before if its rows are there.
LEMMA OthersSound ==
    ASSUME NEW h \in Handlers, Moves(h), RowsKept, NEW g \in Handlers \ {h}, HandlerSound(g)
    PROVE  HandlerSound(g)'
  <1>1. pc'[g] = pc[g] /\ on'[g] = on[g] /\ todo'[g] = todo[g] /\ seen'[g] = seen[g]
    BY DEF Moves
  <1>2. mission' = mission /\ assignment' = assignment /\ submitted' = submitted
        /\ notifying' = notifying
    BY DEF RowsKept
  <1> QED
    BY <1>1, <1>2 DEF HandlerSound, ReviewSound, DispatchSound, HasFeedback

\* Where a handler promises something.
Busy == {"idle", "creating", "assigning", "linking", "completing", "syncing"} \cup Calling

LEMMA RestingSound ==
    ASSUME NEW h \in Handlers, pc'[h] \notin Busy,
           pc'[h] \in {"refreshing", "counted", "summing", "finalizing"} => seen'[h].then \in After
    PROVE  HandlerSound(h)'
  BY DEF HandlerSound, ReviewSound, DispatchSound, Busy, Calling

\* The rows, when only other tables change.
LEMMA RowsStay ==
    ASSUME RowsSound, MissionsAgree, UNCHANGED <<mission, assignment, submitted>>
    PROVE  RowsSound' /\ MissionsAgree'
  BY DEF RowsSound, MissionsAgree, AssignedIsLinked, DoneHasFeedback, Answered

\* A step that changes the local variables of one handler, and other tables.
LEMMA QuietStep ==
    ASSUME MissionInductive, TypeOK', NEW h \in Handlers, Moves(h), RowsKept, HandlerSound(h)'
    PROVE  MissionInductive'
  <1>1. \A g \in Handlers : HandlerSound(g)'
    BY OthersSound DEF MissionInductive
  <1>2. RowsSound' /\ MissionsAgree'
    BY RowsStay DEF MissionInductive, RowsKept
  <1> QED
    BY <1>1, <1>2 DEF MissionInductive, Moves

-----------------------------------------------------------------------------
(* Steps that change no mission and no assignment *)

\* A handler starts to refresh a run.
LEMMA StartsRefresh ==
    ASSUME LocalTypeOK, NEW h \in Handlers, NEW r, NEW after \in After,
           StartRefresh(h, r, after), KeepsOthers(on, h), KeepsOthers(todo, h)
    PROVE  Moves(h) /\ HandlerSound(h)'
  <1>1. KeepsOthers(seen, h) /\ seen'[h] = [run |-> r, then |-> after]
    BY SeenSet DEF StartRefresh
  <1>2. Moves(h) /\ pc'[h] = "refreshing"
    BY <1>1, GotoMoves DEF StartRefresh, Places
  <1>3. seen'[h].then \in After
    BY <1>1
  <1> QED
    BY <1>2, <1>3, RestingSound DEF Busy, Calling

\* The refresh of a run, from its counts to its report.
LEMMA RefreshStep ==
    ASSUME MissionInductive, NEW h \in Handlers, Refresh(h) PROVE MissionInductive'
  <1>0. TypeOK /\ LocalTypeOK /\ HandlerSound(h)
    BY DEF MissionInductive
  <1>1. RowsKept /\ UNCHANGED <<insight, mission, assignment, notifying, submitted>>
    BY DEF Refresh, ReadCounts, ReadCompleted, WriteSummary, FinalizeReport, RowsKept, tables
  <1>2. pc[h] \in {"refreshing", "counted", "summing", "finalizing"} /\ seen[h].then \in After
    BY <1>0 DEF Refresh, ReadCounts, ReadCompleted, WriteSummary, FinalizeReport, HandlerSound
  <1>3. TypeOK'
    <2>1. run' \in [Scans -> {NoRow, "running", "reviewing", "completed", "failed"}]
      BY <1>0 DEF Refresh, ReadCounts, ReadCompleted, WriteSummary, FinalizeReport, tables, TypeOK
    <2>2. report' \in [Scans -> {NoRow, "draft", "published"}]
      BY <1>0 DEF Refresh, ReadCounts, ReadCompleted, WriteSummary, FinalizeReport, tables, TypeOK
    <2> QED
      BY <1>0, <1>1, <2>1, <2>2 DEF TypeOK
  <1>4. KeepsOthers(on, h) /\ KeepsOthers(todo, h) /\ After \subseteq Places
    BY DEF Refresh, ReadCounts, ReadCompleted, WriteSummary, FinalizeReport, KeepsOthers, After,
           Places
  <1>5. Moves(h) /\ HandlerSound(h)'
    <2>1. KeepsOthers(seen, h)
      <3>1. CASE ReadCounts(h)
        BY <3>1 DEF ReadCounts, KeepsOthers
      <3>2. CASE ReadCompleted(h)
        BY <3>2 DEF ReadCompleted, KeepsOthers
      <3>3. CASE WriteSummary(h)
        BY <3>3 DEF WriteSummary, KeepsOthers
      <3>4. CASE FinalizeReport(h)
        BY <3>4 DEF FinalizeReport, KeepsOthers
      <3> QED
        BY <3>1, <3>2, <3>3, <3>4 DEF Refresh
    <2>2. PICK there \in Places :
             /\ Goto(h, there)
             /\ \/ there \in {"counted", "summing", "finalizing"} /\ seen'[h].then = seen[h].then
                \/ there \in After
      <3>1. CASE ReadCounts(h)
        BY <1>0, <3>1 DEF ReadCounts, LocalTypeOK, Places
      <3>2. CASE ReadCompleted(h)
        BY <1>0, <3>2 DEF ReadCompleted, LocalTypeOK, Places
      <3>3. CASE WriteSummary(h)
        <4>1. CASE seen[h].finished
          BY <1>0, <3>3, <4>1 DEF WriteSummary, LocalTypeOK, Places
        <4>2. CASE ~seen[h].finished
          BY <1>2, <1>4, <3>3, <4>2 DEF WriteSummary
        <4> QED
          BY <4>1, <4>2
      <3>4. CASE FinalizeReport(h)
        BY <1>2, <1>4, <3>4 DEF FinalizeReport
      <3> QED
        BY <3>1, <3>2, <3>3, <3>4 DEF Refresh
    <2>3. Moves(h) /\ pc'[h] = there
      BY <1>0, <1>4, <2>1, <2>2, GotoMoves
    <2> QED
      BY <1>2, <2>2, <2>3, RestingSound DEF Busy, Calling, After
  <1> QED
    BY <1>1, <1>3, <1>5, QuietStep

\* A handler that fails, and the timer's scan with its runs.
LEMMA FailStep ==
    ASSUME MissionInductive, NEW h \in Handlers, HandlerFails(h) \/ ScanFails(h)
    PROVE  MissionInductive'
  <1>0. TypeOK /\ LocalTypeOK /\ Leave(h)
    BY DEF MissionInductive, HandlerFails, ScanFails
  <1>1. RowsKept /\ UNCHANGED <<report, insight>>
    BY DEF HandlerFails, ScanFails, RowsKept, tables
  <1>2. run' \in [Scans -> {NoRow, "running", "reviewing", "completed", "failed"}]
    BY <1>0 DEF HandlerFails, ScanFails, tables, TypeOK, Failed
  <1>3. TypeOK'
    BY <1>0, <1>1, <1>2 DEF TypeOK, RowsKept
  <1>4. Moves(h) /\ pc'[h] = "done"
    BY <1>0, LeaveMoves
  <1>5. HandlerSound(h)'
    BY <1>4, RestingSound DEF Busy, Calling
  <1> QED
    BY <1>1, <1>3, <1>4, <1>5, QuietStep

\* A scan by its statements.
LEMMA ScanSteps ==
    ASSUME MissionInductive, NEW s \in Scans, ScanStart(s) \/ ScanStep(s)
    PROVE  MissionInductive'
  <1>0. TypeOK /\ LocalTypeOK /\ s \in Handlers
    BY DEF MissionInductive, Handlers
  <1>1. RowsKept
    BY DEF ScanStart, ScanStep, ScanLook, ScanInsert, ScanSummary, ScanReport, ScanEnd,
           StartRefresh, RowsKept, tables
  <1>2. TypeOK'
    <2>1. run' \in [Scans -> {NoRow, "running", "reviewing", "completed", "failed"}]
      BY <1>0 DEF ScanStart, ScanStep, ScanLook, ScanInsert, ScanSummary, ScanReport, ScanEnd,
                  tables, TypeOK
    <2>2. report' \in [Scans -> {NoRow, "draft", "published"}]
      BY <1>0 DEF ScanStart, ScanStep, ScanLook, ScanInsert, ScanSummary, ScanReport, ScanEnd,
                  tables, TypeOK
    <2>3. insight' \in [Insights -> {NoRow, "pending", "approved", "rejected", "auto_approved"}]
      BY <1>0 DEF ScanStart, ScanStep, ScanLook, ScanInsert, ScanSummary, ScanReport, ScanEnd,
                  tables, TypeOK
    <2> QED
      BY <1>0, <1>1, <2>1, <2>2, <2>3 DEF TypeOK, RowsKept
  <1>3. s \notin Reviews \cup Dispatches \cup Completes \cup Dashboards
    BY <1>0, KindsDiffer
  <1>4. CASE ScanSummary(s)
    <2>1. Moves(s) /\ HandlerSound(s)'
      BY <1>0, <1>4, StartsRefresh DEF ScanSummary, After, KeepsOthers
    <2> QED
      BY <1>0, <1>1, <1>2, <2>1, QuietStep
  <1>5. CASE ~ScanSummary(s)
    <2>1. \/ Leave(s)
          \/ /\ UNCHANGED <<pc, on, seen>> /\ pc[s] = "scanning"
             /\ KeepsOthers(todo, s)
          \/ /\ \E there \in {"scanning", "inserting", "closing"} : Goto(s, there)
             /\ KeepsOthers(on, s) /\ KeepsOthers(todo, s) /\ KeepsOthers(seen, s)
      BY <1>5 DEF ScanStart, ScanStep, ScanLook, ScanInsert, ScanReport, ScanEnd, KeepsOthers
    <2>2. Moves(s) /\ pc'[s] \in {"scanning", "inserting", "closing", "done"}
      <3>1. CASE Leave(s)
        BY <1>0, <3>1, LeaveMoves
      <3>2. CASE /\ UNCHANGED <<pc, on, seen>> /\ pc[s] = "scanning"
                 /\ KeepsOthers(todo, s)
        BY <1>0, <3>2, OthersKept DEF Moves, LocalTypeOK
      <3>3. CASE /\ \E there \in {"scanning", "inserting", "closing"} : Goto(s, there)
                 /\ KeepsOthers(on, s) /\ KeepsOthers(todo, s) /\ KeepsOthers(seen, s)
        BY <1>0, <3>3, GotoMoves DEF Places
      <3> QED
        BY <2>1, <3>1, <3>2, <3>3
    <2>3. HandlerSound(s)'
      BY <1>0, <2>2, RestingSound DEF Busy, Calling
    <2> QED
      BY <1>0, <1>1, <1>2, <2>2, <2>3, QuietStep
  <1> QED
    BY <1>4, <1>5

\* A review and its last refresh.
LEMMA ReviewQuiet ==
    ASSUME MissionInductive, NEW v \in Reviews,
           \/ \E i \in Insights, decision \in {"approved", "rejected"} : Review(v, i, decision)
           \/ ReviewSummary(v)
    PROVE  MissionInductive'
  <1>0. /\ TypeOK /\ LocalTypeOK /\ v \in Handlers /\ HandlerSound(v)
        /\ v \notin Dispatches \cup Completes \cup Dashboards
    BY KindsDiffer DEF MissionInductive, Handlers
  <1>1. ASSUME NEW i \in Insights, NEW decision \in {"approved", "rejected"},
               Review(v, i, decision)
        PROVE  MissionInductive'
    <2>1. RowsKept /\ UNCHANGED <<run, report, todo>>
      BY <1>1 DEF Review, RowsKept
    <2>2. TypeOK'
      BY <1>0, <1>1, <2>1 DEF Review, TypeOK, RowsKept
    <2>3. CASE decision = "approved"
      <3>1. KeepsOthers(on, v) /\ KeepsOthers(todo, v) /\ KeepsOthers(seen, v)
            /\ Goto(v, "creating")
        BY <1>1, <2>1, <2>3 DEF Review, KeepsOthers
      <3>2. Moves(v) /\ pc'[v] = "creating"
        BY <1>0, <3>1, GotoMoves DEF Places
      <3>3. on'[v] = i /\ mission'[v].status = NoRow
        BY <1>0, <1>1, <2>1, <2>3 DEF Review, LocalTypeOK, HandlerSound, ReviewSound, RowsKept
      <3>4. HandlerSound(v)'
        BY <1>0, <3>2, <3>3 DEF HandlerSound, ReviewSound
      <3> QED
        BY <1>0, <2>1, <2>2, <3>2, <3>4, QuietStep
    <2>4. CASE decision = "rejected"
      <3>1. Moves(v) /\ HandlerSound(v)'
        BY <1>0, <1>1, <2>1, <2>4, StartsRefresh DEF Review, KeepsOthers, After
      <3> QED
        BY <1>0, <2>1, <2>2, <3>1, QuietStep
    <2> QED
      BY <2>3, <2>4
  <1>2. CASE ReviewSummary(v)
    <2>1. RowsKept /\ TypeOK'
      BY <1>0, <1>2 DEF ReviewSummary, RowsKept, tables, TypeOK
    <2>2. Moves(v) /\ HandlerSound(v)'
      BY <1>0, <1>2, StartsRefresh DEF ReviewSummary, KeepsOthers, After
    <2> QED
      BY <1>0, <2>1, <2>2, QuietStep
  <1> QED
    BY <1>1, <1>2

\* A dispatch reads its mission.
LEMMA DispatchQuiet ==
    ASSUME MissionInductive, NEW d \in Dispatches, NEW m \in Reviews, NEW force \in BOOLEAN,
           Dispatch(d, m, force)
    PROVE  MissionInductive'
  <1>0. /\ TypeOK /\ LocalTypeOK /\ d \in Handlers /\ HandlerSound(d)
        /\ d \notin Reviews \cup Completes \cup Dashboards
    BY KindsDiffer DEF MissionInductive, Handlers
  <1>1. RowsKept /\ TypeOK'
    BY <1>0 DEF Dispatch, RowsKept, tables, TypeOK
  <1>2. KeepsOthers(on, d) /\ KeepsOthers(todo, d) /\ KeepsOthers(seen, d)
    BY DEF Dispatch, KeepsOthers
  <1>3. Moves(d) /\ pc'[d] \in {"assigning", "done"}
    BY <1>0, <1>2, GotoMoves DEF Dispatch, Places
  <1>4. /\ on'[d] = m /\ mission'[m].status # NoRow
        /\ assignment'[d] = [mission |-> None, status |-> NoRow] /\ d \notin notifying'
    BY <1>0, <1>1 DEF Dispatch, LocalTypeOK, HandlerSound, DispatchSound, RowsKept
  <1>5. HandlerSound(d)'
    BY <1>0, <1>3, <1>4 DEF HandlerSound, DispatchSound, Calling
  <1> QED
    BY <1>0, <1>1, <1>3, <1>5, QuietStep

\* A completion finds a mission whose user has answered.
LEMMA CompleteQuiet ==
    ASSUME MissionInductive, NEW c \in Completes, NEW d \in Dispatches, Complete(c, d)
    PROVE  MissionInductive'
  <1>0. /\ TypeOK /\ LocalTypeOK /\ RowsSound /\ c \in Handlers /\ HandlerSound(c)
        /\ c \notin Reviews \cup Dispatches \cup Dashboards
    BY KindsDiffer DEF MissionInductive, Handlers
  <1>1. RowsKept /\ TypeOK'
    BY <1>0 DEF Complete, RowsKept, tables, TypeOK
  <1>2. KeepsOthers(on, c) /\ KeepsOthers(todo, c) /\ KeepsOthers(seen, c)
    BY DEF Complete, KeepsOthers
  <1>3. Moves(c) /\ pc'[c] = "completing"
    BY <1>0, <1>2, GotoMoves DEF Complete, Places
  <1>4. on'[c] \in submitted'
    BY <1>0, <1>1 DEF Complete, LocalTypeOK, RowsSound, RowsKept
  <1>5. HandlerSound(c)'
    BY <1>0, <1>3, <1>4 DEF HandlerSound
  <1> QED
    BY <1>0, <1>1, <1>3, <1>5, QuietStep

\* The dashboard looks for answered missions and refreshes runs.
LEMMA DashboardQuiet ==
    ASSUME MissionInductive, NEW b \in Dashboards,
           Poll(b) \/ SelectRuns(b) \/ ShowDashboard(b) \/ \E r \in Scans : SyncRun(b, r)
    PROVE  MissionInductive'
  <1>0. /\ TypeOK /\ LocalTypeOK /\ RowsSound /\ MissionsAgree /\ b \in Handlers
        /\ b \notin Reviews \cup Dispatches \cup Completes
    BY KindsDiffer DEF MissionInductive, Handlers
  <1>1. RowsKept /\ TypeOK'
    BY <1>0 DEF Poll, SelectRuns, ShowDashboard, SyncRun, StartRefresh, RowsKept, tables, TypeOK
  <1>2. KeepsOthers(on, b) /\ KeepsOthers(todo, b)
    BY DEF Poll, SelectRuns, ShowDashboard, SyncRun, StartRefresh, KeepsOthers
  <1>3. CASE Poll(b)
    <2>1. Moves(b) /\ pc'[b] = "syncing"
      BY <1>0, <1>2, <1>3, GotoMoves DEF Poll, Places, KeepsOthers
    <2>2. todo'[b] = {m \in Reviews : Awaited(m)}
      BY <1>0, <1>3 DEF Poll, LocalTypeOK
    <2>3. ASSUME NEW m \in Reviews, Awaited(m)
          PROVE  mission'[m].ref # None /\ HasFeedback(m)'
      <3>1. mission[m].ref \in Dispatches /\ Answered(mission[m].ref)
        BY <1>0, <2>3 DEF TypeOK, Mission, Awaited
      <3>2. mission[m].ref \in submitted /\ assignment[mission[m].ref].mission = m
        BY <1>0, <2>3, <3>1 DEF RowsSound, Awaited
      <3> QED
        BY <1>1, <2>3, <3>2 DEF RowsKept, HasFeedback, Awaited
    <2>4. HandlerSound(b)'
      BY <1>0, <2>1, <2>2, <2>3 DEF HandlerSound
    <2> QED
      BY <1>0, <1>1, <2>1, <2>4, QuietStep
  <1>4. CASE SelectRuns(b) \/ ShowDashboard(b)
    <2>1. Moves(b) /\ pc'[b] \in {"refreshRuns", "idle"}
      BY <1>0, <1>2, <1>4, GotoMoves DEF SelectRuns, ShowDashboard, Places, KeepsOthers
    <2>2. HandlerSound(b)'
      BY <1>0, <2>1 DEF HandlerSound
    <2> QED
      BY <1>0, <1>1, <2>1, <2>2, QuietStep
  <1>5. CASE \E r \in Scans : SyncRun(b, r)
    <2>1. Moves(b) /\ HandlerSound(b)'
      BY <1>0, <1>2, <1>5, StartsRefresh DEF SyncRun, After
    <2> QED
      BY <1>0, <1>1, <2>1, QuietStep
  <1> QED
    BY <1>3, <1>4, <1>5

\* Publishing a report.
LEMMA PublishStep ==
    ASSUME MissionInductive, NEW r \in Scans, Publish(r) PROVE MissionInductive'
  <1>0. TypeOK /\ LocalTypeOK
    BY DEF MissionInductive
  <1>1. RowsKept /\ UNCHANGED <<run, insight, pc, on, todo, seen>>
    BY DEF Publish, RowsKept, local
  <1>2. TypeOK' /\ LocalTypeOK'
    BY <1>0, <1>1 DEF Publish, TypeOK, LocalTypeOK, RowsKept
  <1>3. \A h \in Handlers : HandlerSound(h)'
    <2>1. ASSUME NEW h \in Handlers, HandlerSound(h) PROVE HandlerSound(h)'
      BY <1>1, <2>1 DEF RowsKept, HandlerSound, ReviewSound, DispatchSound, HasFeedback
    <2> QED
      BY <2>1 DEF MissionInductive
  <1>4. RowsSound' /\ MissionsAgree'
    BY <1>1, RowsStay DEF MissionInductive, RowsKept
  <1> QED
    BY <1>2, <1>3, <1>4 DEF MissionInductive

-----------------------------------------------------------------------------
(* Steps that change missions *)

\* What a change of missions by h may not do to the others: take away a
\* mission or its assignment, or make one that another review is to make.
MissionsKept(h) ==
    /\ UNCHANGED <<assignment, submitted, notifying>>
    /\ \A m \in Reviews :
          /\ mission[m].status # NoRow => mission'[m].status # NoRow
          /\ mission[m].status = NoRow /\ m # h => mission'[m].status = NoRow
          /\ mission[m].ref # None => mission'[m].ref # None

LEMMA OthersStaySound ==
    ASSUME NEW h \in Handlers, Moves(h), MissionsKept(h), NEW g \in Handlers \ {h}, HandlerSound(g)
    PROVE  HandlerSound(g)'
  <1>1. pc'[g] = pc[g] /\ on'[g] = on[g] /\ todo'[g] = todo[g] /\ seen'[g] = seen[g]
    BY DEF Moves
  <1>2. assignment' = assignment /\ submitted' = submitted /\ notifying' = notifying
    BY DEF MissionsKept
  <1>3. g \in Reviews => ReviewSound(g)'
    BY <1>1 DEF HandlerSound, ReviewSound, MissionsKept
  <1>4. g \in Dispatches => DispatchSound(g)'
    BY <1>1, <1>2 DEF HandlerSound, DispatchSound, MissionsKept
  <1>5. ASSUME g \in Dashboards, pc[g] = "syncing", NEW m \in todo[g]
        PROVE  m \in Reviews /\ mission'[m].ref # None /\ HasFeedback(m)'
    BY <1>2, <1>5 DEF HandlerSound, HasFeedback, MissionsKept
  <1> QED
    BY <1>1, <1>2, <1>3, <1>4, <1>5 DEF HandlerSound

LEMMA MissionStep ==
    ASSUME MissionInductive, NEW h \in Handlers, Moves(h), MissionsKept(h),
           UNCHANGED <<run, report, insight>>, mission' \in [Reviews -> Mission],
           HandlerSound(h)', RowsSound', MissionsAgree'
    PROVE  MissionInductive'
  <1>1. \A g \in Handlers : HandlerSound(g)'
    BY OthersStaySound DEF MissionInductive
  <1>2. TypeOK'
    BY DEF MissionInductive, TypeOK, MissionsKept
  <1> QED
    BY <1>1, <1>2 DEF MissionInductive, Moves

\* A review's mission.
LEMMA CreateMissionStep ==
    ASSUME MissionInductive, NEW v \in Reviews, CreateMission(v) PROVE MissionInductive'
  <1>0. /\ TypeOK /\ LocalTypeOK /\ RowsSound /\ MissionsAgree
        /\ v \in Handlers /\ HandlerSound(v)
        /\ v \notin Dispatches \cup Completes \cup Dashboards
    BY KindsDiffer DEF MissionInductive, Handlers
  <1>1. Moves(v) /\ HandlerSound(v)'
    BY <1>0, StartsRefresh DEF CreateMission, KeepsOthers, After
  <1>2. on[v] \in Insights /\ mission[v].status = NoRow /\ mission[v].ref = None
    BY <1>0 DEF CreateMission, HandlerSound, ReviewSound, RowsSound
  <1>3. mission' \in [Reviews -> Mission]
    BY <1>0, <1>2 DEF CreateMission, TypeOK, Mission
  <1>4. /\ mission'[v].status = "queued" /\ mission'[v].ref = None
        /\ \A m \in Reviews : m # v => mission'[m] = mission[m]
    BY <1>0 DEF CreateMission, TypeOK
  <1>5. UNCHANGED <<run, report, insight, assignment, submitted, notifying>>
    BY DEF CreateMission
  <1>6. MissionsKept(v)
    BY <1>2, <1>4, <1>5 DEF MissionsKept, NoRow
  <1>7. RowsSound'
    BY <1>0, <1>4, <1>5 DEF RowsSound, Answered, NoRow
  <1>8. MissionsAgree'
    BY <1>0, <1>4, <1>5 DEF MissionsAgree, AssignedIsLinked, DoneHasFeedback
  <1> QED
    BY <1>0, <1>1, <1>3, <1>5, <1>6, <1>7, <1>8, MissionStep

\* A dispatch links the assignment it made, and records that it did.
LEMMA LinkStep ==
    ASSUME MissionInductive, NEW d \in Dispatches,
           LinkAssignment(d) \/ MarkAssigned(d) \/ RecordAssigned(d)
    PROVE  MissionInductive'
  <1>0. /\ TypeOK /\ LocalTypeOK /\ RowsSound /\ MissionsAgree
        /\ d \in Handlers /\ HandlerSound(d)
        /\ d \notin Reviews \cup Completes \cup Dashboards
        /\ d # None
    BY KindsDiffer, ProactiveAssumption DEF MissionInductive, Handlers
  <1>1. PICK m \in Reviews :
           /\ on[d] = m /\ mission[m].status # NoRow /\ assignment[d].mission = m
           /\ pc[d] \in Calling => mission[m].ref # None
    BY <1>0 DEF LinkAssignment, MarkAssigned, RecordAssigned, HandlerSound, DispatchSound, Calling
  <1>2. mission[m] \in Mission
    BY <1>0 DEF TypeOK
  <1>3. /\ \A n \in Reviews : n # m => mission'[n] = mission[n]
        /\ mission'[m] \in Mission /\ mission'[m].ref # None
        /\ mission'[m].status \in {"queued", "assigned"}
        /\ mission'[m].ref \in {d, mission[m].ref}
    <2>1. CASE LinkAssignment(d)
      BY <1>0, <1>1, <1>2, <2>1 DEF LinkAssignment, Linked, TypeOK, Mission
    <2>2. CASE MarkAssigned(d)
      <3>1. mission' = [mission EXCEPT ![m].status = "assigned"]
        BY <1>1, <2>2 DEF MarkAssigned
      <3>2. pc[d] \in Calling
        BY <2>2 DEF MarkAssigned, Calling
      <3> QED
        BY <1>0, <1>1, <1>2, <3>1, <3>2 DEF TypeOK, Mission
    <2>3. CASE RecordAssigned(d)
      <3>1. mission' = [mission EXCEPT ![m] =
                          [[mission[m] EXCEPT !.status = "assigned"] EXCEPT !.ref = d]]
        BY <1>0, <1>1, <2>3 DEF RecordAssigned, TypeOK
      <3> QED
        BY <1>0, <1>1, <1>2, <3>1 DEF TypeOK, Mission
    <2> QED
      BY <2>1, <2>2, <2>3
  <1>4. mission' \in [Reviews -> Mission]
    <2>1. DOMAIN mission' = Reviews /\ mission' = [n \in Reviews |-> mission'[n]]
      BY <1>0 DEF LinkAssignment, MarkAssigned, RecordAssigned, TypeOK
    <2>2. \A n \in Reviews : mission'[n] \in Mission
      BY <1>0, <1>3 DEF TypeOK
    <2> QED
      BY <2>1, <2>2
  <1>5. UNCHANGED <<run, report, insight, assignment, submitted, notifying>>
    BY DEF LinkAssignment, MarkAssigned, RecordAssigned
  <1>6. MissionsKept(d)
    BY <1>0, <1>1, <1>3, <1>5 DEF MissionsKept, NoRow
  <1>7. RowsSound'
    BY <1>0, <1>1, <1>3, <1>5 DEF RowsSound, Answered, NoRow
  <1>8. MissionsAgree'
    BY <1>0, <1>1, <1>3, <1>5, <1>7 DEF MissionsAgree, AssignedIsLinked, DoneHasFeedback, RowsSound
  <1>9. Moves(d) /\ HandlerSound(d)'
    <2>1. CASE RecordAssigned(d)
      BY <1>0, <2>1, StartsRefresh DEF RecordAssigned, KeepsOthers, After
    <2>2. CASE LinkAssignment(d) \/ MarkAssigned(d)
      <3>1. KeepsOthers(on, d) /\ KeepsOthers(todo, d) /\ KeepsOthers(seen, d)
            /\ on' = on
        BY <2>2 DEF LinkAssignment, MarkAssigned, KeepsOthers
      <3>2. Moves(d) /\ pc'[d] \in {"notifying", "recording"}
        BY <1>0, <2>2, <3>1, GotoMoves DEF LinkAssignment, MarkAssigned, Places
      <3>3. DispatchSound(d)'
        BY <1>1, <1>3, <1>5, <3>1, <3>2 DEF DispatchSound, Calling, NoRow
      <3> QED
        BY <1>0, <3>2, <3>3 DEF HandlerSound
    <2> QED
      BY <2>1, <2>2
  <1> QED
    BY <1>0, <1>4, <1>5, <1>6, <1>7, <1>8, <1>9, MissionStep

\* Missions whose user has answered are done.
LEMMA DoneStep ==
    ASSUME MissionInductive, NEW h \in Handlers, h \notin Reviews, Moves(h), HandlerSound(h)',
           UNCHANGED <<run, report, insight, assignment, submitted, notifying>>,
           NEW finished \in SUBSET Reviews,
           \A m \in finished : mission[m].ref # None /\ HasFeedback(m),
           mission' = [m \in Reviews |-> IF m \in finished
                                         THEN [mission[m] EXCEPT !.status = "done"] ELSE mission[m]]
    PROVE  MissionInductive'
  <1>0. TypeOK /\ RowsSound /\ MissionsAgree
    BY DEF MissionInductive
  <1>1. \A m \in Reviews :
           /\ mission'[m] \in Mission /\ mission'[m].ref = mission[m].ref
           /\ mission'[m].status = IF m \in finished THEN "done" ELSE mission[m].status
    BY <1>0 DEF TypeOK, Mission
  <1>2. mission' \in [Reviews -> Mission]
    BY <1>1
  <1>3. MissionsKept(h)
    BY <1>0, <1>1 DEF MissionsKept, RowsSound, NoRow
  <1>4. RowsSound'
    BY <1>0, <1>1 DEF RowsSound, Answered, NoRow
  <1>5. MissionsAgree'
    BY <1>0, <1>1 DEF MissionsAgree, AssignedIsLinked, DoneHasFeedback, RowsSound, HasFeedback
  <1> QED
    BY <1>2, <1>3, <1>4, <1>5, MissionStep

LEMMA CompleteMissionStep ==
    ASSUME MissionInductive, NEW c \in Completes, CompleteMission(c) PROVE MissionInductive'
  <1>0. /\ TypeOK /\ LocalTypeOK /\ RowsSound /\ c \in Handlers /\ HandlerSound(c)
        /\ c \notin Reviews /\ None \notin Dispatches
    BY KindsDiffer, ProactiveAssumption DEF MissionInductive, Handlers
  <1>1. Moves(c) /\ HandlerSound(c)'
    BY <1>0, StartsRefresh DEF CompleteMission, KeepsOthers, After
  <1>2. on[c] \in submitted /\ on[c] # None
    BY <1>0 DEF CompleteMission, HandlerSound, TypeOK
  <1>3. PICK finished \in SUBSET Reviews : finished = {m \in Reviews : mission[m].ref = on[c]}
    OBVIOUS
  <1>4. \A m \in finished : mission[m].ref # None /\ HasFeedback(m)
    BY <1>0, <1>2, <1>3 DEF RowsSound, HasFeedback
  <1>5. mission' = [m \in Reviews |-> IF m \in finished
                                      THEN [mission[m] EXCEPT !.status = "done"] ELSE mission[m]]
    BY <1>3 DEF CompleteMission
  <1>6. UNCHANGED <<run, report, insight, assignment, submitted, notifying>>
    BY DEF CompleteMission
  <1> QED
    BY <1>0, <1>1, <1>4, <1>5, <1>6, DoneStep

LEMMA SyncMissionStep ==
    ASSUME MissionInductive, NEW b \in Dashboards, NEW m \in Reviews, SyncMission(b, m)
    PROVE  MissionInductive'
  <1>0. /\ TypeOK /\ LocalTypeOK /\ b \in Handlers /\ HandlerSound(b)
        /\ b \notin Reviews \cup Dispatches \cup Completes
    BY KindsDiffer DEF MissionInductive, Handlers
  <1>1. UNCHANGED <<run, report, insight, assignment, submitted, notifying, pc, on, seen>>
    BY DEF SyncMission
  <1>2. KeepsOthers(todo, b) /\ todo'[b] \subseteq todo[b]
    BY <1>0 DEF SyncMission, KeepsOthers, LocalTypeOK
  <1>3. Moves(b)
    BY <1>0, <1>1, <1>2, OthersKept DEF Moves, LocalTypeOK
  <1>4. mission[m].ref # None /\ HasFeedback(m)
    BY <1>0 DEF SyncMission, HandlerSound
  <1>5. mission' = [n \in Reviews |-> IF n \in {m}
                                      THEN [mission[n] EXCEPT !.status = "done"] ELSE mission[n]]
    BY <1>0 DEF SyncMission, TypeOK
  <1>6. \A n \in Reviews : mission'[n].ref = mission[n].ref
    BY <1>0, <1>5 DEF TypeOK, Mission
  <1>7. HandlerSound(b)'
    BY <1>0, <1>1, <1>2, <1>6 DEF SyncMission, HandlerSound, HasFeedback
  <1> QED
    BY <1>0, <1>1, <1>3, <1>4, <1>5, <1>7, DoneStep

-----------------------------------------------------------------------------
(* Steps that change assignments *)

\* What a change of assignments may not do to those of other dispatches that
\* have not begun, to the mission of one that exists, and to the feedback.
AssignmentsKept(h) ==
    /\ UNCHANGED mission
    /\ submitted \subseteq submitted'
    /\ \A d \in Dispatches :
          /\ assignment[d].mission # None => assignment'[d].mission = assignment[d].mission
          /\ d # h /\ pc[d] \in {"idle", "assigning"} =>
                assignment'[d] = assignment[d] /\ (d \in notifying' => d \in notifying)

\* Who is submitted has an assignment.
LEMMA FeedbackKept ==
    ASSUME TypeOK, NEW h, AssignmentsKept(h), NEW m \in Reviews, HasFeedback(m)
    PROVE  HasFeedback(m)'
  BY ProactiveAssumption DEF AssignmentsKept, HasFeedback, TypeOK

LEMMA AssignmentStep ==
    ASSUME MissionInductive, NEW h \in Dispatches, AssignmentsKept(h),
           UNCHANGED <<run, report, insight>>,
           assignment' \in [Dispatches -> Assignment],
           notifying' \subseteq Dispatches, submitted' \subseteq Dispatches,
           Moves(h), HandlerSound(h)',
           \A d \in Dispatches : Answered(d)' => d \in submitted'
    PROVE  MissionInductive'
  <1>0. TypeOK /\ LocalTypeOK /\ RowsSound /\ MissionsAgree
    BY DEF MissionInductive
  <1>1. TypeOK'
    BY <1>0 DEF TypeOK, AssignmentsKept
  <1>2. ASSUME NEW g \in Handlers, g # h PROVE HandlerSound(g)'
    <2>0. /\ HandlerSound(g) /\ mission' = mission
          /\ pc'[g] = pc[g] /\ on'[g] = on[g] /\ todo'[g] = todo[g] /\ seen'[g] = seen[g]
      BY <1>2 DEF MissionInductive, AssignmentsKept, Moves
    <2>1. g \in Reviews => ReviewSound(g)'
      BY <2>0 DEF HandlerSound, ReviewSound
    <2>2. g \in Dispatches => DispatchSound(g)'
      <3> SUFFICES ASSUME g \in Dispatches PROVE DispatchSound(g)'
        OBVIOUS
      <3>1. DispatchSound(g)
        BY <2>0 DEF HandlerSound
      <3>2. pc[g] \in {"idle", "assigning"} =>
               assignment'[g] = assignment[g] /\ (g \in notifying' => g \in notifying)
        BY <1>2 DEF AssignmentsKept
      <3>3. pc[g] \in {"linking"} \cup Calling => assignment'[g].mission = on[g]
        BY <3>1, ProactiveAssumption DEF DispatchSound, AssignmentsKept, Calling
      <3> QED
        BY <2>0, <3>1, <3>2, <3>3 DEF DispatchSound
    <2>3. g \in Completes /\ pc[g] = "completing" => on[g] \in submitted'
      BY <2>0 DEF HandlerSound, AssignmentsKept
    <2>4. g \in Dashboards /\ pc[g] = "syncing" =>
             \A m \in todo[g] : m \in Reviews /\ mission[m].ref # None /\ HasFeedback(m)'
      BY <1>0, <2>0, FeedbackKept DEF HandlerSound
    <2> QED
      BY <2>0, <2>1, <2>2, <2>3, <2>4 DEF HandlerSound
  <1>3. \A m \in Reviews :
           mission[m].ref # None => assignment'[mission[m].ref].mission = m
    BY <1>0, ProactiveAssumption DEF RowsSound, AssignmentsKept, TypeOK, Mission
  <1>4. RowsSound'
    BY <1>0, <1>3 DEF RowsSound, AssignmentsKept
  <1>5. MissionsAgree'
    <2>1. AssignedIsLinked'
      BY <1>0, <1>3 DEF MissionsAgree, AssignedIsLinked, AssignmentsKept
    <2>2. \A m \in Reviews : mission[m].status = "done" => HasFeedback(m)
      BY <1>0 DEF MissionsAgree, DoneHasFeedback, HasFeedback
    <2>3. \A m \in Reviews : mission'[m].status = "done" => HasFeedback(m)'
      BY <1>0, <2>2, FeedbackKept DEF AssignmentsKept
    <2>4. DoneHasFeedback'
      BY <2>3 DEF DoneHasFeedback, HasFeedback
    <2> QED
      BY <2>1, <2>4 DEF MissionsAgree
  <1>6. \A g \in Handlers : HandlerSound(g)'
    BY <1>2
  <1> QED
    BY <1>1, <1>4, <1>5, <1>6 DEF MissionInductive, Moves

\* The assignment a dispatch makes.
LEMMA CreateAssignmentStep ==
    ASSUME MissionInductive, NEW d \in Dispatches, CreateAssignment(d) PROVE MissionInductive'
  <1>0. /\ TypeOK /\ LocalTypeOK /\ RowsSound /\ d \in Handlers /\ HandlerSound(d)
        /\ d \notin Reviews \cup Completes \cup Dashboards
    BY KindsDiffer DEF MissionInductive, Handlers
  <1>1. /\ assignment[d] = [mission |-> None, status |-> NoRow] /\ d \notin notifying
        /\ on[d] \in Reviews /\ mission[on[d]].status # NoRow
    BY <1>0 DEF CreateAssignment, HandlerSound, DispatchSound
  <1>2. /\ assignment'[d] = [mission |-> on[d], status |-> "pending"]
        /\ \A o \in Dispatches : o # d => assignment'[o] = assignment[o]
        /\ assignment' \in [Dispatches -> Assignment]
    BY <1>0, <1>1 DEF CreateAssignment, TypeOK, Assignment
  <1>3. UNCHANGED <<run, report, insight, mission, notifying, submitted, on>>
    BY DEF CreateAssignment
  <1>4. AssignmentsKept(d)
    BY <1>1, <1>2, <1>3 DEF AssignmentsKept
  <1>5. Moves(d) /\ pc'[d] = "linking"
    BY <1>0, GotoMoves DEF CreateAssignment, KeepsOthers, Places
  <1>6. HandlerSound(d)'
    BY <1>0, <1>1, <1>2, <1>3, <1>5 DEF HandlerSound, DispatchSound, Calling
  <1>7. \A o \in Dispatches : Answered(o)' => o \in submitted'
    BY <1>0, <1>2, <1>3 DEF RowsSound, Answered
  <1> QED
    BY <1>0, <1>2, <1>3, <1>4, <1>5, <1>6, <1>7, AssignmentStep DEF TypeOK

\* The gateway takes an assignment to notify its user of.
LEMMA NotifyStep ==
    ASSUME MissionInductive, NEW d \in Dispatches, Notify(d) PROVE MissionInductive'
  <1>0. /\ TypeOK /\ LocalTypeOK /\ RowsSound /\ d \in Handlers /\ HandlerSound(d)
        /\ d \notin Reviews \cup Completes \cup Dashboards
    BY KindsDiffer DEF MissionInductive, Handlers
  <1>1. UNCHANGED <<run, report, insight, mission, assignment, submitted, on>>
        /\ notifying' \subseteq notifying \cup {d} /\ pc[d] = "notifying"
    BY DEF Notify, tables
  <1>2. AssignmentsKept(d)
    BY <1>1 DEF AssignmentsKept
  <1>3. Moves(d) /\ pc'[d] = "waiting"
    BY <1>0, GotoMoves DEF Notify, KeepsOthers, Places
  <1>4. HandlerSound(d)'
    BY <1>0, <1>1, <1>3 DEF HandlerSound, DispatchSound, Calling
  <1>5. \A o \in Dispatches : Answered(o)' => o \in submitted'
    BY <1>0, <1>1 DEF RowsSound, Answered
  <1> QED
    BY <1>0, <1>1, <1>2, <1>3, <1>4, <1>5, AssignmentStep DEF TypeOK

\* The gateway marks an assignment or fails to, and the user submits.
LEMMA GatewayStep ==
    ASSUME MissionInductive, NEW d \in Dispatches,
           MarkNotified(d) \/ NotifyFails(d) \/ UserSubmits(d)
    PROVE  MissionInductive'
  <1>0. /\ TypeOK /\ LocalTypeOK /\ RowsSound /\ d \in Handlers /\ HandlerSound(d)
    BY DEF MissionInductive, Handlers
  <1>1. /\ UNCHANGED <<run, report, insight, mission, pc, on, todo, seen>>
        /\ submitted \subseteq submitted' /\ submitted' \subseteq submitted \cup {d}
        /\ notifying' \subseteq notifying
    BY DEF MarkNotified, NotifyFails, UserSubmits, tables, local
  <1>2. pc[d] \notin {"idle", "assigning"}
    BY <1>0 DEF MarkNotified, NotifyFails, UserSubmits, HandlerSound, DispatchSound, NoRow
  <1>3. /\ assignment' \in [Dispatches -> Assignment]
        /\ \A o \in Dispatches :
              /\ assignment'[o].mission = assignment[o].mission
              /\ o # d => assignment'[o] = assignment[o]
        /\ Answered(d)' => d \in submitted'
    <2>1. CASE MarkNotified(d)
      BY <1>0, <2>1 DEF MarkNotified, TypeOK, Assignment, Answered
    <2>2. CASE NotifyFails(d)
      BY <1>0, <2>2 DEF NotifyFails, tables, TypeOK, RowsSound, Answered
    <2>3. CASE UserSubmits(d)
      BY <1>0, <2>3 DEF UserSubmits, TypeOK, Assignment
    <2> QED
      BY <2>1, <2>2, <2>3
  <1>4. AssignmentsKept(d)
    BY <1>1, <1>3 DEF AssignmentsKept
  <1>5. HandlerSound(d)'
    <2>1. d \notin Reviews \cup Completes \cup Dashboards
      BY <1>0, KindsDiffer
    <2> QED
      BY <1>0, <1>1, <1>2, <1>3, <2>1 DEF HandlerSound, DispatchSound, Calling
  <1>6. \A o \in Dispatches : Answered(o)' => o \in submitted'
    BY <1>0, <1>1, <1>3 DEF RowsSound, Answered
  <1> QED
    <2>1. Moves(d)
      BY <1>0, <1>1 DEF Moves, LocalTypeOK
    <2>2. notifying' \subseteq Dispatches /\ submitted' \subseteq Dispatches
      BY <1>0, <1>1 DEF TypeOK
    <2> QED
      BY <1>1, <1>3, <1>4, <1>5, <1>6, <2>1, <2>2, AssignmentStep

-----------------------------------------------------------------------------
(* Theorems *)

LEMMA InitSound == Init => MissionInductive
  <1> SUFFICES ASSUME Init PROVE MissionInductive
    OBVIOUS
  <1>1. TypeOK
    BY DEF Init, TypeOK, Mission, Assignment, NoRow
  <1>2. LocalTypeOK
    BY DEF Init, LocalTypeOK, Places
  <1>3. ASSUME NEW h \in Handlers PROVE HandlerSound(h)
    BY DEF Init, HandlerSound, ReviewSound, DispatchSound, Calling
  <1>4. RowsSound /\ MissionsAgree
    BY DEF Init, RowsSound, Answered, MissionsAgree, AssignedIsLinked, DoneHasFeedback, NoRow
  <1> QED
    BY <1>1, <1>2, <1>3, <1>4 DEF MissionInductive

LEMMA StutterSound == MissionInductive /\ UNCHANGED vars => MissionInductive'
  <1> SUFFICES ASSUME MissionInductive, UNCHANGED vars PROVE MissionInductive'
    OBVIOUS
  <1>1. UNCHANGED <<run, report, insight, mission, assignment, notifying, submitted,
                    pc, on, todo, seen>>
    BY DEF vars, tables, local
  <1>2. TypeOK' /\ LocalTypeOK'
    BY <1>1 DEF MissionInductive, TypeOK, LocalTypeOK
  <1>3. ASSUME NEW h \in Handlers PROVE HandlerSound(h)'
    BY <1>1 DEF MissionInductive, HandlerSound, ReviewSound, DispatchSound, HasFeedback
  <1>4. RowsSound' /\ MissionsAgree'
    BY <1>1, RowsStay DEF MissionInductive
  <1> QED
    BY <1>2, <1>3, <1>4 DEF MissionInductive

LEMMA NextSound == MissionInductive /\ [Next]_vars => MissionInductive'
  <1> SUFFICES ASSUME MissionInductive, Next PROVE MissionInductive'
    BY StutterSound
  <1>1. ASSUME NEW h \in Handlers, Refresh(h) \/ HandlerFails(h) PROVE MissionInductive'
    BY <1>1, RefreshStep, FailStep
  <1>2. ASSUME NEW s \in Scans, ScanStart(s) \/ ScanStep(s) \/ ScanFails(s) \/ Publish(s)
        PROVE  MissionInductive'
    BY <1>2, ScanSteps, FailStep, PublishStep DEF Handlers
  <1>3. ASSUME NEW v \in Reviews,
               \/ \E i \in Insights, decision \in {"approved", "rejected"} : Review(v, i, decision)
               \/ ReviewStep(v)
        PROVE  MissionInductive'
    BY <1>3, ReviewQuiet, CreateMissionStep DEF ReviewStep
  <1>4. ASSUME NEW d \in Dispatches,
               \/ \E m \in Reviews, force \in BOOLEAN : Dispatch(d, m, force)
               \/ DispatchStep(d)
               \/ MarkNotified(d) \/ NotifyFails(d) \/ UserSubmits(d)
        PROVE  MissionInductive'
    BY <1>4, DispatchQuiet, CreateAssignmentStep, LinkStep, NotifyStep, GatewayStep DEF DispatchStep
  <1>5. ASSUME NEW c \in Completes,
               (\E d \in Dispatches : Complete(c, d)) \/ CompleteMission(c)
        PROVE  MissionInductive'
    BY <1>5, CompleteQuiet, CompleteMissionStep
  <1>6. ASSUME NEW b \in Dashboards, DashboardStep(b) PROVE MissionInductive'
    BY <1>6, DashboardQuiet, SyncMissionStep DEF DashboardStep
  <1> QED
    BY <1>1, <1>2, <1>3, <1>4, <1>5, <1>6 DEF Next

\* The invariant, of every state the handlers can bring about.
THEOREM MissionInductiveAlways == Spec => []MissionInductive
  BY InitSound, NextSound, PTL DEF Spec

\* The rows keep their types: no handler writes a status its table does not
\* have, or a reference to a row of another table.
THEOREM MissionTypeCorrect == Spec => []TypeOK
  <1>1. MissionInductive => TypeOK
    BY DEF MissionInductive
  <1> QED
    BY <1>1, MissionInductiveAlways, PTL

\* A mission that is assigned or done has an assignment made for it, and is
\* done only after a user it was given to sent feedback, however dispatches,
\* completions, dashboards and failures of all of them overlap.
THEOREM MissionsAgreeAlways == Spec => []MissionsAgree
  <1>1. MissionInductive => MissionsAgree
    BY DEF MissionInductive
  <1> QED
    BY <1>1, MissionInductiveAlways, PTL

================================================================================
