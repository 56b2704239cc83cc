----------------------------- MODULE PagesProofs ------------------------------
(***************************************************************************)
(* Proofs about the pages and what answers them: the page of the           *)
(* operations console shows the state it asked for last (ConsoleClient),   *)
(* settings and models of the web portal are kept (PortalConfig); the      *)
(* server of the console keeps its links and its contracts (OpsConsole),   *)
(* and the bridge it feeds stays open (ConsoleBridge) and sound            *)
(* (LegacyBridge); a role's page is the same in both languages             *)
(* (RoleViews).  For any number of roles, loads, posts, settings, models,  *)
(* forms, restarts, pieces of evidence, commands, documents and lines.     *)
(***************************************************************************)
EXTENDS ConsoleClient, PortalConfig, ConsoleBridge, RoleViews, FiniteSetTheorems, TLAPS

-----------------------------------------------------------------------------
(* The page of the operations console *)

Load == [number : Nat, user : ConsoleUsers, saw : Nat]

Post == [kind : {"preview", "command", "action"}, user : ConsoleUsers, done : BOOLEAN]

ClientTypeOK ==
    /\ userId \in ConsoleUsers
    /\ loadId \in Nat /\ loads \subseteq Load
    /\ data \in {NoData} \cup [user : ConsoleUsers, saw : Nat]
    /\ failed \in BOOLEAN /\ loading \in BOOLEAN
    /\ runtimeId \in Nat /\ probes \subseteq [number : Nat, load : Nat]
    /\ panel \in {"empty", "checking", "result"}
    /\ preview \in {"empty", "busy", "error"} \cup ConsoleUsers
    /\ posts \subseteq Post /\ IsFiniteSet(posts)
    /\ written \in Nat /\ acked \in Nat

Latest == {l \in loads : IsLatest(l)}

\* Posts whose write the server has, and whose answer is on its way.
Carried == {p \in posts : p.done /\ p.kind # "preview"}

\* There is one last load at most; it is for the role the page acts as, and
\* what the server read for it has every write whose answer the page has.
LatestSound ==
    /\ \A l \in loads : l.number <= loadId
    /\ \A l, m \in Latest : l = m
    /\ \A l \in Latest : l.user = userId /\ (l.saw # Unread => l.saw >= acked)

AckedWritten == acked + Cardinality(Carried) <= written

ClientInductive ==
    /\ ClientTypeOK
    /\ LatestSound
    /\ AckedWritten
    /\ ShownIsCurrent

LEMMA InitClient == ClientInit => ClientInductive
  <1> SUFFICES ASSUME ClientInit PROVE ClientInductive
    OBVIOUS
  <1>1. ClientTypeOK
    <2>1. loads \subseteq Load
      BY ClientAssumption DEF ClientInit, Unread, Load
    <2>2. posts \subseteq Post /\ IsFiniteSet(posts) /\ probes \subseteq [number : Nat, load : Nat]
      BY FS_EmptySet DEF ClientInit
    <2> QED
      BY <2>1, <2>2 DEF ClientInit, ClientTypeOK
  <1>2. LatestSound
    BY DEF ClientInit, LatestSound, Latest, IsLatest
  <1>3. AckedWritten
    <2>1. Carried = {}
      BY DEF ClientInit, Carried
    <2> QED
      BY <2>1, FS_EmptySet DEF ClientInit, AckedWritten
  <1>4. ShownIsCurrent
    BY DEF ClientInit, ShownIsCurrent, Loaded
  <1> QED
    BY <1>1, <1>2, <1>3, <1>4 DEF ClientInductive

\* A new load is the last, for the role the page acts as from now on.
LEMMA LoadStarts ==
    ASSUME ClientInductive, NEW u \in ConsoleUsers, LoadState(u), userId' = u,
           acked' \in Nat, data' = data
    PROVE  /\ loadId' \in Nat /\ loads' \subseteq Load
           /\ LatestSound' /\ ShownIsCurrent'
  <1> DEFINE new == [number |-> loadId', user |-> u, saw |-> Unread]
  <1>1. /\ loadId \in Nat /\ loads \subseteq Load
        /\ loadId' = loadId + 1 /\ loads' = loads \cup {new}
        /\ loading' = TRUE /\ failed' = FALSE
    BY DEF ClientInductive, ClientTypeOK, LoadState
  <1>2. new \in Load /\ new.number = loadId' /\ new.user = u /\ new.saw = Unread
    BY <1>1, ClientAssumption DEF Load, Unread
  <1>3. \A l \in loads : l.number \in Nat /\ l.number <= loadId
    BY <1>1 DEF ClientInductive, LatestSound, Load
  <1> HIDE DEF new
  <1>4. \A l \in loads' : l.number <= loadId' /\ (l.number = loadId' => l = new)
    BY <1>1, <1>2, <1>3
  <1>5. \A l \in Latest' : l = new
    BY <1>4 DEF Latest, IsLatest
  <1>6. Unread' = Unread
    BY DEF Unread
  <1>7. LatestSound'
    BY <1>2, <1>4, <1>5, <1>6 DEF LatestSound
  <1>8. ShownIsCurrent'
    BY <1>1, <1>2 DEF ShownIsCurrent, Loaded, IsLatest
  <1> QED
    BY <1>1, <1>2, <1>7, <1>8

\* What leaves the loads, the last one and what is shown alone.
LEMMA LoadsRest ==
    ASSUME ClientInductive, UNCHANGED <<userId, data, loadVars, acked>>
    PROVE  LatestSound' /\ ShownIsCurrent'
  BY DEF ClientInductive, LatestSound, Latest, IsLatest, ShownIsCurrent, Loaded, loadVars,
         Unread

LEMMA PostsRest ==
    ASSUME ClientInductive, UNCHANGED serverVars
    PROVE  AckedWritten'
  BY DEF ClientInductive, AckedWritten, Carried, serverVars

\* A post that is sent is carried out by nobody yet.
LEMMA SendEffect ==
    ASSUME ClientInductive, NEW kind \in {"preview", "command", "action"}, Send(kind),
           UNCHANGED <<written, acked>>
    PROVE  posts' \subseteq Post /\ IsFiniteSet(posts') /\ AckedWritten'
  <1> DEFINE new == [kind |-> kind, user |-> userId, done |-> FALSE]
  <1>1. posts' = posts \cup {new} /\ new \in Post /\ ~new.done
    BY DEF Send, ClientInductive, ClientTypeOK, Post
  <1> HIDE DEF new
  <1>2. Carried' = Carried
    BY <1>1 DEF Carried
  <1>3. IsFiniteSet(posts')
    BY <1>1, FS_AddElement DEF ClientInductive, ClientTypeOK
  <1> QED
    BY <1>1, <1>2, <1>3 DEF ClientInductive, AckedWritten, ClientTypeOK

LEMMA CarriedFinite ==
    ASSUME ClientInductive
    PROVE  IsFiniteSet(Carried) /\ Cardinality(Carried) \in Nat
  BY FS_Subset, FS_CardinalityType DEF ClientInductive, ClientTypeOK, Carried

\* A post is gone; if it was carried out, one answer is left less to come.
LEMMA PostGone ==
    ASSUME ClientInductive, NEW p \in posts, posts' = posts \ {p}
    PROVE  /\ posts' \subseteq Post /\ IsFiniteSet(posts')
           /\ Cardinality(Carried') \in Nat
           /\ Cardinality(Carried') <= Cardinality(Carried)
           /\ p \in Carried => Cardinality(Carried') = Cardinality(Carried) - 1
  <1>1. Carried' = Carried \ {p}
    BY DEF Carried
  <1>2. /\ IsFiniteSet(Carried \ {p})
        /\ Cardinality(Carried \ {p})
             = IF p \in Carried THEN Cardinality(Carried) - 1 ELSE Cardinality(Carried)
    BY CarriedFinite, FS_RemoveElement
  <1>3. Cardinality(Carried) \in Nat /\ Cardinality(Carried \ {p}) \in Nat
    BY <1>2, CarriedFinite, FS_CardinalityType
  <1>4. IsFiniteSet(posts') /\ posts' \subseteq Post
    BY FS_RemoveElement DEF ClientInductive, ClientTypeOK
  <1> QED
    BY <1>1, <1>2, <1>3, <1>4

LEMMA NextClient == ClientInductive /\ [ClientNext]_clientVars => ClientInductive'
  <1> SUFFICES ASSUME ClientInductive, [ClientNext]_clientVars PROVE ClientInductive'
    OBVIOUS
  <1>0. ClientTypeOK /\ LatestSound /\ AckedWritten /\ ShownIsCurrent
    BY DEF ClientInductive
  <1>1. CASE Refresh
    <2>1. LoadState(userId) /\ UNCHANGED <<userId, data, acked>>
      BY <1>1 DEF Refresh, serverVars
    <2>2. loadId' \in Nat /\ loads' \subseteq Load /\ LatestSound' /\ ShownIsCurrent'
      BY <1>0, <2>1, LoadStarts DEF ClientTypeOK
    <2>3. ClientTypeOK'
      BY <1>0, <1>1, <2>2 DEF ClientTypeOK, Refresh, LoadState, serverVars
    <2> QED
      BY <1>1, <2>2, <2>3, PostsRest DEF Refresh, ClientInductive
  <1>2. ASSUME NEW u \in ConsoleUsers, SwitchRole(u) PROVE ClientInductive'
    <2>1. LoadState(u) /\ userId' = u /\ UNCHANGED <<data, acked>>
      BY <1>2 DEF SwitchRole, serverVars
    <2>2. loadId' \in Nat /\ loads' \subseteq Load /\ LatestSound' /\ ShownIsCurrent'
      BY <1>0, <2>1, LoadStarts DEF ClientTypeOK
    <2>3. ClientTypeOK'
      BY <1>0, <1>2, <2>2 DEF ClientTypeOK, SwitchRole, LoadState, serverVars
    <2> QED
      BY <1>2, <2>2, <2>3, PostsRest DEF SwitchRole, ClientInductive
  <1>3. ASSUME NEW l \in loads, ServeState(l) PROVE ClientInductive'
    <2> DEFINE served == [l EXCEPT !.saw = written]
    <2>1. /\ loads' = (loads \ {l}) \cup {served} /\ l \in Load
          /\ UNCHANGED <<userId, data, loadId, failed, loading, runtimeId, probes, panel,
                         preview, posts, written, acked>>
      BY <1>0, <1>3 DEF ServeState, ClientTypeOK, serverVars
    <2>2. served \in Load /\ served.number = l.number /\ served.user = l.user
          /\ served.saw = written
      BY <1>0, <2>1 DEF Load, ClientTypeOK
    <2> HIDE DEF served
    <2>3. written >= acked
      BY <1>0, CarriedFinite DEF AckedWritten, ClientTypeOK
    <2>4. \A m \in loads' : (m \in loads /\ m # l) \/ m = served
      BY <2>1
    <2>5. \A m \in Latest' : (m \in Latest /\ m # l) \/ (m = served /\ l \in Latest)
      BY <2>1, <2>2, <2>4 DEF Latest, IsLatest
    <2>6. LatestSound'
      <3>1. \A m \in loads' : m.number <= loadId'
        BY <1>0, <2>1, <2>2, <2>4 DEF LatestSound
      <3>2. \A m, o \in Latest' : m = o
        BY <1>0, <2>5 DEF LatestSound
      <3>3. \A m \in Latest' : m.user = userId' /\ (m.saw # Unread => m.saw >= acked')
        BY <1>0, <2>1, <2>2, <2>3, <2>5 DEF LatestSound
      <3> QED
        BY <3>1, <3>2, <3>3 DEF LatestSound, Unread
    <2>7. (\E m \in loads' : m.number = loadId) <=> (\E m \in loads : m.number = loadId)
      BY <2>1, <2>2
    <2>8. ShownIsCurrent'
      BY <1>0, <2>1, <2>7 DEF ShownIsCurrent, Loaded, IsLatest
    <2>9. ClientTypeOK'
      BY <1>0, <2>1, <2>2 DEF ClientTypeOK
    <2> QED
      BY <2>1, <2>6, <2>8, <2>9, PostsRest DEF ClientInductive, serverVars
  <1>4. ASSUME NEW l \in loads, StateArrives(l) PROVE ClientInductive'
    <2>1. /\ l.saw # Unread /\ loads' = loads \ {l} /\ l \in Load
          /\ UNCHANGED <<loadId, failed, posts, written, acked>>
      BY <1>0, <1>4 DEF StateArrives, ClientTypeOK, serverVars
    <2>2. AckedWritten'
      BY <2>1, PostsRest DEF serverVars
    <2>3. CASE IsLatest(l)
      <3>1. /\ data' = [user |-> l.user, saw |-> l.saw] /\ userId' = l.user
            /\ loading' = FALSE
            /\ preview' \in {preview, l.user} /\ panel' = "checking"
            /\ runtimeId' = runtimeId + 1
            /\ probes' = probes \cup {[number |-> runtimeId', load |-> l.number]}
        BY <1>4, <2>3 DEF StateArrives
      <3>2. l \in Latest /\ l.user = userId /\ l.saw >= acked
        BY <1>0, <2>1, <2>3 DEF LatestSound, Latest
      <3>3. Latest' = {}
        BY <1>0, <2>1, <3>2 DEF LatestSound, Latest, IsLatest
      <3>4. LatestSound'
        BY <1>0, <2>1, <3>3 DEF LatestSound
      <3>5. data'.user = userId' /\ data'.saw >= acked'
        BY <2>1, <3>1, <3>2
      <3>6. ShownIsCurrent'
        BY <3>1, <3>3, <3>5 DEF ShownIsCurrent, Latest, IsLatest
      <3>7. /\ userId' \in ConsoleUsers /\ data' \in [user : ConsoleUsers, saw : Nat]
            /\ runtimeId' \in Nat /\ probes' \subseteq [number : Nat, load : Nat]
        BY <1>0, <2>1, <3>1 DEF Load, ClientTypeOK
      <3>8. ClientTypeOK'
        BY <1>0, <2>1, <3>1, <3>7 DEF ClientTypeOK
      <3> QED
        BY <2>2, <3>4, <3>6, <3>8 DEF ClientInductive
    <2>4. CASE ~IsLatest(l)
      <3>1. UNCHANGED <<data, userId, loading, preview, panel, runtimeId, probes>>
        BY <1>4, <2>4 DEF StateArrives
      <3>2. Latest' = Latest
        BY <2>1, <2>4 DEF Latest, IsLatest
      <3>3. LatestSound'
        BY <1>0, <2>1, <3>1, <3>2 DEF LatestSound, Unread
      <3>4. ShownIsCurrent'
        BY <1>0, <2>1, <3>1, <3>2 DEF ShownIsCurrent, Loaded, Latest, IsLatest
      <3>5. ClientTypeOK'
        BY <1>0, <2>1, <3>1 DEF ClientTypeOK
      <3> QED
        BY <2>2, <3>3, <3>4, <3>5 DEF ClientInductive
    <2> QED
      BY <2>3, <2>4
  <1>5. ASSUME NEW l \in loads, StateFails(l) PROVE ClientInductive'
    <2>1. /\ loads' = loads \ {l}
          /\ UNCHANGED <<userId, data, loadId, runtimeId, probes, panel, preview, posts,
                         written, acked>>
      BY <1>5 DEF StateFails, serverVars
    <2>2. AckedWritten'
      BY <2>1, PostsRest DEF serverVars
    <2>3. failed' \in BOOLEAN /\ loading' \in BOOLEAN
      BY <1>0, <1>5 DEF StateFails, ClientTypeOK
    <2>4. ClientTypeOK'
      BY <1>0, <2>1, <2>3 DEF ClientTypeOK
    <2>5. CASE IsLatest(l)
      <3>1. failed' = TRUE /\ loading' = FALSE
        BY <1>5, <2>5 DEF StateFails
      <3>2. Latest' = {}
        BY <1>0, <2>1, <2>5 DEF LatestSound, Latest, IsLatest
      <3>3. LatestSound'
        BY <1>0, <2>1, <3>2 DEF LatestSound
      <3>4. ShownIsCurrent'
        BY <3>1, <3>2 DEF ShownIsCurrent, Loaded, Latest, IsLatest
      <3> QED
        BY <2>2, <2>4, <3>3, <3>4 DEF ClientInductive
    <2>6. CASE ~IsLatest(l)
      <3>1. UNCHANGED <<failed, loading>>
        BY <1>5, <2>6 DEF StateFails
      <3>2. Latest' = Latest
        BY <2>1, <2>6 DEF Latest, IsLatest
      <3>3. LatestSound'
        BY <1>0, <2>1, <3>2 DEF LatestSound, Unread
      <3>4. ShownIsCurrent'
        BY <1>0, <2>1, <3>1, <3>2 DEF ShownIsCurrent, Loaded, Latest, IsLatest
      <3> QED
        BY <2>2, <2>4, <3>3, <3>4 DEF ClientInductive
    <2> QED
      BY <2>5, <2>6
  <1>6. ASSUME NEW p \in probes, ProbeAnswered(p) PROVE ClientInductive'
    <2>1. ClientTypeOK'
      BY <1>0, <1>6 DEF ClientTypeOK, ProbeAnswered, loadVars, serverVars
    <2> QED
      BY <1>6, <2>1, LoadsRest, PostsRest DEF ProbeAnswered, serverVars, ClientInductive
  <1>7. CASE PreviewCommand \/ SubmitCommand \/ PostAction
    <2>1. PICK kind \in {"preview", "command", "action"} : Send(kind)
      BY <1>7 DEF PreviewCommand, SubmitCommand, PostAction
    <2>2. /\ UNCHANGED <<userId, data, loadVars, runtimeId, probes, panel, written, acked>>
          /\ preview' \in {preview, "busy"}
      BY <1>7 DEF PreviewCommand, SubmitCommand, PostAction
    <2>3. posts' \subseteq Post /\ IsFiniteSet(posts') /\ AckedWritten'
      BY <2>1, <2>2, SendEffect
    <2>4. ClientTypeOK'
      BY <1>0, <2>2, <2>3 DEF ClientTypeOK, loadVars
    <2> QED
      BY <2>2, <2>3, <2>4, LoadsRest DEF ClientInductive
  <1>8. ASSUME NEW p \in posts, ServePost(p) PROVE ClientInductive'
    <2> DEFINE q == [p EXCEPT !.done = TRUE]
    <2>1. /\ posts' = (posts \ {p}) \cup {q} /\ p \in Post /\ ~p.done
          /\ written' = IF p.kind = "preview" THEN written ELSE written + 1
          /\ UNCHANGED <<userId, data, loadVars, runtimeId, probes, panel, preview, acked>>
      BY <1>0, <1>8 DEF ServePost, ClientTypeOK
    <2>2. q \in Post /\ q.kind = p.kind /\ q.done
      BY <2>1 DEF Post
    <2> HIDE DEF q
    <2>3. IsFiniteSet(posts') /\ posts' \subseteq Post
      BY <1>0, <2>1, <2>2, FS_AddElement, FS_RemoveElement DEF ClientTypeOK
    <2>4. written' \in Nat
      BY <1>0, <2>1 DEF ClientTypeOK
    <2>5. AckedWritten'
      <3>1. acked \in Nat /\ written \in Nat
            /\ acked + Cardinality(Carried) <= written /\ acked' = acked
        BY <1>0, <2>1 DEF AckedWritten, ClientTypeOK
      <3>2. CASE p.kind = "preview"
        <4>1. Carried' = Carried
          BY <2>1, <2>2, <3>2 DEF Carried
        <4> QED
          BY <2>1, <3>1, <3>2, <4>1 DEF AckedWritten
      <3>3. CASE p.kind # "preview"
        <4>1. Carried' = Carried \cup {q}
          BY <2>1, <2>2, <3>3 DEF Carried
        <4>2. Cardinality(Carried \cup {q}) \in {Cardinality(Carried), Cardinality(Carried) + 1}
          BY CarriedFinite, FS_AddElement
        <4> QED
          BY <2>1, <3>1, <3>3, <4>1, <4>2, CarriedFinite DEF AckedWritten
      <3> QED
        BY <3>2, <3>3
    <2>6. ClientTypeOK'
      BY <1>0, <2>1, <2>3, <2>4 DEF ClientTypeOK, loadVars
    <2> QED
      BY <2>1, <2>5, <2>6, LoadsRest DEF ClientInductive
  <1>9. ASSUME NEW p \in posts, PostAnswered(p) PROVE ClientInductive'
    <2>1. /\ p.done /\ posts' = posts \ {p} /\ p \in Post
          /\ preview' \in {preview, p.user} /\ p.user \in ConsoleUsers
          /\ UNCHANGED <<userId, data, runtimeId, probes, panel, written>>
      BY <1>0, <1>9 DEF PostAnswered, ClientTypeOK, Post
    <2>2. /\ acked \in Nat /\ written \in Nat /\ acked + Cardinality(Carried) <= written
      BY <1>0 DEF AckedWritten, ClientTypeOK
    <2>3. /\ posts' \subseteq Post /\ IsFiniteSet(posts')
          /\ Cardinality(Carried') \in Nat
          /\ Cardinality(Carried') <= Cardinality(Carried)
          /\ p \in Carried => Cardinality(Carried') = Cardinality(Carried) - 1
      BY <2>1, PostGone
    <2>4. CASE p.kind = "preview"
      <3>1. UNCHANGED <<loadVars, acked>>
        BY <1>9, <2>4 DEF PostAnswered
      <3>2. AckedWritten'
        BY <2>1, <2>2, <2>3, <3>1, CarriedFinite DEF AckedWritten
      <3>3. ClientTypeOK'
        BY <1>0, <2>1, <2>3, <3>1 DEF ClientTypeOK, loadVars
      <3> QED
        BY <2>1, <3>1, <3>2, <3>3, LoadsRest DEF ClientInductive
    <2>5. CASE p.kind # "preview"
      <3>1. LoadState(userId) /\ acked' = acked + 1
        BY <1>9, <2>5 DEF PostAnswered
      <3>2. loadId' \in Nat /\ loads' \subseteq Load /\ LatestSound' /\ ShownIsCurrent'
        BY <1>0, <2>1, <2>2, <3>1, LoadStarts DEF ClientTypeOK
      <3>3. p \in Carried
        BY <2>1, <2>5 DEF Carried
      <3>4. AckedWritten'
        BY <2>1, <2>2, <2>3, <3>1, <3>3, CarriedFinite DEF AckedWritten
      <3>5. ClientTypeOK'
        <4>1. loading' = TRUE /\ failed' = FALSE /\ acked' \in Nat
          BY <2>2, <3>1 DEF LoadState
        <4>2. preview' \in {"empty", "busy", "error"} \cup ConsoleUsers
          BY <1>0, <2>1 DEF ClientTypeOK
        <4> QED
          BY <1>0, <2>1, <2>3, <3>2, <4>1, <4>2 DEF ClientTypeOK
      <3> QED
        BY <3>2, <3>4, <3>5 DEF ClientInductive
    <2> QED
      BY <2>4, <2>5
  <1>10. ASSUME NEW p \in posts, PostFails(p) PROVE ClientInductive'
    <2>1. /\ posts' = posts \ {p} /\ preview' \in {preview, "error"}
          /\ UNCHANGED <<userId, data, loadVars, runtimeId, probes, panel, written, acked>>
      BY <1>10 DEF PostFails
    <2>2. /\ posts' \subseteq Post /\ IsFiniteSet(posts')
          /\ Cardinality(Carried') \in Nat
          /\ Cardinality(Carried') <= Cardinality(Carried)
      BY <2>1, PostGone
    <2>3. AckedWritten'
      BY <1>0, <2>1, <2>2, CarriedFinite DEF AckedWritten, ClientTypeOK
    <2>4. ClientTypeOK'
      BY <1>0, <2>1, <2>2 DEF ClientTypeOK, loadVars
    <2> QED
      BY <2>1, <2>3, <2>4, LoadsRest DEF ClientInductive
  <1>11. CASE UNCHANGED clientVars
    <2>1. ClientTypeOK'
      BY <1>0, <1>11 DEF ClientTypeOK, clientVars, loadVars, serverVars
    <2> QED
      BY <1>11, <2>1, LoadsRest, PostsRest DEF clientVars, serverVars, ClientInductive
  <1> QED
    BY <1>1, <1>2, <1>3, <1>4, <1>5, <1>6, <1>7, <1>8, <1>9, <1>10, <1>11 DEF ClientNext

(* The page of the operations console keeps its types: loads, posts and
   probes are numbered requests of its roles. *)
THEOREM ClientTypeCorrect == ClientSpec => []ClientTypeOK
  <1>1. ClientInductive => ClientTypeOK
    BY DEF ClientInductive
  <1> QED
    BY <1>1, InitClient, NextClient, PTL DEF ClientSpec

(* However answers overtake each other, the page of the console shows the
   role it acts as with every write it was told of once its last load was
   answered, and says that it loads exactly while that answer is out. *)
THEOREM ShownIsCurrentAlways == ClientSpec => []ShownIsCurrent
  <1>1. ClientInductive => ShownIsCurrent
    BY DEF ClientInductive
  <1> QED
    BY <1>1, InitClient, NextClient, PTL DEF ClientSpec

-----------------------------------------------------------------------------
(* The settings of the web portal *)

Fields == [Settings -> [value : Values \cup {Unset}, old : BOOLEAN]]

SettingsTypeOK ==
    /\ file \in [Settings -> Values \cup {Unset}]
    /\ process \in [Settings -> Values \cup {Unset}]
    /\ typed \in [Settings -> Values \cup {Unset}]
    /\ form \in [Pages -> Fields]
    /\ overtaken \subseteq Settings

\* A value is the one that was typed, but for what showing and rereading do.
Agrees(v, t) ==
    IF t = Unset THEN v = Unset
    ELSE /\ v # Unset
         /\ v.text = t.text /\ v.special = t.special
         /\ v.password = t.password \/ (t.password = "own" /\ v.password = "mask")
         /\ IF t.special THEN v.slashes >= t.slashes ELSE v.slashes = t.slashes

\* A form that is not older than what was typed has nothing else to save.
FormAgrees(field, k) ==
    field.old \/ field.value = Unset \/ (k \in Secrets /\ field.value = Mask)
              \/ Agrees(field.value, typed[k])

SettingsInductive ==
    /\ SettingsTypeOK
    /\ \A k \in Settings \ overtaken : Agrees(Effective(k), typed[k])
    /\ \A p \in Pages : \A k \in Settings \ overtaken : FormAgrees(form[p][k], k)

LEMMA RereadAgrees ==
    ASSUME NEW v \in Values \cup {Unset}, NEW t \in Values \cup {Unset}
    PROVE  /\ Reread(v) \in Values \cup {Unset}
           /\ Reread(v) = Unset <=> v = Unset
           /\ Agrees(v, t) => Agrees(Reread(v), t)
           /\ Agrees(t, t)
  <1>1. Unset \notin Values
    BY ConfigAssumption
  <1>2. CASE v # Unset /\ v.special /\ v.slashes > 0
    <2>1. v \in Values /\ Reread(v) = [v EXCEPT !.slashes = v.slashes + 1]
      BY <1>2 DEF Reread
    <2>2. PICK r : r = [v EXCEPT !.slashes = v.slashes + 1]
      OBVIOUS
    <2>3. /\ r \in Values /\ r.text = v.text /\ r.special = v.special /\ r.password = v.password
          /\ r.slashes = v.slashes + 1 /\ v.slashes \in Nat
      BY <2>1, <2>2 DEF Values
    <2>4. t # Unset => t.slashes \in Nat
      BY DEF Values
    <2>5. Reread(v) = r /\ v # Unset /\ r # Unset
      BY <1>1, <1>2, <2>1, <2>2, <2>3
    <2>6. ASSUME Agrees(v, t) PROVE Agrees(r, t)
      <3>1. /\ t # Unset /\ v.text = t.text /\ v.special = t.special
            /\ v.password = t.password \/ (t.password = "own" /\ v.password = "mask")
            /\ IF t.special THEN v.slashes >= t.slashes ELSE v.slashes = t.slashes
        BY <2>5, <2>6 DEF Agrees
      <3>2. t.special /\ r.slashes >= t.slashes
        BY <1>2, <2>3, <2>4, <3>1
      <3> QED
        BY <2>3, <2>5, <3>1, <3>2 DEF Agrees
    <2>7. Agrees(t, t)
      BY <2>4 DEF Agrees
    <2> QED
      BY <2>3, <2>5, <2>6, <2>7
  <1>3. CASE ~(v # Unset /\ v.special /\ v.slashes > 0)
    <2>1. Reread(v) = v
      BY <1>3 DEF Reread
    <2>2. t # Unset => t.slashes \in Nat
      BY DEF Values
    <2> QED
      BY <2>1, <2>2 DEF Agrees
  <1> QED
    BY <1>2, <1>3

\* What a setting is now, and what a field shows of it.
LEMMA ShownAgrees ==
    ASSUME NEW k \in Settings, file[k] \in Values \cup {Unset}, process[k] \in Values \cup {Unset},
           typed[k] \in Values \cup {Unset}
    PROVE  /\ Effective(k) \in Values \cup {Unset}
           /\ Displayed(k) \in Values \cup {Unset}
           /\ Agrees(Effective(k), typed[k]) =>
                 Displayed(k) = Unset \/ (k \in Secrets /\ Displayed(k) = Mask)
                   \/ Agrees(Displayed(k), typed[k])
  <1>1. Unset \notin Values
    BY ConfigAssumption
  <1>2. Effective(k) \in Values \cup {Unset}
    BY RereadAgrees DEF Effective, LoadedEnv
  <1>3. Mask \in Values
    BY ConfigAssumption DEF Mask, Values
  <1>4. CASE Effective(k) = Unset
    <2>1. Redacted(k) = Unset
      BY <1>4 DEF Redacted
    <2> QED
      BY <1>2, <2>1 DEF Displayed
  <1>5. CASE Effective(k) # Unset /\ k \in Secrets
    <2>1. PICK r : r = [Mask EXCEPT !.text = "********"]
      OBVIOUS
    <2>2. r \in Values
      BY <2>1, ConfigAssumption DEF Mask, Values
    <2>3. Redacted(k) = r
      BY <1>5, <2>1 DEF Redacted
    <2> QED
      BY <1>1, <1>2, <1>3, <1>5, <2>2, <2>3 DEF Displayed
  <1>6. CASE Effective(k) # Unset /\ k \notin Secrets
    <2>1. PICK v : v = Effective(k)
      OBVIOUS
    <2>2. v \in Values
      BY <1>2, <1>6, <2>1
    <2>3. PICK r : r = [v EXCEPT !.password = IF v.password = "own" THEN "mask" ELSE v.password]
      OBVIOUS
    <2>4. /\ r \in Values /\ r.text = v.text /\ r.special = v.special /\ r.slashes = v.slashes
          /\ r.password = IF v.password = "own" THEN "mask" ELSE v.password
      BY <2>2, <2>3 DEF Values
    <2>5. Displayed(k) = r
      BY <1>1, <1>6, <2>1, <2>3, <2>4 DEF Displayed, Redacted
    <2>6. Agrees(v, typed[k]) => Agrees(r, typed[k])
      BY <1>1, <2>2, <2>4 DEF Agrees
    <2> QED
      BY <1>2, <2>1, <2>4, <2>5, <2>6
  <1> QED
    BY <1>4, <1>5, <1>6

LEMMA InitSettings == ConfigInit => SettingsInductive
  <1> SUFFICES ASSUME ConfigInit PROVE SettingsInductive
    OBVIOUS
  <1>1. process \in [Settings -> Values \cup {Unset}]
    <2>1. PICK unset \in Settings \cup {Unset} :
             process = [k \in Settings |-> IF k = unset THEN Unset ELSE CHOOSE v \in Given[k] : TRUE]
      BY DEF ConfigInit
    <2>2. \A k \in Settings : (CHOOSE v \in Given[k] : TRUE) \in Values
      BY ConfigAssumption
    <2> QED
      BY <2>1, <2>2
  <1>2. file \in [Settings -> Values \cup {Unset}]
    BY <1>1 DEF ConfigInit
  <1>3. typed = [k \in Settings |-> Effective(k)]
    BY DEF ConfigInit
  <1>4. \A k \in Settings : Effective(k) \in Values \cup {Unset}
    BY <1>1, <1>2, RereadAgrees DEF Effective, LoadedEnv
  <1>5. typed \in [Settings -> Values \cup {Unset}]
    BY <1>3, <1>4
  <1>6. form = [p \in Pages |-> [k \in Settings |-> [value |-> Displayed(k), old |-> FALSE]]]
    BY DEF ConfigInit
  <1>7. \A k \in Settings : Displayed(k) \in Values \cup {Unset}
    BY <1>1, <1>2, <1>5, ShownAgrees
  <1>8. form \in [Pages -> Fields]
    BY <1>6, <1>7 DEF Fields
  <1>9. SettingsTypeOK
    BY <1>1, <1>2, <1>5, <1>8 DEF SettingsTypeOK, ConfigInit
  <1>10. \A k \in Settings : Agrees(Effective(k), typed[k])
    BY <1>3, <1>4, RereadAgrees
  <1>11. \A p \in Pages : \A k \in Settings : FormAgrees(form[p][k], k)
    <2> SUFFICES ASSUME NEW p \in Pages, NEW k \in Settings PROVE FormAgrees(form[p][k], k)
      OBVIOUS
    <2>1. form[p][k].value = Displayed(k)
      BY <1>6
    <2> QED
      BY <1>9, <1>10, <2>1, ShownAgrees DEF FormAgrees, SettingsTypeOK
  <1> QED
    BY <1>9, <1>10, <1>11 DEF SettingsInductive

\* What the file and the process say after both were written.
LEMMA PersistedAgrees ==
    ASSUME SettingsTypeOK', file' = process',
           NEW k \in Settings, Agrees(process'[k], typed'[k])
    PROVE  Agrees(Effective(k)', typed'[k])
  <1>1. process'[k] \in Values \cup {Unset} /\ typed'[k] \in Values \cup {Unset}
    BY DEF SettingsTypeOK
  <1>2. /\ Reread(process'[k]) = Unset <=> process'[k] = Unset
        /\ Agrees(process'[k], typed'[k]) => Agrees(Reread(process'[k]), typed'[k])
    BY <1>1, RereadAgrees
  <1>3. Effective(k)' = IF Reread(process'[k]) # Unset THEN Reread(process'[k]) ELSE process'[k]
    BY DEF Effective, LoadedEnv, Reread
  <1> QED
    BY <1>2, <1>3

LEMMA NextSettings == SettingsInductive /\ [ConfigNext]_configVars => SettingsInductive'
  <1> SUFFICES ASSUME SettingsInductive, [ConfigNext]_configVars PROVE SettingsInductive'
    OBVIOUS
  <1>0. /\ SettingsTypeOK
        /\ \A k \in Settings \ overtaken : Agrees(Effective(k), typed[k])
        /\ \A p \in Pages : \A k \in Settings \ overtaken : FormAgrees(form[p][k], k)
    BY DEF SettingsInductive
  <1>1. ASSUME NEW p \in Pages, OpenForm(p) PROVE SettingsInductive'
    <2>1. /\ form' = [form EXCEPT ![p] =
                [k \in Settings |-> [value |-> Displayed(k), old |-> FALSE]]]
          /\ UNCHANGED <<file, process, typed, overtaken>>
      BY <1>1 DEF OpenForm
    <2>2. \A k \in Settings : Effective(k)' = Effective(k)
      BY <2>1 DEF Effective, LoadedEnv
    <2>3. \A k \in Settings : Displayed(k) \in Values \cup {Unset}
      BY <1>0, ShownAgrees DEF SettingsTypeOK
    <2>4. form' \in [Pages -> Fields]
      BY <1>0, <2>1, <2>3 DEF SettingsTypeOK, Fields
    <2>5. SettingsTypeOK'
      BY <1>0, <2>1, <2>4 DEF SettingsTypeOK
    <2>6. \A q \in Pages : \A k \in Settings \ overtaken : FormAgrees(form[q][k], k)'
      <3> SUFFICES ASSUME NEW q \in Pages, NEW k \in Settings \ overtaken
                   PROVE  FormAgrees(form[q][k], k)'
        OBVIOUS
      <3>1. CASE q = p
        <4>1. form'[q][k].value = Displayed(k)
          BY <1>0, <2>1, <3>1 DEF SettingsTypeOK
        <4>2. Displayed(k) = Unset \/ (k \in Secrets /\ Displayed(k) = Mask)
                \/ Agrees(Displayed(k), typed[k])
          BY <1>0, ShownAgrees DEF SettingsTypeOK
        <4> QED
          BY <2>1, <4>1, <4>2 DEF FormAgrees
      <3>2. CASE q # p
        <4>1. form'[q][k] = form[q][k]
          BY <1>0, <2>1, <3>2 DEF SettingsTypeOK
        <4> QED
          BY <1>0, <2>1, <4>1 DEF FormAgrees
      <3> QED
        BY <3>1, <3>2
    <2> QED
      BY <1>0, <2>1, <2>2, <2>5, <2>6 DEF SettingsInductive
  <1>2. ASSUME NEW p \in Pages, SaveSection(p) PROVE SettingsInductive'
    <2>1. PICK edits : /\ SaveForm(p, edits) /\ DOMAIN edits \subseteq Settings
                       /\ \A k \in DOMAIN edits : edits[k] \in Given[k]
      <3>1. CASE SaveForm(p, [k \in {} |-> Unset])
        BY <3>1
      <3>2. ASSUME NEW k \in Settings, NEW v \in Given[k], SaveForm(p, [key \in {k} |-> v])
            PROVE  \E edits : /\ SaveForm(p, edits) /\ DOMAIN edits \subseteq Settings
                              /\ \A o \in DOMAIN edits : edits[o] \in Given[o]
        BY <3>2
      <3> QED
        BY <1>2, <3>1, <3>2 DEF SaveSection
    <2> DEFINE fields == [k \in Settings |->
                             IF k \in DOMAIN edits THEN edits[k] ELSE form[p][k].value]
    <2> DEFINE sent == Sent(fields)
    <2>2. /\ \A k \in Settings : fields[k] = IF k \in DOMAIN edits THEN edits[k]
                                             ELSE form[p][k].value
          /\ sent \subseteq Settings
          /\ \A k \in Settings : k \in sent <=>
                fields[k] # Unset /\ ~(k \in Secrets /\ fields[k] = Mask)
      BY DEF Sent
    <2>3. /\ Persist([k \in Settings |-> IF k \in sent THEN fields[k] ELSE LoadedEnv[k]])
          /\ form' = [q \in Pages |-> [k \in Settings |->
                IF k \in DOMAIN edits
                THEN [value |-> IF q = p THEN edits[k] ELSE form[q][k].value, old |-> q # p]
                ELSE form[q][k]]]
          /\ typed' = [k \in Settings |-> IF k \in DOMAIN edits THEN edits[k] ELSE typed[k]]
          /\ overtaken' = (overtaken \cup {k \in sent : form[p][k].old}) \ DOMAIN edits
      BY <2>1 DEF SaveForm
    <2> HIDE DEF fields, sent
    <2>4. /\ file' = process' /\ DOMAIN process' = Settings
          /\ process' = [k \in Settings |-> process'[k]]
          /\ \A k \in sent : process'[k] = fields[k]
          /\ \A k \in Settings \ sent : process'[k] = Effective(k)
      BY <2>2, <2>3 DEF Persist, Effective
    <2>5. \A k \in DOMAIN edits : edits[k] \in Values /\ edits[k] # Unset
                                    /\ ~(k \in Secrets /\ edits[k] = Mask)
      BY <2>1, ConfigAssumption
    <2>6. \A q \in Pages : \A k \in Settings : form[q][k] \in [value : Values \cup {Unset}, old : BOOLEAN]
      BY <1>0 DEF SettingsTypeOK, Fields
    <2>7. SettingsTypeOK'
      <3>1. \A k \in Settings : process'[k] \in Values \cup {Unset}
        BY <1>0, <2>2, <2>4, <2>5, <2>6, ShownAgrees DEF SettingsTypeOK
      <3>2. typed' \in [Settings -> Values \cup {Unset}]
        BY <1>0, <2>3, <2>5 DEF SettingsTypeOK
      <3>3. form' \in [Pages -> Fields]
        BY <2>3, <2>5, <2>6 DEF Fields
      <3>4. overtaken' \subseteq Settings
        BY <1>0, <2>2, <2>3 DEF SettingsTypeOK
      <3>5. process' \in [Settings -> Values \cup {Unset}]
        BY <2>4, <3>1
      <3> QED
        BY <2>4, <3>2, <3>3, <3>4, <3>5 DEF SettingsTypeOK
    <2>8. \A k \in Settings \ overtaken' : k \in DOMAIN edits \/ (k \notin overtaken /\ typed'[k] = typed[k])
      BY <2>3
    <2>9. ASSUME NEW k \in Settings \ overtaken' PROVE Agrees(Effective(k)', typed'[k])
      <3>1. Agrees(process'[k], typed'[k])
        <4>1. CASE k \in DOMAIN edits
          <5>1. typed'[k] = edits[k] /\ k \in sent /\ process'[k] = edits[k]
            BY <2>2, <2>3, <2>4, <2>5, <4>1
          <5> QED
            BY <2>5, <4>1, <5>1, RereadAgrees
        <4>2. CASE k \notin DOMAIN edits /\ k \in sent
          <5>1. k \notin overtaken /\ ~form[p][k].old /\ typed'[k] = typed[k]
            BY <2>3, <2>8, <4>2
          <5>2. fields[k] = form[p][k].value /\ process'[k] = fields[k]
            BY <2>2, <2>4, <4>2
          <5>3. fields[k] # Unset /\ ~(k \in Secrets /\ fields[k] = Mask)
            BY <2>2, <4>2
          <5>4. FormAgrees(form[p][k], k)
            BY <1>0, <5>1
          <5> QED
            BY <5>1, <5>2, <5>3, <5>4 DEF FormAgrees
        <4>3. CASE k \notin DOMAIN edits /\ k \notin sent
          BY <1>0, <2>4, <2>8, <4>3
        <4> QED
          BY <4>1, <4>2, <4>3
      <3> QED
        BY <2>4, <2>7, <3>1, PersistedAgrees
    <2>10. ASSUME NEW q \in Pages, NEW k \in Settings \ overtaken'
           PROVE  FormAgrees(form[q][k], k)'
      <3>1. CASE k \in DOMAIN edits /\ q = p
        <4>1. form'[q][k].value = edits[k] /\ typed'[k] = edits[k]
          BY <2>3, <3>1
        <4>2. Agrees(edits[k], edits[k])
          BY <2>5, <3>1, RereadAgrees
        <4> QED
          BY <4>1, <4>2 DEF FormAgrees
      <3>2. CASE k \in DOMAIN edits /\ q # p
        <4>1. form'[q][k].old
          BY <2>3, <3>2
        <4> QED
          BY <4>1 DEF FormAgrees
      <3>3. CASE k \notin DOMAIN edits
        <4>1. form'[q][k] = form[q][k] /\ typed'[k] = typed[k] /\ k \notin overtaken
          BY <2>3, <2>8, <3>3
        <4> QED
          BY <1>0, <4>1 DEF FormAgrees
      <3> QED
        BY <3>1, <3>2, <3>3
    <2> QED
      BY <2>7, <2>9, <2>10 DEF SettingsInductive
  <1>3. CASE ReloadConfig
    <2>1. Persist(LoadedEnv) /\ UNCHANGED <<form, typed, overtaken>>
      BY <1>3 DEF ReloadConfig
    <2>2. /\ file' = process' /\ process' = [k \in Settings |-> Effective(k)]
      BY <2>1 DEF Persist, Effective
    <2>3. \A k \in Settings : Effective(k) \in Values \cup {Unset}
      BY <1>0, ShownAgrees DEF SettingsTypeOK
    <2>4. SettingsTypeOK'
      BY <1>0, <2>1, <2>2, <2>3 DEF SettingsTypeOK
    <2>5. ASSUME NEW k \in Settings \ overtaken' PROVE Agrees(Effective(k)', typed'[k])
      <3>1. Agrees(process'[k], typed'[k])
        BY <1>0, <2>1, <2>2
      <3> QED
        BY <2>2, <2>4, <3>1, PersistedAgrees
    <2>6. \A p \in Pages : \A k \in Settings \ overtaken' : FormAgrees(form[p][k], k)'
      BY <1>0, <2>1 DEF FormAgrees
    <2> QED
      BY <2>4, <2>5, <2>6 DEF SettingsInductive
  <1>4. CASE UNCHANGED settingVars
    <2>1. UNCHANGED <<file, process, form, typed, overtaken>>
      BY <1>4 DEF settingVars
    <2>2. SettingsTypeOK'
      BY <1>0, <2>1 DEF SettingsTypeOK
    <2>3. \A k \in Settings : Effective(k)' = Effective(k)
      BY <2>1 DEF Effective, LoadedEnv
    <2>4. \A p \in Pages : \A k \in Settings \ overtaken' : FormAgrees(form[p][k], k)'
      BY <1>0, <2>1 DEF FormAgrees
    <2> QED
      BY <1>0, <2>1, <2>2, <2>3, <2>4 DEF SettingsInductive
  <1>5. ModelsNext => UNCHANGED settingVars
    BY DEF ModelsNext, AddModel, ShowModels, Reorder, AskMove, DeleteModel
  <1>6. UNCHANGED configVars => UNCHANGED settingVars
    BY DEF configVars
  <1> QED
    BY <1>1, <1>2, <1>3, <1>4, <1>5, <1>6 DEF ConfigNext, SettingsNext

(* A setting of the portal has the value typed last, as far as showing a
   password in a URL and rereading backslashes leave it, through forms that
   are saved by other pages and reloads. *)
THEOREM SettingsKeptAlways == ConfigSpec => []SettingsKept
  <1>1. SettingsInductive => SettingsKept
    <2> SUFFICES ASSUME SettingsInductive, NEW k \in Settings \ overtaken
                 PROVE  IF typed[k] = Unset THEN Effective(k) = Unset
                        ELSE /\ Effective(k).text = typed[k].text
                             /\ Effective(k).password \in {typed[k].password}
                                  \cup (IF typed[k].password = "own" THEN {"mask"} ELSE {})
                             /\ IF typed[k].special
                                THEN Effective(k).slashes >= typed[k].slashes
                                ELSE Effective(k).slashes = typed[k].slashes
      BY DEF SettingsKept
    <2>1. Agrees(Effective(k), typed[k])
      BY DEF SettingsInductive
    <2> QED
      BY <2>1 DEF Agrees
  <1> QED
    BY <1>1, InitSettings, NextSettings, PTL DEF ConfigSpec

-----------------------------------------------------------------------------
(* The language models of the web portal *)

\* What is left of a sequence at some of its places.
LEMMA FilteredHas ==
    ASSUME NEW S, NEW s \in Seq(S), NEW places \in SUBSET DOMAIN s
    PROVE  /\ Filtered(s, places) \in Seq(S)
           /\ Filtered(s, places) = <<>> <=> places = {}
           /\ ToSet(Filtered(s, places)) = {s[i] : i \in places}
  <1> DEFINE below(i) == {j \in places : j <= i}
             n == Cardinality(places)
             rank == [i \in places |-> Cardinality(below(i))]
             at(m) == CHOOSE i \in places : Cardinality(below(i)) = m
  <1>1. DOMAIN s = 1..Len(s) /\ Len(s) \in Nat /\ \A i \in DOMAIN s : s[i] \in S
    OBVIOUS
  <1>2. IsFiniteSet(places) /\ n \in Nat /\ places \subseteq Nat
    <2>1. IsFiniteSet(DOMAIN s) /\ DOMAIN s \subseteq Nat
      BY <1>1, FS_Interval
    <2>2. IsFiniteSet(places)
      BY <2>1, FS_Subset
    <2> QED
      BY <2>1, <2>2, FS_CardinalityType
  <1>3. ASSUME NEW i \in places
        PROVE  IsFiniteSet(below(i)) /\ Cardinality(below(i)) \in 1..n
    <2>1. IsFiniteSet(below(i)) /\ Cardinality(below(i)) <= n
      BY <1>2, FS_Subset
    <2>2. i \in below(i)
      BY <1>2
    <2>3. Cardinality(below(i)) \in Nat /\ Cardinality(below(i)) # 0
      BY <2>1, <2>2, FS_CardinalityType, FS_EmptySet
    <2> QED
      BY <1>2, <2>1, <2>3
  <1>4. ASSUME NEW i \in places, NEW j \in places, i < j
        PROVE  Cardinality(below(i)) # Cardinality(below(j))
    <2>1. below(i) \subseteq below(j) /\ j \in below(j) /\ j \notin below(i)
      BY <1>2, <1>4
    <2>2. below(i) \in SUBSET below(j) /\ below(i) # below(j) /\ IsFiniteSet(below(j))
      BY <1>3, <2>1
    <2> HIDE DEF below
    <2> QED
      BY <2>2, FS_Subset
  <1>5. rank \in Injection(places, 1..n)
    <2>1. rank \in [places -> 1..n]
      BY <1>3
    <2>2. ASSUME NEW i \in places, NEW j \in places, rank[i] = rank[j] PROVE i = j
      <3>1. Cardinality(below(i)) = Cardinality(below(j))
        BY <2>2
      <3>2. ~(i < j) /\ ~(j < i)
        BY <1>4, <3>1
      <3> QED
        BY <1>2, <3>2
    <2> HIDE DEF rank
    <2> QED
      BY <2>1, <2>2 DEF Injection, IsInjective
  <1>6. rank \in Surjection(places, 1..n)
    <2> HIDE DEF rank
    <2>1. IsFiniteSet(1..n) /\ Cardinality(1..n) = n
      BY <1>2, FS_Interval
    <2> QED
      BY <1>5, <2>1, FS_Injection
  <1>7. ASSUME NEW m \in 1..n PROVE at(m) \in places /\ Cardinality(below(at(m))) = m
    <2>1. \E i \in places : rank[i] = m
      BY <1>6 DEF Surjection
    <2>2. \E i \in places : Cardinality(below(i)) = m
      BY <2>1
    <2> QED
      BY <2>2
  <1>8. ASSUME NEW i \in places PROVE \E m \in 1..n : at(m) = i
    <2>1. Cardinality(below(i)) \in 1..n
      BY <1>3
    <2>2. /\ at(Cardinality(below(i))) \in places
          /\ Cardinality(below(at(Cardinality(below(i))))) = Cardinality(below(i))
      BY <1>7, <2>1
    <2>3. at(Cardinality(below(i))) = i
      <3> DEFINE j == at(Cardinality(below(i)))
      <3>1. j \in places /\ Cardinality(below(j)) = Cardinality(below(i))
        BY <2>2
      <3> HIDE DEF j
      <3>2. ~(i < j) /\ ~(j < i)
        BY <1>4, <3>1
      <3>3. j = i
        BY <1>2, <3>1, <3>2
      <3> QED
        BY <3>3 DEF j
    <2> QED
      BY <2>1, <2>3
  <1>9. Filtered(s, places) = [m \in 1..n |-> s[at(m)]]
    BY DEF Filtered
  <1> HIDE DEF at, n, below
  <1>10. Filtered(s, places) \in Seq(S)
    <2>1. \A m \in 1..n : s[at(m)] \in S
      BY <1>1, <1>7
    <2> QED
      BY <1>2, <1>9, <2>1
  <1>11. Filtered(s, places) = <<>> <=> places = {}
    <2>1. DOMAIN Filtered(s, places) = 1..n
      BY <1>9
    <2>2. Len(Filtered(s, places)) = n
      BY <1>2, <1>10, <2>1
    <2>3. n = 0 <=> places = {}
      BY <1>2, FS_EmptySet DEF n
    <2> QED
      BY <1>10, <2>2, <2>3
  <1>12. ToSet(Filtered(s, places)) = {s[i] : i \in places}
    BY <1>7, <1>8, <1>9 DEF ToSet
  <1> QED
    BY <1>10, <1>11, <1>12

ModelIds == [made : {"by place", "now"}, number : Nat]

ModelsTypeOK ==
    /\ list \in Seq(LanguageModels) \cup {Unset}
    /\ primary \in ModelNames /\ fallbacks \in Seq(ModelNames)
    /\ shown \in [Pages -> Seq(LanguageModels)]
    /\ order \in [Pages -> Seq(ModelIds)]
    /\ added \subseteq ModelIds /\ IsFiniteSet(added)
    /\ deleted \subseteq ModelIds /\ dropped \subseteq ModelIds

\* Models that were added are numbered from 0 on, and there are no others that
\* have an id made of the time; an order lacks only models that were added after
\* it was asked for.
ModelsInductive ==
    /\ ModelsTypeOK
    /\ \A id \in added : id.number < Cardinality(added)
    /\ \A id \in deleted \cup IdsOf(Models) : id.made = "now" => id \in added
    /\ \A p \in Pages : order[p] # <<>> => added \ deleted \subseteq ToSet(order[p]) \cup dropped
    /\ ModelsKept

LEMMA NamesTyped ==
    ASSUME NEW models \in Seq(LanguageModels)
    PROVE  Names(models) \in Seq(ModelNames)
  <1>1. DOMAIN models = 1..Len(models) /\ Len(models) \in Nat
    OBVIOUS
  <1>2. \A i \in 1..Len(models) : models[i].name \in ModelNames
    <2> SUFFICES ASSUME NEW i \in 1..Len(models) PROVE models[i].name \in ModelNames
      OBVIOUS
    <2>1. models[i] \in LanguageModels
      BY <1>1
    <2> QED
      BY <2>1 DEF LanguageModels
  <1>3. Names(models) = [i \in 1..Len(models) |-> models[i].name]
    BY <1>1 DEF Names
  <1> QED
    BY <1>1, <1>2, <1>3

\* The models of the older settings.
Older(first, rest) ==
    [i \in 1..(1 + Len(rest)) |-> [id |-> [made |-> "by place", number |-> i],
                                  name |-> IF i = 1 THEN first ELSE rest[i - 1]]]

LEMMA OlderModels ==
    ASSUME NEW first \in ModelNames, NEW rest \in Seq(ModelNames)
    PROVE  LET models == Older(first, rest)
           IN  /\ models \in Seq(LanguageModels) /\ models # <<>>
               /\ IdsOf(models) = {[made |-> "by place", number |-> i] : i \in 1..(1 + Len(rest))}
               /\ models[1].name = first /\ Names(Tail(models)) = rest
  <1> DEFINE name(i) == IF i = 1 THEN first ELSE rest[i - 1]
             id(i) == [made |-> "by place", number |-> i]
             model(i) == [id |-> id(i), name |-> name(i)]
             n == 1 + Len(rest)
             older == [i \in 1..n |-> model(i)]
  <1>1. Older(first, rest) = older
    BY DEF Older
  <1>2. /\ Len(rest) \in Nat /\ rest = [i \in 1..Len(rest) |-> rest[i]]
        /\ \A i \in 1..Len(rest) : rest[i] \in ModelNames
    OBVIOUS
  <1>3. ASSUME NEW i \in 1..n
        PROVE  name(i) \in ModelNames /\ id(i) \in [made : {"by place", "now"}, number : Nat]
    BY <1>2
  <1>4. name(1) = first /\ \A i \in 1..Len(rest) : name(i + 1) = rest[i]
    BY <1>2
  <1>5. n \in Nat /\ n = 1 + Len(rest) /\ 1 \in 1..n
    BY <1>2
  <1> HIDE DEF name, id, n
  <1>6. \A i \in 1..n : model(i) \in LanguageModels
    BY <1>3 DEF LanguageModels
  <1>7. \A i : model(i).id = id(i) /\ model(i).name = name(i)
    OBVIOUS
  <1> HIDE DEF model
  <1>8. /\ older \in Seq(LanguageModels) /\ Len(older) = n
        /\ \A i \in 1..n : older[i] = model(i)
    BY <1>5, <1>6
  <1>9. IdsOf(older) = {id(i) : i \in 1..n}
    <2>1. ToSet(older) = {model(i) : i \in 1..n}
      BY DEF ToSet
    <2> QED
      BY <1>7, <2>1 DEF IdsOf
  <1> HIDE DEF older
  <1>10. Names(Tail(older)) = rest
    <2>1. /\ Tail(older) \in Seq(LanguageModels) /\ Len(Tail(older)) = Len(rest)
          /\ \A i \in 1..Len(rest) : Tail(older)[i] = older[i + 1]
      BY <1>2, <1>5, <1>8
    <2>2. DOMAIN Tail(older) = 1..Len(rest)
      BY <2>1
    <2>3. \A i \in 1..Len(rest) : Tail(older)[i].name = rest[i]
      BY <1>2, <1>4, <1>5, <1>7, <1>8, <2>1
    <2>4. Names(Tail(older)) = [i \in 1..Len(rest) |-> rest[i]]
      BY <2>2, <2>3 DEF Names
    <2> QED
      BY <1>2, <2>4
  <1>11. older # <<>> /\ older[1].name = first
    BY <1>4, <1>5, <1>7, <1>8
  <1> QED
    BY <1>1, <1>8, <1>9, <1>10, <1>11 DEF n, id

LEMMA ModelsTyped ==
    ASSUME ModelsTypeOK PROVE Models \in Seq(LanguageModels) /\ Models # <<>>
  <1>1. CASE list = Unset \/ list = <<>>
    <2>1. Models = Older(primary, fallbacks)
      BY <1>1 DEF Models, Older
    <2>2. primary \in ModelNames /\ fallbacks \in Seq(ModelNames)
      BY DEF ModelsTypeOK
    <2> QED
      BY <2>1, <2>2, OlderModels
  <1>2. CASE list # Unset /\ list # <<>>
    BY <1>2 DEF ModelsTypeOK, Models
  <1> QED
    BY <1>1, <1>2

\* The models after a list was written.
LEMMA PersistedModels ==
    ASSUME ModelsTypeOK, NEW models \in Seq(LanguageModels), PersistModels(models)
    PROVE  /\ list' \in Seq(LanguageModels)
           /\ primary' \in ModelNames /\ fallbacks' \in Seq(ModelNames)
           /\ primary' = Models'[1].name /\ fallbacks' = Names(Tail(Models'))
           /\ IdsOf(Models') = IF models = <<>> THEN {[made |-> "by place", number |-> 1]}
                               ELSE IdsOf(models)
           /\ models # <<>> => Models' = models
  <1>1. /\ list' = models
        /\ primary' = IF models = <<>> THEN primary ELSE models[1].name
        /\ fallbacks' = IF models = <<>> THEN <<>> ELSE Names(Tail(models))
    BY DEF PersistModels
  <1>2. primary \in ModelNames
    BY DEF ModelsTypeOK
  <1>3. CASE models = <<>>
    <2>1. list' = <<>> /\ primary' = primary /\ fallbacks' = <<>>
      BY <1>1, <1>3
    <2>2. Models' = Older(primary', fallbacks')
      BY <2>1 DEF Models, Older
    <2>3. primary' \in ModelNames /\ fallbacks' \in Seq(ModelNames) /\ Len(fallbacks') = 0
      BY <1>2, <2>1
    <2>4. /\ IdsOf(Models') = {[made |-> "by place", number |-> i] : i \in 1..(1 + Len(fallbacks'))}
          /\ Models'[1].name = primary' /\ Names(Tail(Models')) = fallbacks'
      BY <2>2, <2>3, OlderModels
    <2>5. 1..(1 + Len(fallbacks')) = {1}
      BY <2>3
    <2>6. IdsOf(Models') = {[made |-> "by place", number |-> 1]}
      BY <2>4, <2>5
    <2> QED
      BY <1>1, <1>3, <2>3, <2>4, <2>6
  <1>4. CASE models # <<>>
    <2>1. models # Unset
      BY ConfigAssumption
    <2>2. Models' = models
      BY <1>1, <1>4, <2>1 DEF Models
    <2>3. models[1] \in LanguageModels /\ Tail(models) \in Seq(LanguageModels)
      BY <1>4
    <2>4. models[1].name \in ModelNames /\ Names(Tail(models)) \in Seq(ModelNames)
      BY <2>3, NamesTyped DEF LanguageModels
    <2> QED
      BY <1>1, <1>4, <2>2, <2>3, <2>4
  <1> QED
    BY <1>3, <1>4

LEMMA InitModels == ConfigInit => ModelsInductive
  <1> SUFFICES ASSUME ConfigInit PROVE ModelsInductive
    OBVIOUS
  <1>1. /\ list = Unset /\ primary \in ModelNames /\ fallbacks \in {<<>>, <<primary>>}
        /\ shown = [p \in Pages |-> Models] /\ order = [p \in Pages |-> <<>>]
        /\ added = {} /\ deleted = {} /\ dropped = {}
    BY DEF ConfigInit
  <1>2. fallbacks \in Seq(ModelNames)
    <2>1. <<>> \in Seq(ModelNames) /\ <<primary>> \in Seq(ModelNames)
      BY <1>1
    <2> QED
      BY <1>1, <2>1
  <1>3. Models = Older(primary, fallbacks)
    BY <1>1 DEF Models, Older
  <1>4. /\ Models \in Seq(LanguageModels)
        /\ IdsOf(Models) = {[made |-> "by place", number |-> i] : i \in 1..(1 + Len(fallbacks))}
        /\ Models[1].name = primary /\ Names(Tail(Models)) = fallbacks
    BY <1>1, <1>2, <1>3, OlderModels
  <1>5. ModelsTypeOK
    <2>1. shown \in [Pages -> Seq(LanguageModels)]
      BY <1>1, <1>4
    <2>2. <<>> \in Seq(ModelIds)
      OBVIOUS
    <2>3. order \in [Pages -> Seq(ModelIds)]
      BY <1>1, <2>2
    <2>4. IsFiniteSet(added)
      BY <1>1, FS_EmptySet
    <2> QED
      BY <1>1, <1>2, <2>1, <2>3, <2>4 DEF ModelsTypeOK
  <1>6. \A id \in IdsOf(Models) : id.made # "now"
    <2>1. \A i \in Nat : [made |-> "by place", number |-> i].made # "now"
      OBVIOUS
    <2>2. Len(fallbacks) \in Nat
      BY <1>2
    <2>3. \A i \in 1..(1 + Len(fallbacks)) : i \in Nat
      BY <2>2
    <2> QED
      BY <1>4, <2>1, <2>3
  <1>7. ModelsKept
    BY <1>1, <1>4 DEF ModelsKept
  <1> QED
    BY <1>1, <1>5, <1>6, <1>7 DEF ModelsInductive

LEMMA IdsTyped ==
    ASSUME NEW models \in Seq(LanguageModels) PROVE IdsOf(models) \subseteq ModelIds
  <1>1. \A m \in ToSet(models) : m \in LanguageModels
    BY DEF ToSet
  <1>2. \A m \in LanguageModels : m.id \in ModelIds
    BY DEF LanguageModels, ModelIds
  <1> QED
    BY <1>1, <1>2 DEF IdsOf

LEMMA AddStep ==
    ASSUME ModelsInductive, NEW name \in ModelNames, AddModel(name)
    PROVE  ModelsInductive'
  <1>0. /\ ModelsTypeOK /\ ModelsKept
        /\ \A id \in added : id.number < Cardinality(added)
        /\ \A id \in deleted \cup IdsOf(Models) : id.made = "now" => id \in added
        /\ \A p \in Pages : order[p] # <<>> =>
              added \ deleted \subseteq ToSet(order[p]) \cup dropped
    BY DEF ModelsInductive
  <1> DEFINE id == [made |-> "now", number |-> Cardinality(added)]
             model == [id |-> id, name |-> name]
  <1>1. /\ PersistModels(Append(Models, model)) /\ added' = added \cup {id}
        /\ dropped' = IF \E p \in Pages : order[p] # <<>> THEN dropped \cup {id} ELSE dropped
        /\ UNCHANGED <<shown, order, deleted>>
    BY DEF AddModel
  <1>2. Cardinality(added) \in Nat /\ IsFiniteSet(added)
    BY <1>0, FS_CardinalityType DEF ModelsTypeOK
  <1>3. id \in ModelIds /\ id.made = "now" /\ id.number = Cardinality(added)
    BY <1>2 DEF ModelIds
  <1>4. model \in LanguageModels /\ model.id = id
    BY <1>3 DEF LanguageModels, ModelIds
  <1> HIDE DEF id, model
  <1>5. id \notin added
    BY <1>0, <1>2, <1>3
  <1>6. Models \in Seq(LanguageModels) /\ Models # <<>>
    BY <1>0, ModelsTyped
  <1>7. /\ Append(Models, model) \in Seq(LanguageModels) /\ Append(Models, model) # <<>>
        /\ DOMAIN Append(Models, model) = DOMAIN Models \cup {Len(Models) + 1}
        /\ \A i \in DOMAIN Models : Append(Models, model)[i] = Models[i]
        /\ Append(Models, model)[Len(Models) + 1] = model
    BY <1>4, <1>6
  <1>8. IdsOf(Append(Models, model)) = IdsOf(Models) \cup {id}
    <2>1. ToSet(Append(Models, model)) = ToSet(Models) \cup {model}
      BY <1>7 DEF ToSet
    <2> QED
      BY <1>4, <2>1 DEF IdsOf
  <1>9. /\ list' \in Seq(LanguageModels)
        /\ primary' \in ModelNames /\ fallbacks' \in Seq(ModelNames)
        /\ primary' = Models'[1].name /\ fallbacks' = Names(Tail(Models'))
        /\ IdsOf(Models') = IdsOf(Models) \cup {id}
    BY <1>0, <1>1, <1>7, <1>8, PersistedModels
  <1>10. IsFiniteSet(added') /\ Cardinality(added') = Cardinality(added) + 1
    BY <1>1, <1>2, <1>5, FS_AddElement
  <1>11. ModelsTypeOK'
    BY <1>0, <1>1, <1>3, <1>9, <1>10 DEF ModelsTypeOK
  <1>12. \A a \in added' : a.number < Cardinality(added')
    <2>1. \A a \in added : a.number \in Nat
      BY <1>0 DEF ModelsTypeOK, ModelIds
    <2>2. \A a \in added : a.number < Cardinality(added')
      BY <1>0, <1>2, <1>10, <2>1
    <2>3. id.number < Cardinality(added')
      BY <1>2, <1>3, <1>10
    <2> QED
      BY <1>1, <2>2, <2>3
  <1>13. \A a \in deleted' \cup IdsOf(Models') : a.made = "now" => a \in added'
    BY <1>0, <1>1, <1>9
  <1>14. \A p \in Pages : order'[p] # <<>> =>
            added' \ deleted' \subseteq ToSet(order'[p]) \cup dropped'
    BY <1>0, <1>1
  <1>15. ModelsKept'
    <2>1. id \notin deleted
      BY <1>0, <1>3, <1>5
    <2>2. added' \ deleted' \subseteq IdsOf(Models') \cup dropped'
      BY <1>0, <1>1, <1>9 DEF ModelsKept
    <2>3. deleted' \cap IdsOf(Models') \subseteq {[made |-> "by place", number |-> 1]}
      BY <1>0, <1>1, <1>9, <2>1 DEF ModelsKept
    <2> QED
      BY <1>9, <2>2, <2>3 DEF ModelsKept
  <1> QED
    BY <1>11, <1>12, <1>13, <1>14, <1>15 DEF ModelsInductive

LEMMA ShowStep ==
    ASSUME ModelsInductive, NEW p \in Pages, ShowModels(p) PROVE ModelsInductive'
  <1>1. /\ shown' = [shown EXCEPT ![p] = Models]
        /\ UNCHANGED <<list, primary, fallbacks, order, added, deleted, dropped>>
    BY DEF ShowModels
  <1>2. ModelsTypeOK /\ Models \in Seq(LanguageModels)
    BY ModelsTyped DEF ModelsInductive
  <1>3. Models' = Models
    BY <1>1 DEF Models
  <1>4. ModelsTypeOK'
    BY <1>1, <1>2 DEF ModelsTypeOK
  <1>5. ModelsKept'
    BY <1>1, <1>3 DEF ModelsInductive, ModelsKept
  <1> QED
    BY <1>1, <1>3, <1>4, <1>5 DEF ModelsInductive

\* What is asked for to move a model has every model in it.
LEMMA AskStep ==
    ASSUME ModelsInductive, NEW p \in Pages, NEW i \in 1..Len(Models), AskMove(p, i)
    PROVE  ModelsInductive'
  <1> DEFINE at(j) == IF j = i THEN i + 1 ELSE IF j = i + 1 THEN i ELSE j
             moved == [j \in DOMAIN Models |-> Models[at(j)].id]
  <1>1. /\ i < Len(Models)
        /\ order' = [order EXCEPT ![p] = moved]
        /\ UNCHANGED <<list, primary, fallbacks, shown, added, deleted, dropped>>
    BY DEF AskMove, Listed
  <1>2. ModelsTypeOK /\ Models \in Seq(LanguageModels)
    BY ModelsTyped DEF ModelsInductive
  <1>3. Models' = Models
    BY <1>1 DEF Models
  <1>4. DOMAIN Models = 1..Len(Models) /\ Len(Models) \in Nat
    BY <1>2
  <1>5. \A j \in DOMAIN Models : at(j) \in DOMAIN Models /\ at(at(j)) = j
    <2> SUFFICES ASSUME NEW j \in 1..Len(Models)
                 PROVE  at(j) \in 1..Len(Models) /\ at(at(j)) = j
      BY <1>4
    <2>1. i \in Nat /\ i + 1 # i /\ i + 1 \in 1..Len(Models)
      BY <1>1, <1>4
    <2> QED
      BY <2>1
  <1> HIDE DEF at
  <1>6. \A j \in DOMAIN Models : Models[j].id \in ModelIds
    <2>1. \A j \in DOMAIN Models : Models[j] \in LanguageModels
      BY <1>2
    <2>2. \A m \in LanguageModels : m.id \in ModelIds
      BY DEF LanguageModels, ModelIds
    <2> QED
      BY <2>1, <2>2
  <1>7. moved \in Seq(ModelIds)
    <2>1. moved \in [1..Len(Models) -> ModelIds]
      BY <1>4, <1>5, <1>6
    <2> HIDE DEF moved
    <2> QED
      BY <1>4, <2>1
  <1>8. ToSet(moved) = IdsOf(Models)
    <2>1. ToSet(moved) = {Models[at(j)].id : j \in DOMAIN Models}
      BY DEF ToSet
    <2>2. IdsOf(Models) = {Models[j].id : j \in DOMAIN Models}
      BY DEF IdsOf, ToSet
    <2> QED
      BY <1>5, <2>1, <2>2
  <1> HIDE DEF moved
  <1>9. ModelsTypeOK'
    BY <1>1, <1>2, <1>7 DEF ModelsTypeOK
  <1>10. ModelsKept'
    BY <1>1, <1>3 DEF ModelsInductive, ModelsKept
  <1>11. \A q \in Pages : order'[q] # <<>> =>
            added' \ deleted' \subseteq ToSet(order'[q]) \cup dropped'
    <2> SUFFICES ASSUME NEW q \in Pages, order'[q] # <<>>
                 PROVE  added \ deleted \subseteq ToSet(order'[q]) \cup dropped
      BY <1>1
    <2>1. CASE q = p
      <3>1. order'[q] = moved
        BY <1>1, <1>2, <2>1 DEF ModelsTypeOK
      <3> QED
        BY <1>8, <3>1 DEF ModelsInductive, ModelsKept
    <2>2. CASE q # p
      <3>1. order'[q] = order[q]
        BY <1>1, <1>2, <2>2 DEF ModelsTypeOK
      <3> QED
        BY <3>1 DEF ModelsInductive
    <2> QED
      BY <2>1, <2>2
  <1> QED
    BY <1>1, <1>3, <1>9, <1>10, <1>11 DEF ModelsInductive

\* A move leaves the models it knows of, and what it does not know of was added
\* after it was asked for.
LEMMA ReorderStep ==
    ASSUME ModelsInductive, NEW p \in Pages, Reorder(p) PROVE ModelsInductive'
  <1>0. /\ ModelsTypeOK /\ ModelsKept
        /\ \A id \in deleted \cup IdsOf(Models) : id.made = "now" => id \in added
        /\ \A q \in Pages : order[q] # <<>> =>
              added \ deleted \subseteq ToSet(order[q]) \cup dropped
    BY DEF ModelsInductive
  <1> DEFINE models == Reordered(order[p])
  <1>1. /\ order[p] # <<>>
        /\ IF models = <<>> THEN UNCHANGED <<list, primary, fallbacks>> ELSE PersistModels(models)
        /\ order' = [order EXCEPT ![p] = <<>>]
        /\ shown' = IF models = <<>> THEN shown ELSE [shown EXCEPT ![p] = list']
        /\ UNCHANGED <<added, deleted, dropped>>
    BY DEF Reorder
  <1>2. /\ order[p] \in Seq(ModelIds) /\ Models \in Seq(LanguageModels)
        /\ \A m \in ToSet(Models) : m \in LanguageModels
    <2>1. Models \in Seq(LanguageModels)
      BY <1>0, ModelsTyped
    <2> QED
      BY <1>0, <2>1 DEF ModelsTypeOK, ToSet
  <1>3. models \in Seq(LanguageModels) /\ IdsOf(models) = ToSet(order[p]) \cap IdsOf(Models)
    <2> DEFINE ids == order[p]
               places == {i \in DOMAIN ids : ids[i] \in IdsOf(Models)}
               found == Filtered(ids, places)
               named(id) == CHOOSE m \in ToSet(Models) : m.id = id
    <2>1. models = [i \in DOMAIN found |-> named(found[i])]
      BY DEF Reordered
    <2>2. found \in Seq(ModelIds) /\ ToSet(found) = {ids[i] : i \in places}
      BY <1>2, FilteredHas
    <2>3. ToSet(found) = ToSet(ids) \cap IdsOf(Models)
      BY <2>2 DEF ToSet
    <2>4. ASSUME NEW id \in IdsOf(Models)
          PROVE  named(id) \in LanguageModels /\ named(id).id = id
      <3>1. \E m \in ToSet(Models) : m.id = id
        BY DEF IdsOf
      <3> QED
        BY <1>2, <3>1
    <2> HIDE DEF found, named
    <2>5. DOMAIN found = 1..Len(found) /\ Len(found) \in Nat
      BY <2>2
    <2>6. \A i \in DOMAIN found : found[i] \in IdsOf(Models)
      BY <2>3 DEF ToSet
    <2>7. models \in Seq(LanguageModels)
      <3>1. models \in [1..Len(found) -> LanguageModels]
        BY <2>1, <2>4, <2>5, <2>6
      <3> HIDE DEF models
      <3> QED
        BY <2>5, <3>1
    <2>8. DOMAIN models = DOMAIN found /\ \A i \in DOMAIN found : models[i].id = found[i]
      BY <2>1, <2>4, <2>6
    <2> HIDE DEF models
    <2>9. IdsOf(models) = ToSet(found)
      BY <2>8 DEF IdsOf, ToSet
    <2> QED
      BY <2>3, <2>7, <2>9
  <1> HIDE DEF models
  <1>4. CASE models = <<>>
    <2>1. UNCHANGED <<list, primary, fallbacks, shown, added, deleted, dropped>>
      BY <1>1, <1>4
    <2>2. Models' = Models
      BY <2>1 DEF Models
    <2>3. <<>> \in Seq(ModelIds)
      OBVIOUS
    <2>4. ModelsTypeOK'
      BY <1>0, <1>1, <2>1, <2>3 DEF ModelsTypeOK
    <2>5. ModelsKept'
      BY <1>0, <2>1, <2>2 DEF ModelsKept
    <2>6. \A q \in Pages : order'[q] = <<>> \/ order'[q] = order[q]
      BY <1>0, <1>1 DEF ModelsTypeOK
    <2> QED
      BY <2>1, <2>2, <2>4, <2>5, <2>6 DEF ModelsInductive
  <1>5. CASE models # <<>>
    <2>1. /\ PersistModels(models) /\ shown' = [shown EXCEPT ![p] = list']
          /\ UNCHANGED <<added, deleted, dropped>>
      BY <1>1, <1>5
    <2>2. /\ list' \in Seq(LanguageModels)
          /\ primary' \in ModelNames /\ fallbacks' \in Seq(ModelNames)
          /\ primary' = Models'[1].name /\ fallbacks' = Names(Tail(Models'))
          /\ IdsOf(Models') = ToSet(order[p]) \cap IdsOf(Models)
      BY <1>0, <1>3, <1>5, <2>1, PersistedModels
    <2>3. <<>> \in Seq(ModelIds)
      OBVIOUS
    <2>4. ModelsTypeOK'
      BY <1>0, <1>1, <2>1, <2>2, <2>3 DEF ModelsTypeOK
    <2>5. added' \ deleted' \subseteq IdsOf(Models') \cup dropped'
      BY <1>0, <1>1, <2>1, <2>2 DEF ModelsKept
    <2>6. deleted' \cap IdsOf(Models') \subseteq {[made |-> "by place", number |-> 1]}
      BY <1>0, <2>1, <2>2 DEF ModelsKept
    <2>7. ModelsKept'
      BY <2>2, <2>5, <2>6 DEF ModelsKept
    <2>8. \A q \in Pages : order'[q] = <<>> \/ order'[q] = order[q]
      BY <1>0, <1>1 DEF ModelsTypeOK
    <2>9. \A id \in deleted' \cup IdsOf(Models') : id.made = "now" => id \in added'
      BY <1>0, <2>1, <2>2
    <2>10. \A id \in added' : id.number < Cardinality(added')
      BY <2>1 DEF ModelsInductive
    <2>11. \A q \in Pages : order'[q] # <<>> =>
              added' \ deleted' \subseteq ToSet(order'[q]) \cup dropped'
      BY <1>0, <2>1, <2>8
    <2> QED
      BY <2>4, <2>7, <2>9, <2>10, <2>11 DEF ModelsInductive
  <1> QED
    BY <1>4, <1>5

\* A deletion takes out one id, and when it was the last the older settings
\* make theirs.
LEMMA DeleteStep ==
    ASSUME ModelsInductive, NEW p \in Pages, NEW i \in 1..Len(shown[p]), DeleteModel(p, i)
    PROVE  ModelsInductive'
  <1>0. /\ ModelsTypeOK /\ ModelsKept
        /\ \A id \in added : id.number < Cardinality(added)
        /\ \A id \in deleted \cup IdsOf(Models) : id.made = "now" => id \in added
        /\ \A q \in Pages : order[q] # <<>> =>
              added \ deleted \subseteq ToSet(order[q]) \cup dropped
    BY DEF ModelsInductive
  <1> DEFINE gone == shown[p][i].id
             places == {j \in DOMAIN Models : Models[j].id # gone}
             models == Filtered(Models, places)
  <1>1. /\ gone \in IdsOf(Models) /\ PersistModels(models) /\ deleted' = deleted \cup {gone}
        /\ UNCHANGED <<shown, order, added, dropped>>
    BY DEF DeleteModel
  <1>2. Models \in Seq(LanguageModels) /\ IdsOf(Models) \subseteq ModelIds
    BY <1>0, ModelsTyped, IdsTyped
  <1>3. /\ models \in Seq(LanguageModels) /\ (models = <<>> <=> places = {})
        /\ ToSet(models) = {Models[j] : j \in places}
    <2> HIDE DEF gone
    <2> QED
      BY <1>2, FilteredHas
  <1> HIDE DEF gone, models
  <1>4. IdsOf(models) = IdsOf(Models) \ {gone}
    <2>1. IdsOf(models) = {Models[j].id : j \in places}
      BY <1>3 DEF IdsOf
    <2> QED
      BY <2>1 DEF IdsOf, ToSet
  <1>5. /\ list' \in Seq(LanguageModels)
        /\ primary' \in ModelNames /\ fallbacks' \in Seq(ModelNames)
        /\ primary' = Models'[1].name /\ fallbacks' = Names(Tail(Models'))
        /\ IdsOf(Models') = IF models = <<>> THEN {[made |-> "by place", number |-> 1]}
                            ELSE IdsOf(models)
    <2>1. ModelsTypeOK /\ models \in Seq(LanguageModels) /\ PersistModels(models)
      BY <1>0, <1>1, <1>3
    <2> HIDE DEF places
    <2> QED
      BY <2>1, PersistedModels
  <1>6. models = <<>> => IdsOf(Models) = {gone}
    BY <1>1, <1>3, <1>4 DEF IdsOf, ToSet
  <1>7. ModelsTypeOK'
    BY <1>0, <1>1, <1>2, <1>5 DEF ModelsTypeOK
  <1>8. added' \ deleted' \subseteq IdsOf(Models') \cup dropped'
    BY <1>0, <1>1, <1>4, <1>5, <1>6 DEF ModelsKept
  <1>9. deleted' \cap IdsOf(Models') \subseteq {[made |-> "by place", number |-> 1]}
    BY <1>0, <1>1, <1>4, <1>5 DEF ModelsKept
  <1>10. ModelsKept'
    BY <1>5, <1>8, <1>9 DEF ModelsKept
  <1>11. [made |-> "by place", number |-> 1].made # "now"
    OBVIOUS
  <1>12. \A id \in deleted' \cup IdsOf(Models') : id.made = "now" => id \in added'
    BY <1>0, <1>1, <1>4, <1>5, <1>11
  <1>13. \A q \in Pages : order'[q] # <<>> =>
            added' \ deleted' \subseteq ToSet(order'[q]) \cup dropped'
    BY <1>0, <1>1
  <1>14. \A id \in added' : id.number < Cardinality(added')
    BY <1>0, <1>1
  <1> QED
    BY <1>7, <1>10, <1>12, <1>13, <1>14 DEF ModelsInductive

LEMMA NextModels == ModelsInductive /\ [ConfigNext]_configVars => ModelsInductive'
  <1> SUFFICES ASSUME ModelsInductive, [ConfigNext]_configVars PROVE ModelsInductive'
    OBVIOUS
  <1>1. ASSUME UNCHANGED modelVars PROVE ModelsInductive'
    <2>1. UNCHANGED <<list, primary, fallbacks, shown, order, added, deleted, dropped>>
      BY <1>1 DEF modelVars
    <2>2. Models' = Models
      BY <2>1 DEF Models
    <2>3. ModelsTypeOK' /\ ModelsKept'
      BY <2>1, <2>2 DEF ModelsInductive, ModelsTypeOK, ModelsKept
    <2> QED
      BY <2>1, <2>2, <2>3 DEF ModelsInductive
  <1>2. UNCHANGED configVars => UNCHANGED modelVars
    BY DEF configVars
  <1>3. SettingsNext => UNCHANGED modelVars
    BY DEF SettingsNext, ReloadConfig, OpenForm, SaveSection, SaveForm
  <1>4. ModelsNext => ModelsInductive'
    BY AddStep, ShowStep, ReorderStep, AskStep, DeleteStep DEF ModelsNext
  <1> QED
    BY <1>1, <1>2, <1>3, <1>4 DEF ConfigNext

(* No model that was added is lost but to a move that did not know of it, none
   that was deleted comes back but the one the older settings make anew, and
   the older settings say what the list says. *)
THEOREM ModelsKeptAlways == ConfigSpec => []ModelsKept
  <1>1. ModelsInductive => ModelsKept
    BY DEF ModelsInductive
  <1> QED
    BY <1>1, InitModels, NextModels, PTL DEF ConfigSpec

(* The settings and the models of the portal are kept through every order in
   which pages are opened, saved, moved and deleted from. *)
THEOREM ConfigKeptAlways == ConfigSpec => []ConfigKept
  <1>1. SettingsKept /\ ModelsKept => ConfigKept
    BY DEF ConfigKept
  <1> QED
    BY <1>1, SettingsKeptAlways, ModelsKeptAlways, PTL

-----------------------------------------------------------------------------
(* What requests leave in the operations console: the links *)

PieceIds == EvidenceIds \cup Ids(FirstEvidence)

TypedPieces ==
    FirstEvidence \cup [id : EvidenceIds, type : EvidenceTypes, task : GraphTasks \cup {Null},
                        opportunity : {Opportunity, "other", Null}]

LinksTypeOK ==
    /\ evidence \in Seq(TypedPieces)
    /\ taskEvidence \in [GraphTasks -> SUBSET PieceIds]
    /\ gap \in [Gaps -> [status : {"collecting", "waived"}, closedBy : SUBSET PieceIds]]
    /\ checkEvidence \in [Gates -> SUBSET PieceIds]
    /\ replies \subseteq [gap : Gaps, decision : {"rebut", "evidence_submitted"},
                          id : EvidenceIds \cup {Null}]
    /\ intent \in [Intents -> [decision : {"auto_execute", "reject"},
                               by : {Null, "user", "not a string"}]]

\* What was submitted as a reply belongs to the gap's task.
RepliesLinked ==
    \A r \in replies : r.id # Null =>
        \E e \in ToSet(evidence) : e.id = r.id /\ e.task = GapTask[r.gap]

\* What a request finds of the links, and leaves.
LinksInductive == LinksTypeOK /\ RepliesLinked /\ LinksAgree

\* A finite set in a sequence.
LEMMA SetListed ==
    ASSUME NEW S, IsFiniteSet(S)
    PROVE  /\ SetToSeq(S) \in Seq(S) /\ ToSet(SetToSeq(S)) = S
           /\ IsInjective(SetToSeq(S))
  <1> DEFINE n == Cardinality(S)
             s == SetToSeq(S)
  <1>1. n \in Nat /\ ExistsBijection(1..n, S)
    BY FS_CardinalityType
  <1>2. PICK f \in Bijection(1..n, S) : TRUE
    BY <1>1 DEF ExistsBijection
  <1>3. f \in [1..n -> S] /\ IsInjective(f)
    BY <1>2 DEF Bijection, Injection
  <1>4. s \in [1..n -> S] /\ IsInjective(s)
    BY <1>3 DEF SetToSeq
  <1> HIDE DEF s, n
  <1>5. s \in Injection(1..n, S)
    BY <1>4 DEF Injection
  <1>6. s \in Surjection(1..n, S)
    <2>1. Cardinality(1..n) = n /\ IsFiniteSet(1..n)
      BY <1>1, FS_Interval
    <2> QED
      BY <1>5, <2>1, FS_Injection DEF n
  <1>7. s \in Seq(S)
    BY <1>1, <1>4
  <1>8. ToSet(s) = S
    BY <1>4, <1>6 DEF Surjection, ToSet
  <1> QED
    BY <1>4, <1>7, <1>8 DEF s

\* What the fixture links.
LEMMA InitLinks == ConsoleInit => LinksInductive
  <1> SUFFICES ASSUME ConsoleInit PROVE LinksInductive
    OBVIOUS
  <1>1. evidence \in Seq(FirstEvidence) /\ ToSet(evidence) = FirstEvidence
    BY ConsoleAssumption, SetListed DEF ConsoleInit
  <1>2. /\ taskEvidence = [t \in GraphTasks |-> Ids({e \in FirstEvidence : e.task = t})]
        /\ gap = [g \in Gaps |-> [status |-> "collecting", closedBy |-> {}]]
        /\ checkEvidence = [g \in Gates |-> Ids({e \in FirstEvidence : e.type \in Expects[g]})]
        /\ replies = {}
        /\ intent = [i \in Intents |-> [decision |-> "auto_execute", by |-> Null]]
    BY DEF ConsoleInit
  <1>3. \A P \in SUBSET FirstEvidence : Ids(P) \subseteq PieceIds
    BY DEF Ids, PieceIds
  <1>4. LinksTypeOK
    <2>1. evidence \in Seq(TypedPieces)
      BY <1>1 DEF TypedPieces
    <2>2. taskEvidence \in [GraphTasks -> SUBSET PieceIds]
      BY <1>2, <1>3
    <2>3. checkEvidence \in [Gates -> SUBSET PieceIds]
      BY <1>2, <1>3
    <2>4. gap \in [Gaps -> [status : {"collecting", "waived"}, closedBy : SUBSET PieceIds]]
      BY <1>2
    <2> QED
      BY <1>2, <2>1, <2>2, <2>3, <2>4 DEF LinksTypeOK
  <1>5. RepliesLinked
    BY <1>2 DEF RepliesLinked
  <1>6. LinksAgree
    <2>1. \A t \in GraphTasks : taskEvidence[t] = Ids({e \in ToSet(evidence) : e.task = t})
      BY <1>1, <1>2
    <2>2. ASSUME NEW g \in Gaps
          PROVE  gap[g].closedBy =
                   Ids({e \in ToSet(evidence) :
                          /\ e.task = GapTask[g]
                          /\ \/ e.type \in Expects[g]
                             \/ \E r \in replies : r.gap = g /\ r.id = e.id})
      <3>1. gap[g].closedBy = {}
        BY <1>2
      <3>2. {e \in ToSet(evidence) :
                /\ e.task = GapTask[g]
                /\ \/ e.type \in Expects[g]
                   \/ \E r \in replies : r.gap = g /\ r.id = e.id} = {}
        BY <1>1, <1>2, ConsoleAssumption
      <3>3. Ids({}) = {}
        BY DEF Ids
      <3> QED
        BY <3>1, <3>2, <3>3
    <2>3. ASSUME NEW g \in Gates PROVE checkEvidence[g] = AuditEvidence(g)
      <3>1. checkEvidence[g] = Ids({e \in FirstEvidence : e.type \in Expects[g]})
        BY <1>2
      <3>2. {e \in FirstEvidence : e.type \in Expects[g]} =
               {e \in ToSet(evidence) : e.opportunity = Opportunity /\ e.type \in Expects[g]}
        BY <1>1, ConsoleAssumption
      <3> QED
        BY <3>1, <3>2 DEF AuditEvidence
    <2> QED
      BY <2>1, <2>2, <2>3 DEF LinksAgree
  <1> QED
    BY <1>4, <1>5, <1>6 DEF LinksInductive

\* The evidence a gap has by LinksAgree.
GapHas(g, piece) ==
    /\ piece.task = GapTask[g]
    /\ \/ piece.type \in Expects[g]
       \/ \E r \in replies : r.gap = g /\ r.id = piece.id

\* A piece of evidence that was linked, alone or as the reply to a gap.
LEMMA LinkStep ==
    ASSUME LinksInductive,
           NEW type \in EvidenceTypes, NEW task \in GraphTasks \cup {Null},
           NEW opportunity \in {Opportunity, "other", Null}, NEW id \in EvidenceIds,
           NEW answered \in Gaps \cup {Null},
           Link([id |-> id, type |-> type, task |-> task, opportunity |-> opportunity], answered),
           \/ answered = Null /\ replies' = replies
           \/ /\ answered # Null /\ task = GapTask[answered]
              /\ replies' = replies \cup
                    {[gap |-> answered, decision |-> "evidence_submitted", id |-> id]},
           UNCHANGED intent
    PROVE  LinksInductive'
  <1> DEFINE piece == [id |-> id, type |-> type, task |-> task, opportunity |-> opportunity]
             reply == [gap |-> answered, decision |-> "evidence_submitted", id |-> id]
  <1>0. LinksTypeOK /\ RepliesLinked /\ LinksAgree
    BY DEF LinksInductive
  <1>1. /\ evidence' = Append(evidence, piece)
        /\ taskEvidence' = [t \in GraphTasks |->
              IF piece.task = t THEN taskEvidence[t] \cup {piece.id} ELSE taskEvidence[t]]
        /\ gap' = [g \in Gaps |->
              IF g = answered \/ (piece.task = GapTask[g] /\ piece.type \in Expects[g])
              THEN [gap[g] EXCEPT !.closedBy = gap[g].closedBy \cup {piece.id}]
              ELSE gap[g]]
        /\ checkEvidence' = [g \in Gates |->
              IF Supports(piece, g) THEN checkEvidence[g] \cup {piece.id} ELSE checkEvidence[g]]
    BY DEF Link
  <1>2. /\ piece \in TypedPieces /\ piece.id = id /\ piece.type = type /\ piece.task = task
        /\ piece.opportunity = opportunity
    BY DEF TypedPieces
  <1>3. answered # Null => reply.gap = answered /\ reply.id = id
    OBVIOUS
  <1>4. reply \in [gap : Gaps, decision : {"rebut", "evidence_submitted"},
                   id : EvidenceIds \cup {Null}] \/ answered = Null
    OBVIOUS
  <1>5. id \in PieceIds /\ id # Null
    BY ConsoleAssumption DEF PieceIds
  <1> HIDE DEF piece, reply
  <1>6. \/ answered = Null /\ replies' = replies
        \/ answered \in Gaps /\ task = GapTask[answered] /\ replies' = replies \cup {reply}
    BY DEF reply
  <1>7. evidence' \in Seq(TypedPieces) /\ ToSet(evidence') = ToSet(evidence) \cup {piece}
    <2>1. evidence \in Seq(TypedPieces)
      BY <1>0 DEF LinksTypeOK
    <2>2. /\ Append(evidence, piece) \in Seq(TypedPieces)
          /\ DOMAIN Append(evidence, piece) = DOMAIN evidence \cup {Len(evidence) + 1}
          /\ \A i \in DOMAIN evidence : Append(evidence, piece)[i] = evidence[i]
          /\ Append(evidence, piece)[Len(evidence) + 1] = piece
      BY <1>2, <2>1
    <2> QED
      BY <1>1, <2>2 DEF ToSet
  <1>8. \A P : Ids(P \cup {piece}) = Ids(P) \cup {id}
    BY <1>2 DEF Ids
  <1>9. LinksTypeOK'
    <2>1. taskEvidence' \in [GraphTasks -> SUBSET PieceIds]
      BY <1>0, <1>1, <1>2, <1>5 DEF LinksTypeOK
    <2>2. checkEvidence' \in [Gates -> SUBSET PieceIds]
      BY <1>0, <1>1, <1>2, <1>5 DEF LinksTypeOK
    <2>3. gap' \in [Gaps -> [status : {"collecting", "waived"}, closedBy : SUBSET PieceIds]]
      <3>1. ASSUME NEW g \in Gaps
            PROVE  [gap[g] EXCEPT !.closedBy = gap[g].closedBy \cup {piece.id}]
                      \in [status : {"collecting", "waived"}, closedBy : SUBSET PieceIds]
        <4>1. /\ gap[g] \in [status : {"collecting", "waived"}, closedBy : SUBSET PieceIds]
              /\ piece.id \in PieceIds
          BY <1>0, <1>2, <1>5 DEF LinksTypeOK
        <4>2. gap[g].closedBy \cup {piece.id} \in SUBSET PieceIds
          BY <4>1
        <4> QED
          BY <4>1, <4>2
      <3>2. gap \in [Gaps -> [status : {"collecting", "waived"}, closedBy : SUBSET PieceIds]]
        BY <1>0 DEF LinksTypeOK
      <3> QED
        BY <1>1, <3>1, <3>2
    <2>4. replies' \subseteq [gap : Gaps, decision : {"rebut", "evidence_submitted"},
                              id : EvidenceIds \cup {Null}]
      <3>1. replies \subseteq [gap : Gaps, decision : {"rebut", "evidence_submitted"},
                               id : EvidenceIds \cup {Null}]
        BY <1>0 DEF LinksTypeOK
      <3>2. answered \in Gaps => answered # Null
        BY ConsoleAssumption
      <3> QED
        BY <1>4, <1>6, <3>1, <3>2
    <2> QED
      BY <1>0, <1>7, <2>1, <2>2, <2>3, <2>4 DEF LinksTypeOK
  <1>10. RepliesLinked'
    BY <1>0, <1>2, <1>3, <1>6, <1>7, ConsoleAssumption DEF RepliesLinked
  <1>11. ASSUME NEW t \in GraphTasks
         PROVE  taskEvidence'[t] = Ids({e \in ToSet(evidence') : e.task = t})
    <2>1. taskEvidence[t] = Ids({e \in ToSet(evidence) : e.task = t})
      BY <1>0 DEF LinksAgree
    <2>2. CASE task = t
      <3>1. {e \in ToSet(evidence') : e.task = t} = {e \in ToSet(evidence) : e.task = t} \cup {piece}
        BY <1>2, <1>7, <2>2
      <3> QED
        BY <1>1, <1>2, <1>8, <2>1, <2>2, <3>1
    <2>3. CASE task # t
      <3>1. {e \in ToSet(evidence') : e.task = t} = {e \in ToSet(evidence) : e.task = t}
        BY <1>2, <1>7, <2>3
      <3> QED
        BY <1>1, <1>2, <2>1, <2>3, <3>1
    <2> QED
      BY <2>2, <2>3
  <1>12. ASSUME NEW g \in Gaps
         PROVE  gap'[g].closedBy = Ids({e \in ToSet(evidence') : GapHas(g, e)'})
    <2> DEFINE prior == {e \in ToSet(evidence) : GapHas(g, e)}
               after  == {e \in ToSet(evidence') : GapHas(g, e)'}
    <2>1. gap[g].closedBy = Ids(prior)
      BY <1>0 DEF LinksAgree, GapHas
    <2>2. prior \subseteq after
      BY <1>6, <1>7 DEF GapHas
    <2>3. \A e \in after \ prior : e.id = id
      BY <1>2, <1>3, <1>6, <1>7 DEF GapHas
    <2>4. GapHas(g, piece)' => g = answered \/ (task = GapTask[g] /\ type \in Expects[g])
                                 \/ id \in Ids(prior)
      <3> SUFFICES ASSUME NEW r \in replies, r.gap = g, r.id = id, g # answered,
                          task = GapTask[g]
                   PROVE  id \in Ids(prior)
        BY <1>2, <1>3, <1>6 DEF GapHas
      <3>1. PICK e \in ToSet(evidence) : e.id = r.id /\ e.task = GapTask[r.gap]
        BY <1>0, <1>5 DEF RepliesLinked
      <3>2. e \in prior
        BY <3>1 DEF GapHas
      <3> QED
        BY <3>1, <3>2 DEF Ids
    <2>5. g = answered \/ (task = GapTask[g] /\ type \in Expects[g]) => piece \in after
      BY <1>2, <1>3, <1>6, <1>7, ConsoleAssumption DEF GapHas
    <2>6. CASE g = answered \/ (task = GapTask[g] /\ type \in Expects[g])
      <3>1. gap'[g].closedBy = gap[g].closedBy \cup {id}
        BY <1>0, <1>1, <1>2, <2>6 DEF LinksTypeOK
      <3>2. Ids(after) = Ids(prior) \cup {id}
        BY <1>2, <2>2, <2>3, <2>5, <2>6 DEF Ids
      <3> QED
        BY <2>1, <3>1, <3>2
    <2>7. CASE ~(g = answered \/ (task = GapTask[g] /\ type \in Expects[g]))
      <3>1. gap'[g] = gap[g]
        BY <1>1, <1>2, <2>7
      <3>2. after \ prior \subseteq {piece}
        BY <1>3, <1>6, <1>7, <2>7 DEF GapHas
      <3>3. piece \in after => id \in Ids(prior)
        BY <2>4, <2>7
      <3>4. Ids(after) = Ids(prior)
        BY <2>2, <2>3, <3>2, <3>3 DEF Ids
      <3> QED
        BY <2>1, <3>1, <3>4
    <2> QED
      BY <2>6, <2>7
  <1>13. ASSUME NEW g \in Gates PROVE checkEvidence'[g] = AuditEvidence(g)'
    <2> DEFINE held(s) == {e \in ToSet(s) : e.opportunity = Opportunity /\ e.type \in Expects[g]}
    <2>1. checkEvidence[g] = Ids(held(evidence)) /\ AuditEvidence(g)' = Ids(held(evidence'))
      BY <1>0 DEF LinksAgree, AuditEvidence
    <2>2. CASE Supports(piece, g)
      <3>1. held(evidence') = held(evidence) \cup {piece}
        BY <1>7, <2>2 DEF Supports
      <3> HIDE DEF held
      <3> QED
        BY <1>1, <1>2, <1>8, <2>1, <2>2, <3>1
    <2>3. CASE ~Supports(piece, g)
      <3>1. held(evidence') = held(evidence)
        BY <1>7, <2>3 DEF Supports
      <3> HIDE DEF held
      <3> QED
        BY <1>1, <2>1, <2>3, <3>1
    <2> QED
      BY <2>2, <2>3
  <1>14. LinksAgree'
    BY <1>11, <1>12, <1>13 DEF LinksAgree, GapHas
  <1> QED
    BY <1>9, <1>10, <1>14 DEF LinksInductive

\* Evidence has an id.
LEMMA PiecesNamed == ASSUME LinksTypeOK PROVE \A e \in ToSet(evidence) : e.id # Null
  <1> SUFFICES ASSUME NEW i \in DOMAIN evidence PROVE evidence[i].id # Null
    BY DEF ToSet
  <1>1. evidence \in Seq(TypedPieces)
    BY DEF LinksTypeOK
  <1>2. evidence[i] \in TypedPieces
    BY <1>1
  <1> QED
    BY <1>2, ConsoleAssumption DEF TypedPieces

\* A rebuttal closes a gap and links nothing.
LEMMA RebutStep ==
    ASSUME LinksInductive, NEW g \in Gaps,
           gap' = [gap EXCEPT ![g].status = "waived"],
           replies' = replies \cup {[gap |-> g, decision |-> "rebut", id |-> Null]},
           UNCHANGED <<evidence, taskEvidence, checkEvidence, intent>>
    PROVE  LinksInductive'
  <1> DEFINE reply == [gap |-> g, decision |-> "rebut", id |-> Null]
  <1>0. LinksTypeOK /\ RepliesLinked /\ LinksAgree
    BY DEF LinksInductive
  <1>1. /\ reply \in [gap : Gaps, decision : {"rebut", "evidence_submitted"},
                      id : EvidenceIds \cup {Null}]
        /\ reply.id = Null /\ replies' = replies \cup {reply}
    OBVIOUS
  <1> HIDE DEF reply
  <1> DEFINE StateOfGap == [status : {"collecting", "waived"}, closedBy : SUBSET PieceIds]
             waived == [gap[g] EXCEPT !.status = "waived"]
  <1>a. gap \in [Gaps -> StateOfGap] /\ gap[g] \in StateOfGap
    BY <1>0 DEF LinksTypeOK
  <1>b. waived \in StateOfGap /\ waived.closedBy = gap[g].closedBy
    BY <1>a
  <1>c. gap' = [gap EXCEPT ![g] = waived]
    OBVIOUS
  <1> HIDE DEF StateOfGap, waived
  <1>2. gap' \in [Gaps -> StateOfGap]
    BY <1>a, <1>b, <1>c
  <1>3. \A h \in Gaps : gap'[h].closedBy = gap[h].closedBy
    BY <1>a, <1>b, <1>c
  <1>4. LinksTypeOK'
    BY <1>0, <1>1, <1>2 DEF LinksTypeOK, StateOfGap
  <1>5. RepliesLinked'
    BY <1>0, <1>1 DEF RepliesLinked
  <1>6. \A e \in ToSet(evidence) : e.id # Null
    BY <1>0, PiecesNamed
  <1>7. ASSUME NEW h \in Gaps PROVE gap'[h].closedBy = Ids({e \in ToSet(evidence) : GapHas(h, e)'})
    <2>1. gap[h].closedBy = Ids({e \in ToSet(evidence) : GapHas(h, e)})
      BY <1>0 DEF LinksAgree, GapHas
    <2>2. {e \in ToSet(evidence) : GapHas(h, e)'} = {e \in ToSet(evidence) : GapHas(h, e)}
      BY <1>1, <1>6 DEF GapHas
    <2> QED
      BY <1>3, <2>1, <2>2
  <1>8. LinksAgree'
    BY <1>0, <1>7 DEF LinksAgree, GapHas, AuditEvidence
  <1> QED
    BY <1>4, <1>5, <1>8 DEF LinksInductive

\* Every request keeps the links.
LEMMA NextLinks == LinksInductive /\ [ConsoleNext]_consoleVars => LinksInductive'
  <1> SUFFICES ASSUME LinksInductive, [ConsoleNext]_consoleVars PROVE LinksInductive'
    OBVIOUS
  <1>0. \A input \in EvidenceInputs : TakenEvidence(input) =>
          /\ input.type \in EvidenceTypes /\ input.task \in GraphTasks \cup {Null}
          /\ input.opportunity \in {Opportunity, "other", Null}
    BY DEF EvidenceInputs, TakenEvidence
  <1>1. ASSUME SubmitEvidence PROVE LinksInductive'
    <2>1. PICK input \in {i \in EvidenceInputs : TakenEvidence(i)}, id \in EvidenceIds :
             Link(EvidenceOf(input, id), Null)
      BY <1>1 DEF SubmitEvidence
    <2>2. UNCHANGED <<replies, intent>>
      BY <1>1 DEF SubmitEvidence
    <2> DEFINE about == IF input.task # Null THEN Opportunity ELSE input.opportunity
    <2>3. about \in {Opportunity, "other", Null}
      BY <1>0
    <2>4. Link([id |-> id, type |-> input.type, task |-> input.task, opportunity |-> about], Null)
      BY <2>1 DEF EvidenceOf
    <2> HIDE DEF about
    <2> QED
      BY <1>0, <2>2, <2>3, <2>4, LinkStep
  <1>2. ASSUME NEW g \in Gaps, ReplyToGap(g) PROVE LinksInductive'
    <2>1. CASE /\ gap' = [gap EXCEPT ![g].status = "waived"]
               /\ replies' = replies \cup {[gap |-> g, decision |-> "rebut", id |-> Null]}
               /\ UNCHANGED <<evidence, taskEvidence, checkEvidence>>
      BY <1>2, <2>1, RebutStep DEF ReplyToGap
    <2>2. CASE \E input \in {i \in EvidenceInputs : i.task = GapTask[g] /\ TakenEvidence(i)},
                  id \in EvidenceIds :
                  /\ Link(EvidenceOf(input, id), g)
                  /\ replies' = replies \cup
                        {[gap |-> g, decision |-> "evidence_submitted", id |-> id]}
      <3>1. PICK input \in {i \in EvidenceInputs : i.task = GapTask[g] /\ TakenEvidence(i)},
                 id \in EvidenceIds :
                  /\ Link(EvidenceOf(input, id), g)
                  /\ replies' = replies \cup
                        {[gap |-> g, decision |-> "evidence_submitted", id |-> id]}
        BY <2>2
      <3>2. UNCHANGED intent
        BY <1>2 DEF ReplyToGap
      <3> DEFINE about == IF input.task # Null THEN Opportunity ELSE input.opportunity
      <3>3. about \in {Opportunity, "other", Null}
        BY <1>0
      <3>4. Link([id |-> id, type |-> input.type, task |-> input.task, opportunity |-> about], g)
        BY <3>1 DEF EvidenceOf
      <3>5. g # Null
        BY ConsoleAssumption
      <3> HIDE DEF about
      <3> QED
        BY <1>0, <3>1, <3>2, <3>3, <3>4, <3>5, LinkStep
    <2> QED
      BY <1>2, <2>1, <2>2 DEF ReplyToGap
  <1>3. ASSUME UNCHANGED linkVars,
               intent' \in [Intents -> [decision : {"auto_execute", "reject"},
                                        by : {Null, "user", "not a string"}]]
        PROVE  LinksInductive'
    <2>1. UNCHANGED <<evidence, taskEvidence, gap, checkEvidence, replies>>
      BY <1>3 DEF linkVars
    <2>2. LinksTypeOK'
      BY <1>3, <2>1 DEF LinksInductive, LinksTypeOK
    <2>3. RepliesLinked'
      BY <2>1 DEF LinksInductive, RepliesLinked
    <2>4. LinksAgree'
      BY <2>1 DEF LinksInductive, LinksAgree, AuditEvidence
    <2> QED
      BY <2>2, <2>3, <2>4 DEF LinksInductive
  <1>4. ASSUME NEW i \in Intents, DecideWriteback(i) PROVE LinksInductive'
    <2>1. PICK by \in {"user", "not a string"}, decision \in {intent[i].decision, "reject"} :
             intent' = [intent EXCEPT ![i] = [decision |-> decision, by |-> by]]
      BY <1>4 DEF DecideWriteback
    <2>2. intent \in [Intents -> [decision : {"auto_execute", "reject"},
                                  by : {Null, "user", "not a string"}]]
      BY DEF LinksInductive, LinksTypeOK
    <2>3. intent[i].decision \in {"auto_execute", "reject"}
      BY <2>2
    <2>4. [decision |-> decision, by |-> by] \in [decision : {"auto_execute", "reject"},
                                                  by : {Null, "user", "not a string"}]
      BY <2>3
    <2>5. intent' \in [Intents -> [decision : {"auto_execute", "reject"},
                                   by : {Null, "user", "not a string"}]]
      BY <2>1, <2>2, <2>4
    <2> QED
      BY <1>3, <1>4, <2>5 DEF DecideWriteback
  <1>5. CreateManagementCommand => LinksInductive'
    BY <1>3 DEF CreateManagementCommand, LinksInductive, LinksTypeOK
  <1>6. UNCHANGED consoleVars => LinksInductive'
    BY <1>3 DEF consoleVars, LinksInductive, LinksTypeOK
  <1> QED
    BY <1>1, <1>2, <1>4, <1>5, <1>6 DEF ConsoleNext

-----------------------------------------------------------------------------
(* The commands and their tasks, and the contracts *)

\* What slugs are made of, and the two suffixes.
Paths == Seq(STRING \cup {"specialist", "executor"})

LiveTask(command, path, project, status, kind) ==
    [id |-> LiveId(path), command |-> LiveId(command), project |-> project, status |-> status,
     latest |-> [of |-> LiveId(path), kind |-> kind]]

\* The tasks of a command of a project.
TasksOf(path, project) ==
    {LiveTask(path, path, project, "delegated", "decomposition"),
     LiveTask(path, Append(path, "specialist"), project, "in_progress", "progress"),
     LiveTask(path, Append(path, "executor"), project, "needs_info", "handoff")}

Generated(path) ==
    {LiveId(path), LiveId(Append(path, "specialist")), LiveId(Append(path, "executor"))}

\* No command's title is another's generated id.
NoClash == \A c, d \in DOMAIN commands : ~Clash(c, d)

\* A command's id and tasks come from its title.
CommandsNamed ==
    \A id \in DOMAIN commands : \E path \in Paths :
        id = LiveId(path) /\ commands[id].generated = Generated(path)

\* A task is one that a command that is kept makes for its project.
TasksFit ==
    \A id \in DOMAIN tasks :
        /\ tasks[id].id = id /\ tasks[id].latest \in DOMAIN updates
        /\ \E path \in Paths :
              /\ LiveId(path) \in DOMAIN commands
              /\ tasks[id] \in TasksOf(path, commands[LiveId(path)].project)

\* A task has one update, its last.
UpdatesFit ==
    \A u \in DOMAIN updates :
        updates[u] = u.of /\ u.of \in DOMAIN tasks /\ tasks[u.of].latest = u

\* What is listed exists, always, and fits, unless titles clash.
CommandsInductive ==
    /\ CommandsNamed
    /\ \A id \in DOMAIN commands : commands[id].generated \subseteq DOMAIN tasks
    /\ \A p \in Projects : listed[p] \subseteq DOMAIN commands
    /\ \A s \in Statuses : lanes[s] \subseteq DOMAIN tasks
    /\ NoClash => TasksFit /\ UpdatesFit

\* A path is not its extension, and the two extensions differ.
LEMMA PathsApart ==
    ASSUME NEW p \in Paths, NEW q \in Paths,
           NEW x \in {"specialist", "executor"}, NEW y \in {"specialist", "executor"}
    PROVE  /\ Append(p, x) \in Paths /\ Append(p, x) # p
           /\ Append(p, x) = Append(q, y) => p = q /\ x = y
  <1> DEFINE S == STRING \cup {"specialist", "executor"}
  <1>1. p \in Seq(S) /\ q \in Seq(S) /\ x \in S /\ y \in S
    BY DEF Paths
  <1> HIDE DEF S
  <1>2. /\ Append(p, x) \in Seq(S) /\ Len(Append(p, x)) = Len(p) + 1 /\ Len(p) \in Nat
        /\ Append(p, x)[Len(p) + 1] = x
        /\ \A i \in 1..Len(p) : Append(p, x)[i] = p[i]
    BY <1>1
  <1>3. /\ Append(q, y) \in Seq(S) /\ Len(Append(q, y)) = Len(q) + 1 /\ Len(q) \in Nat
        /\ Append(q, y)[Len(q) + 1] = y
        /\ \A i \in 1..Len(q) : Append(q, y)[i] = q[i]
    BY <1>1
  <1>4. ASSUME Append(p, x) = Append(q, y) PROVE p = q /\ x = y
    <2>1. Len(p) = Len(q) /\ x = y
      BY <1>2, <1>3, <1>4
    <2>2. \A i \in 1..Len(p) : p[i] = q[i]
      BY <1>2, <1>3, <1>4, <2>1
    <2>3. p = q
      BY <1>1, <2>1, <2>2
    <2> QED
      BY <2>1, <2>3
  <1> QED
    BY <1>2, <1>4 DEF S, Paths

\* Live ids differ as their paths do.
LEMMA LiveIds ==
    \A p, q : (LiveId(p) = LiveId(q) => p = q) /\ LiveId(p).path = p
  BY DEF LiveId

\* The tasks of a command, field by field.
LEMMA TaskFields ==
    ASSUME NEW command, NEW path, NEW project, NEW status, NEW kind
    PROVE  LET t == LiveTask(command, path, project, status, kind)
           IN  /\ t.id = LiveId(path) /\ t.command = LiveId(command) /\ t.project = project
               /\ t.status = status
               /\ t.latest.of = LiveId(path) /\ t.latest.kind = kind
               /\ t.latest = [of |-> LiveId(path), kind |-> kind]
  BY DEF LiveTask

\* A record with one value for each field.
LEMMA OneRecord ==
    ASSUME NEW a, NEW b, NEW c, NEW d, NEW e,
           NEW t \in [id : {a}, command : {b}, project : {c}, status : {d}, latest : {e}]
    PROVE  t = [id |-> a, command |-> b, project |-> c, status |-> d, latest |-> e]
  OBVIOUS

\* The preview of a task.
PreviewTask(command, path, project, status, kind) ==
    [id |-> PreviewId(path), command |-> PreviewId(command), project |-> project,
     status |-> status, latest |-> [of |-> PreviewId(path), kind |-> kind]]

\* What a preview of a task becomes.
LEMMA RewrittenTask ==
    ASSUME NEW command, NEW path, NEW project, NEW status, NEW kind
    PROVE  /\ RewriteTask(PreviewTask(command, path, project, status, kind))
                 = LiveTask(command, path, project, status, kind)
           /\ LiveUpdateId(PreviewTask(command, path, project, status, kind))
                 = [of |-> LiveId(path), kind |-> kind]
           /\ PreviewTask(command, path, project, status, kind).id.path = path
  <1> DEFINE task   == PreviewTask(command, path, project, status, kind)
             prior == [of |-> PreviewId(path), kind |-> kind]
             after  == [of |-> LiveId(path), kind |-> kind]
             me     == PreviewId(path)
             top    == PreviewId(command)
             me2    == LiveId(path)
             top2   == LiveId(command)
  <1>1. /\ task.id.path = path /\ task.command.path = command
        /\ task.latest.of.path = path /\ task.latest.kind = kind
    BY DEF PreviewId, PreviewTask
  <1>2. task \in [id : {me}, command : {top}, project : {project}, status : {status},
                  latest : {prior}]
    BY DEF PreviewTask
  <1>3. RewriteTask(task) = [task EXCEPT !.id = me2, !.command = top2, !.latest = after]
    BY <1>1 DEF RewriteTask
  <1>4. LiveUpdateId(task) = after
    BY <1>1 DEF LiveUpdateId
  <1> HIDE DEF task, prior, after, me, top, me2, top2
  <1>5. RewriteTask(task) \in [id : {me2}, command : {top2}, project : {project},
                               status : {status}, latest : {after}]
    BY <1>2, <1>3
  <1>6. RewriteTask(task) = [id |-> me2, command |-> top2, project |-> project,
                             status |-> status, latest |-> after]
    BY <1>5, OneRecord
  <1>7. RewriteTask(task) = LiveTask(command, path, project, status, kind)
    BY <1>6 DEF LiveTask, me2, top2, after
  <1> QED
    BY <1>1, <1>4, <1>7 DEF task, after

UpdatesOf(path) ==
    {[of |-> LiveId(path), kind |-> "decomposition"],
     [of |-> LiveId(Append(path, "specialist")), kind |-> "progress"],
     [of |-> LiveId(Append(path, "executor")), kind |-> "handoff"]}

\* What a request makes.
LEMMA MadeTasks ==
    ASSUME NEW input
    PROVE  LET path == Slug[input.title]
           IN  /\ LiveTasks(input) = TasksOf(path, input.project)
               /\ {LiveId(task.id.path) : task \in LiveTasks(input)} = Generated(path)
               /\ {LiveUpdateId(task) : task \in LiveTasks(input)} = UpdatesOf(path)
  <1> DEFINE path == Slug[input.title]
             p1 == PreviewTask(path, path, input.project, "delegated", "decomposition")
             p2 == PreviewTask(path, Append(path, "specialist"), input.project,
                               "in_progress", "progress")
             p3 == PreviewTask(path, Append(path, "executor"), input.project,
                               "needs_info", "handoff")
             t1 == LiveTask(path, path, input.project, "delegated", "decomposition")
             t2 == LiveTask(path, Append(path, "specialist"), input.project,
                            "in_progress", "progress")
             t3 == LiveTask(path, Append(path, "executor"), input.project,
                            "needs_info", "handoff")
  <1>1. PreviewTasks(input) = {p1, p2, p3}
    BY DEF PreviewTasks, PreviewTask
  <1>2. RewriteTask(p1) = t1 /\ RewriteTask(p2) = t2 /\ RewriteTask(p3) = t3
    BY RewrittenTask
  <1>3. TasksOf(path, input.project) = {t1, t2, t3}
    BY DEF TasksOf
  <1>4. /\ t1.id.path = path /\ t2.id.path = Append(path, "specialist")
        /\ t3.id.path = Append(path, "executor")
    <2>1. /\ t1.id = LiveId(path) /\ t2.id = LiveId(Append(path, "specialist"))
          /\ t3.id = LiveId(Append(path, "executor"))
      BY DEF LiveTask
    <2> HIDE DEF t1, t2, t3
    <2> QED
      BY <2>1, LiveIds
  <1>5. /\ LiveUpdateId(t1) = [of |-> LiveId(path), kind |-> "decomposition"]
        /\ LiveUpdateId(t2) = [of |-> LiveId(Append(path, "specialist")), kind |-> "progress"]
        /\ LiveUpdateId(t3) = [of |-> LiveId(Append(path, "executor")), kind |-> "handoff"]
    BY TaskFields, LiveIds DEF LiveUpdateId
  <1> HIDE DEF p1, p2, p3, t1, t2, t3
  <1>6. LiveTasks(input) = {t1, t2, t3}
    BY <1>1, <1>2 DEF LiveTasks
  <1>7. {LiveId(task.id.path) : task \in LiveTasks(input)} = Generated(path)
    BY <1>4, <1>6 DEF Generated
  <1>8. {LiveUpdateId(task) : task \in LiveTasks(input)} = UpdatesOf(path)
    BY <1>5, <1>6 DEF UpdatesOf
  <1> QED
    BY <1>3, <1>6, <1>7, <1>8


\* The tasks of a command are found by their ids.
LEMMA TasksApart ==
    ASSUME NEW path \in Paths, NEW project
    PROVE  /\ {t.id : t \in TasksOf(path, project)} = Generated(path)
           /\ {t.latest : t \in TasksOf(path, project)} = UpdatesOf(path)
           /\ \A t \in TasksOf(path, project) :
                 /\ t.command = LiveId(path) /\ t.project = project
                 /\ t.latest.of = t.id
                 /\ t.status \in Statuses
           /\ \A other : \A t \in TasksOf(path, project), u \in TasksOf(path, other) :
                 t.id = u.id => t.latest = u.latest
           /\ \A t, u \in TasksOf(path, project) : t.id = u.id => t = u
  <1> DEFINE sp == Append(path, "specialist")
             ex == Append(path, "executor")
             T1(p) == LiveTask(path, path, p, "delegated", "decomposition")
             T2(p) == LiveTask(path, sp, p, "in_progress", "progress")
             T3(p) == LiveTask(path, ex, p, "needs_info", "handoff")
             l1 == [of |-> LiveId(path), kind |-> "decomposition"]
             l2 == [of |-> LiveId(sp), kind |-> "progress"]
             l3 == [of |-> LiveId(ex), kind |-> "handoff"]
  <1>1. \A p : TasksOf(path, p) = {T1(p), T2(p), T3(p)}
    BY DEF TasksOf
  <1>2. LiveId(path) # LiveId(sp) /\ LiveId(path) # LiveId(ex) /\ LiveId(sp) # LiveId(ex)
    <2>1. sp # path /\ ex # path
      BY PathsApart
    <2>2. sp # ex
      BY PathsApart
    <2> HIDE DEF sp, ex
    <2> QED
      BY <2>1, <2>2, LiveIds
  <1>3. \A p : /\ T1(p).id = LiveId(path) /\ T1(p).command = LiveId(path)
               /\ T1(p).project = p /\ T1(p).status = "delegated" /\ T1(p).latest = l1
    BY TaskFields
  <1>4. \A p : /\ T2(p).id = LiveId(sp) /\ T2(p).command = LiveId(path)
               /\ T2(p).project = p /\ T2(p).status = "in_progress" /\ T2(p).latest = l2
    BY TaskFields
  <1>5. \A p : /\ T3(p).id = LiveId(ex) /\ T3(p).command = LiveId(path)
               /\ T3(p).project = p /\ T3(p).status = "needs_info" /\ T3(p).latest = l3
    BY TaskFields
  <1>6. l1.of = LiveId(path) /\ l2.of = LiveId(sp) /\ l3.of = LiveId(ex)
    OBVIOUS
  <1>7. Generated(path) = {LiveId(path), LiveId(sp), LiveId(ex)} /\ UpdatesOf(path) = {l1, l2, l3}
    BY DEF Generated, UpdatesOf
  <1> HIDE DEF sp, ex, T1, T2, T3, l1, l2, l3
  <1>8. {t.id : t \in TasksOf(path, project)} = Generated(path)
    BY <1>1, <1>3, <1>4, <1>5, <1>7
  <1>9. {t.latest : t \in TasksOf(path, project)} = UpdatesOf(path)
    BY <1>1, <1>3, <1>4, <1>5, <1>7
  <1>10. \A t \in TasksOf(path, project) :
            /\ t.command = LiveId(path) /\ t.project = project
            /\ t.latest.of = t.id /\ t.status \in Statuses
    BY <1>1, <1>3, <1>4, <1>5, <1>6 DEF Statuses
  <1>11. \A other : \A t \in TasksOf(path, project), u \in TasksOf(path, other) :
            t.id = u.id => t.latest = u.latest
    BY <1>1, <1>2, <1>3, <1>4, <1>5
  <1>12. \A t, u \in TasksOf(path, project) : t.id = u.id => t = u
    BY <1>1, <1>2, <1>3, <1>4, <1>5
  <1> QED
    BY <1>8, <1>9, <1>10, <1>11, <1>12

\* Two commands none of which is the other's task share no generated id.
LEMMA GeneratedApart ==
    ASSUME NEW p \in Paths, NEW q \in Paths, ~Clash(LiveId(p), LiveId(q)),
           ~Clash(LiveId(q), LiveId(p)), Generated(p) \cap Generated(q) # {}
    PROVE  p = q
  <1>1. /\ q # Append(p, "specialist") /\ q # Append(p, "executor")
        /\ p # Append(q, "specialist") /\ p # Append(q, "executor")
    BY LiveIds DEF Clash
  <1>2. \E x \in {p, Append(p, "specialist"), Append(p, "executor")},
           y \in {q, Append(q, "specialist"), Append(q, "executor")} : LiveId(x) = LiveId(y)
    BY DEF Generated
  <1>3. PICK x \in {p, Append(p, "specialist"), Append(p, "executor")},
             y \in {q, Append(q, "specialist"), Append(q, "executor")} : x = y
    BY <1>2, LiveIds
  <1>4. Append(p, "specialist") = Append(q, "specialist") => p = q
    BY PathsApart
  <1>5. Append(p, "executor") = Append(q, "executor") => p = q
    BY PathsApart
  <1>6. Append(p, "specialist") # Append(q, "executor")
    BY PathsApart
  <1>7. Append(p, "executor") # Append(q, "specialist")
    BY PathsApart
  <1> QED
    BY <1>1, <1>3, <1>4, <1>5, <1>6, <1>7

LEMMA ByIdFinds ==
    ASSUME NEW entries, NEW id \in {entry.id : entry \in entries}
    PROVE  ById(entries)[id] \in entries /\ ById(entries)[id].id = id
  <1>1. ById(entries)[id] = CHOOSE entry \in entries : entry.id = id
    BY DEF ById
  <1>2. \E entry \in entries : entry.id = id
    OBVIOUS
  <1> QED
    BY <1>1, <1>2


\* A command is made, moved or made again.
LEMMA CreateStep ==
    ASSUME CommandsInductive, NEW input \in CommandInputs,
           commands' = Upserted(commands, ById({
              [id |-> LiveId(Slug[input.title]), title |-> input.title, flaw |-> input.flaw,
               project |-> input.project,
               generated |-> {LiveId(task.id.path) : task \in LiveTasks(input)}]})),
           tasks' = Upserted(tasks, ById(LiveTasks(input))),
           updates' = Upserted(updates,
              [u \in {LiveUpdateId(task) : task \in LiveTasks(input)} |-> u.of]),
           listed' = [p \in Projects |->
              IF p = input.project THEN listed[p] \cup {LiveId(Slug[input.title])} ELSE listed[p]],
           lanes' = [s \in Statuses |->
              lanes[s] \cup {task.id : task \in {t \in LiveTasks(input) : t.status = s}}]
    PROVE  CommandsInductive'
  <1> DEFINE path == Slug[input.title]
             id == LiveId(path)
             new == TasksOf(path, input.project)
             entry == [id |-> id, title |-> input.title, flaw |-> input.flaw,
                     project |-> input.project, generated |-> Generated(path)]
  <1>1. path \in Paths
    <2>1. path \in Seq(STRING)
      BY ConsoleAssumption DEF CommandInputs
    <2> HIDE DEF path
    <2> QED
      BY <2>1 DEF Paths
  <1>2. /\ LiveTasks(input) = new
        /\ {LiveId(task.id.path) : task \in LiveTasks(input)} = Generated(path)
        /\ {LiveUpdateId(task) : task \in LiveTasks(input)} = UpdatesOf(path)
    BY MadeTasks
  <1>3. /\ entry.id = id /\ entry.project = input.project /\ entry.generated = Generated(path)
    OBVIOUS
  <1>4. commands' = Upserted(commands, ById({entry}))
    BY <1>2
  <1>5. tasks' = Upserted(tasks, ById(new))
    BY <1>2
  <1>6. updates' = Upserted(updates, [u \in UpdatesOf(path) |-> u.of])
    BY <1>2
  <1>7. /\ listed' = [p \in Projects |->
              IF p = input.project THEN listed[p] \cup {id} ELSE listed[p]]
        /\ lanes' = [s \in Statuses |->
              lanes[s] \cup {task.id : task \in {t \in new : t.status = s}}]
    BY <1>2
  <1>8. /\ {t.id : t \in new} = Generated(path)
        /\ {t.latest : t \in new} = UpdatesOf(path)
        /\ \A t \in new : /\ t.command = id /\ t.project = input.project
                          /\ t.latest.of = t.id /\ t.status \in Statuses
        /\ \A t, u \in new : t.id = u.id => t = u
    BY <1>1, TasksApart
  <1>9. \A other : \A t \in new, u \in TasksOf(path, other) : t.id = u.id => t.latest = u.latest
    BY <1>1, TasksApart
  <1>10. DOMAIN ById(new) = Generated(path) /\ DOMAIN ById({entry}) = {id}
    BY <1>3, <1>8 DEF ById
  <1>11. ById({entry})[id] = entry
    BY <1>3, ByIdFinds
  <1>12. \A i \in Generated(path) : ById(new)[i] \in new /\ ById(new)[i].id = i
    BY <1>8, ByIdFinds
  <1>13. id \in Generated(path)
    BY DEF Generated
  <1> HIDE DEF path, id, new, entry
  <1>14. /\ DOMAIN commands' = DOMAIN commands \cup {id}
         /\ commands'[id] = entry
         /\ \A i \in DOMAIN commands \ {id} : commands'[i] = commands[i]
    BY <1>4, <1>10, <1>11 DEF Upserted
  <1>15. /\ DOMAIN tasks' = DOMAIN tasks \cup Generated(path)
         /\ \A i \in Generated(path) : tasks'[i] \in new /\ tasks'[i].id = i
         /\ \A i \in DOMAIN tasks \ Generated(path) : tasks'[i] = tasks[i]
    BY <1>5, <1>10, <1>12 DEF Upserted
  <1>16. /\ DOMAIN updates' = DOMAIN updates \cup UpdatesOf(path)
         /\ \A u \in UpdatesOf(path) : updates'[u] = u.of
         /\ \A u \in DOMAIN updates \ UpdatesOf(path) : updates'[u] = updates[u]
    BY <1>6 DEF Upserted
  <1>17. CommandsNamed'
    <2> SUFFICES ASSUME NEW i \in DOMAIN commands'
                 PROVE  \E q \in Paths : i = LiveId(q) /\ commands'[i].generated = Generated(q)
      BY DEF CommandsNamed
    <2>1. CASE i = id
      BY <1>1, <1>3, <1>14, <2>1 DEF id
    <2>2. CASE i # id
      BY <1>14, <2>2 DEF CommandsInductive, CommandsNamed
    <2> QED
      BY <2>1, <2>2
  <1>18. \A i \in DOMAIN commands' : commands'[i].generated \subseteq DOMAIN tasks'
    <2>1. commands'[id].generated \subseteq DOMAIN tasks'
      BY <1>3, <1>14, <1>15
    <2>2. \A i \in DOMAIN commands \ {id} : commands'[i].generated \subseteq DOMAIN tasks'
      BY <1>14, <1>15 DEF CommandsInductive
    <2> QED
      BY <1>14, <2>1, <2>2
  <1>19. \A p \in Projects : listed'[p] \subseteq DOMAIN commands'
    <2> SUFFICES ASSUME NEW p \in Projects PROVE listed'[p] \subseteq DOMAIN commands'
      OBVIOUS
    <2>1. listed[p] \subseteq DOMAIN commands
      BY DEF CommandsInductive
    <2>2. listed'[p] \subseteq listed[p] \cup {id}
      BY <1>7
    <2> QED
      BY <1>14, <2>1, <2>2
  <1>20. \A s \in Statuses : lanes'[s] \subseteq DOMAIN tasks'
    BY <1>7, <1>8, <1>15 DEF CommandsInductive
  <1>21. ASSUME NoClash' PROVE TasksFit' /\ UpdatesFit'
    <2>1. NoClash /\ TasksFit /\ UpdatesFit
      <3>1. NoClash
        BY <1>14, <1>21 DEF NoClash, Clash
      <3> QED
        BY <3>1 DEF CommandsInductive
    <2>2. ASSUME NEW q \in Paths, LiveId(q) \in DOMAIN commands,
                 Generated(q) \cap Generated(path) # {}
          PROVE  q = path
      <3>1. ~Clash(LiveId(q), id) /\ ~Clash(id, LiveId(q))
        BY <1>14, <1>21, <2>2 DEF NoClash, Clash
      <3> QED
        BY <1>1, <2>2, <3>1, GeneratedApart DEF id
    \* A task that was there before keeps its last update.
    <2>3. ASSUME NEW i \in DOMAIN tasks
          PROVE  i \in DOMAIN tasks' /\ tasks'[i].latest = tasks[i].latest
      <3>1. PICK q \in Paths : /\ LiveId(q) \in DOMAIN commands
                               /\ tasks[i] \in TasksOf(q, commands[LiveId(q)].project)
        BY <2>1 DEF TasksFit
      <3>2. tasks[i].id = i
        BY <2>1 DEF TasksFit
      <3>3. i \in Generated(q)
        BY <3>1, <3>2, TasksApart
      <3>4. CASE i \in Generated(path)
        <4>1. q = path
          BY <2>2, <3>1, <3>3, <3>4
        <4>2. tasks'[i] \in new /\ tasks'[i].id = i
          BY <1>15, <3>4
        <4> QED
          BY <1>9, <1>15, <3>1, <3>2, <4>1, <4>2
      <3>5. CASE i \notin Generated(path)
        BY <1>15, <3>5
      <3> QED
        BY <3>4, <3>5
    <2>4. ASSUME NEW i \in DOMAIN tasks', i \in Generated(path)
          PROVE  /\ tasks'[i].id = i /\ tasks'[i].latest \in UpdatesOf(path)
                 /\ tasks'[i].latest.of = i
                 /\ tasks'[i] \in TasksOf(path, commands'[id].project)
      <3>1. tasks'[i] \in new /\ tasks'[i].id = i
        BY <1>15, <2>4
      <3>2. tasks'[i].latest \in UpdatesOf(path) /\ tasks'[i].latest.of = i
        BY <1>8, <3>1
      <3>3. commands'[id].project = input.project
        BY <1>3, <1>14
      <3> QED
        BY <3>1, <3>2, <3>3 DEF new
    <2>5. TasksFit'
      <3> SUFFICES ASSUME NEW i \in DOMAIN tasks'
                   PROVE  /\ tasks'[i].id = i /\ tasks'[i].latest \in DOMAIN updates'
                          /\ \E q \in Paths :
                                /\ LiveId(q) \in DOMAIN commands'
                                /\ tasks'[i] \in TasksOf(q, commands'[LiveId(q)].project)
        BY DEF TasksFit
      <3>1. CASE i \in Generated(path)
        BY <1>1, <1>14, <1>16, <2>4, <3>1 DEF id
      <3>2. CASE i \notin Generated(path)
        <4>1. i \in DOMAIN tasks /\ tasks'[i] = tasks[i]
          BY <1>15, <3>2
        <4>2. tasks[i].id = i /\ tasks[i].latest \in DOMAIN updates
          BY <2>1, <4>1 DEF TasksFit
        <4>3. PICK q \in Paths : /\ LiveId(q) \in DOMAIN commands
                                 /\ tasks[i] \in TasksOf(q, commands[LiveId(q)].project)
          BY <2>1, <4>1 DEF TasksFit
        <4>4. i \in Generated(q)
          BY <4>2, <4>3, TasksApart
        <4>5. LiveId(q) # id
          BY <3>2, <4>4, LiveIds DEF id
        <4> QED
          BY <1>14, <1>16, <4>1, <4>2, <4>3, <4>5
      <3> QED
        BY <3>1, <3>2
    <2>6. UpdatesFit'
      <3> SUFFICES ASSUME NEW u \in DOMAIN updates'
                   PROVE  /\ updates'[u] = u.of /\ u.of \in DOMAIN tasks'
                          /\ tasks'[u.of].latest = u
        BY DEF UpdatesFit
      <3>1. CASE u \in UpdatesOf(path)
        <4>1. PICK t \in new : t.latest = u
          BY <1>8, <3>1
        <4>2. u.of = t.id /\ t.id \in Generated(path)
          BY <1>8, <4>1
        <4>3. tasks'[t.id] \in new /\ tasks'[t.id].id = t.id
          BY <1>15, <4>2
        <4>4. tasks'[t.id] = t
          BY <1>8, <4>3
        <4> QED
          BY <1>15, <1>16, <3>1, <4>1, <4>2, <4>4
      <3>2. CASE u \notin UpdatesOf(path)
        <4>1. u \in DOMAIN updates /\ updates'[u] = updates[u]
          BY <1>16, <3>2
        <4>2. updates[u] = u.of /\ u.of \in DOMAIN tasks /\ tasks[u.of].latest = u
          BY <2>1, <4>1 DEF UpdatesFit
        <4> QED
          BY <2>3, <4>1, <4>2
      <3> QED
        BY <3>1, <3>2
    <2> QED
      BY <2>5, <2>6
  <1> QED
    BY <1>17, <1>18, <1>19, <1>20, <1>21 DEF CommandsInductive


\* No command was given yet.
LEMMA InitCommands == ConsoleInit => CommandsInductive
  BY DEF ConsoleInit, CommandsInductive, CommandsNamed, NoClash, TasksFit, UpdatesFit, EmptyMap

\* Every request keeps what commands left.
LEMMA NextCommands == CommandsInductive /\ [ConsoleNext]_consoleVars => CommandsInductive'
  <1> SUFFICES ASSUME CommandsInductive, [ConsoleNext]_consoleVars PROVE CommandsInductive'
    OBVIOUS
  <1>1. ASSUME UNCHANGED commandVars PROVE CommandsInductive'
    <2>1. UNCHANGED <<commands, tasks, updates, listed, lanes>>
      BY <1>1 DEF commandVars
    <2>2. CommandsNamed' /\ NoClash' = NoClash /\ TasksFit' = TasksFit /\ UpdatesFit' = UpdatesFit
      BY <2>1 DEF CommandsInductive, CommandsNamed, NoClash, TasksFit, UpdatesFit
    <2> QED
      BY <2>1, <2>2 DEF CommandsInductive
  <1>2. CreateManagementCommand => CommandsInductive'
    BY CreateStep DEF CreateManagementCommand
  <1>3. SubmitEvidence \/ (\E g \in Gaps : ReplyToGap(g)) \/ (\E i \in Intents : DecideWriteback(i))
           => UNCHANGED commandVars
    BY DEF SubmitEvidence, ReplyToGap, DecideWriteback
  <1>4. UNCHANGED consoleVars => UNCHANGED commandVars
    BY DEF consoleVars, commandVars
  <1> QED
    BY <1>1, <1>2, <1>3, <1>4 DEF ConsoleNext

\* The intents that a user decided on, or nobody did, are valid.
LEMMA IntentsJudged ==
    ASSUME LinksTypeOK, NEW i \in Intents
    PROVE  (IntentValid(i) <=> intent[i].by # "not a string")
  <1>1. intent[i] \in [decision : {"auto_execute", "reject"}, by : {Null, "user", "not a string"}]
    BY DEF LinksTypeOK
  <1>2. PolicyRank["auto_execute"] = 0 /\ PolicyRank["reject"] = 3
    BY DEF PolicyRank
  <1>3. PolicyRank[intent[i].decision] >= PolicyRank[WritebackPolicy(i)]
    <2>1. intent[i].decision = "auto_execute" \/ intent[i].decision = "reject"
      BY <1>1
    <2>2. PolicyRank[intent[i].decision] \in {0, 3}
      BY <1>2, <2>1
    <2>3. PolicyRank[WritebackPolicy(i)] = 0
      BY <1>2 DEF WritebackPolicy
    <2> QED
      BY <2>2, <2>3
  <1>4. Null # "not a string"
    BY ConsoleAssumption
  <1> QED
    BY <1>1, <1>3, <1>4 DEF IntentValid

\* The contract of the management centre asks for no more than flawless commands.
LEMMA CenterJudged ==
    ASSUME CommandsInductive, NoClash
    PROVE  (CenterValid <=> \A id \in DOMAIN commands :
                               commands[id].flaw = "none" /\ commands[id].project \in Projects)
  <1>1. TasksFit /\ UpdatesFit /\ CommandsNamed
    BY DEF CommandsInductive
  <1>2. ASSUME NEW id \in DOMAIN tasks,
               \A c \in DOMAIN commands : commands[c].project \in Projects
        PROVE  TaskValid(tasks[id])
    <2>1. PICK path \in Paths : /\ LiveId(path) \in DOMAIN commands
                                /\ tasks[id] \in TasksOf(path, commands[LiveId(path)].project)
      BY <1>1 DEF TasksFit
    <2>2. tasks[id].id = id /\ tasks[id].latest \in DOMAIN updates
      BY <1>1 DEF TasksFit
    <2>3. /\ tasks[id].command = LiveId(path)
          /\ tasks[id].project = commands[LiveId(path)].project
          /\ tasks[id].latest.of = id /\ id \in Generated(path)
      BY <2>1, <2>2, TasksApart
    <2>4. commands[LiveId(path)].generated = Generated(path)
      BY <1>1, <2>1, LiveIds DEF CommandsNamed
    <2>5. updates[tasks[id].latest] = id
      BY <1>1, <2>2, <2>3 DEF UpdatesFit
    <2>6. \A u \in DOMAIN updates : updates[u] = id => u = tasks[id].latest
      BY <1>1 DEF UpdatesFit
    <2>7. tasks[id].latest.kind \in {"decomposition", "progress", "handoff"}
      <3>1. tasks[id].latest \in UpdatesOf(path)
        BY <2>1, TasksApart
      <3> QED
        BY <3>1 DEF UpdatesOf
    <2>8. KindRank[tasks[id].latest.kind] <= KindRank[tasks[id].latest.kind]
      BY <2>7 DEF KindRank
    <2> QED
      BY <1>2, <2>1, <2>2, <2>3, <2>4, <2>5, <2>6, <2>8 DEF TaskValid
  <1>3. \A u \in DOMAIN updates : updates[u] \in DOMAIN tasks
    BY <1>1 DEF UpdatesFit
  <1> QED
    BY <1>2, <1>3 DEF CommandsInductive, CenterValid, CommandValid

\* What commands left gives the contracts.
LEMMA ContractsFollow == LinksTypeOK /\ CommandsInductive => ContractsHold
  <1> SUFFICES ASSUME LinksTypeOK, CommandsInductive, NoClash
               PROVE  (Healthy <=>
                          /\ \A id \in DOMAIN commands :
                                commands[id].flaw = "none" /\ commands[id].project \in Projects
                          /\ \A i \in Intents : intent[i].by # "not a string")
    BY DEF ContractsHold, NoClash
  <1> QED
    BY IntentsJudged, CenterJudged DEF Healthy

\* What a request finds: its links, and what commands left.
ConsoleInductive == LinksInductive /\ CommandsInductive

(* Whatever is submitted, replied, decided and commanded, the links of the
   console's server are those a look at all the evidence finds, and /health
   reports a broken contract only for a flaw that was asked for or a decision
   that was no user's, as long as no title is another's generated id. *)
THEOREM ConsoleSoundAlways == ConsoleSpec => []ConsoleSound
  <1>1. ConsoleInit => ConsoleInductive
    BY InitLinks, InitCommands DEF ConsoleInductive
  <1>2. ConsoleInductive /\ [ConsoleNext]_consoleVars => ConsoleInductive'
    BY NextLinks, NextCommands DEF ConsoleInductive
  <1>3. ConsoleInductive => ConsoleSound
    BY ContractsFollow DEF ConsoleInductive, LinksInductive, ConsoleSound
  <1> QED
    BY <1>1, <1>2, <1>3, PTL DEF ConsoleSpec

-----------------------------------------------------------------------------
(* Documents in sequences, found by their ids *)

\* No id repeats exactly if each is the id of one item.
LEMMA NoRepeats ==
    ASSUME NEW S, NEW items \in Seq(S)
    PROVE  (~Repeats(items) <=>
               \A k, l \in DOMAIN items : items[k].id = items[l].id => k = l)
  <1> DEFINE n == Len(items)
             f == [k \in 1..n |-> items[k].id]
             T == BridgeIds(items)
  <1>1. n \in Nat /\ DOMAIN items = 1..n
    OBVIOUS
  <1>2. T = {items[k].id : k \in 1..n}
    BY <1>1 DEF BridgeIds, ToSet
  <1> HIDE DEF n, T
  <1>3. f \in Surjection(1..n, T)
    BY <1>2 DEF Surjection
  <1>4. f \in Injection(1..n, T) <=> \A k, l \in 1..n : items[k].id = items[l].id => k = l
    BY <1>2 DEF Injection, IsInjective
  <1> HIDE DEF f
  <1>5. IsFiniteSet(1..n) /\ Cardinality(1..n) = n
    BY <1>1, FS_Interval
  <1>6. IsFiniteSet(T) /\ Cardinality(T) <= n /\ (Cardinality(T) = n <=> f \in Injection(1..n, T))
    BY <1>3, <1>5, FS_Surjection
  <1>7. Cardinality(T) \in Nat
    BY <1>6, FS_CardinalityType
  <1>8. Repeats(items) <=> Cardinality(T) < n
    BY DEF Repeats, T, n
  <1> QED
    BY <1>1, <1>4, <1>6, <1>7, <1>8

\* A map by id has the one item of an id.
LEMMA OneOfId ==
    ASSUME NEW S, NEW items \in Seq(S), NEW k \in DOMAIN items,
           \A l \in DOMAIN items : items[l].id = items[k].id => l = k
    PROVE  LastOf(items, items[k].id) = items[k]
  <1> DEFINE id == items[k].id
             at == {l \in DOMAIN items : items[l].id = id}
  <1>1. at = {k}
    OBVIOUS
  <1>2. k \in Nat
    OBVIOUS
  <1>3. Max({k}) = k
    BY <1>2 DEF Max
  <1>4. Max({l \in DOMAIN items : items[l].id = id}) = k
    BY <1>1, <1>3
  <1> HIDE DEF id
  <1>5. LastOf(items, id) = items[k]
    BY <1>4 DEF LastOf
  <1> QED
    BY <1>5 DEF id

-----------------------------------------------------------------------------
(* The console and the bridge *)

\* Evidence is never taken away.
FixtureKept == FirstEvidence \subseteq ToSet(evidence)

\* A gap is waived exactly if it was rebutted.
RebutsTold ==
    \A g \in Gaps : (gap[g].status = "waived" <=>
                        \E r \in replies : r.gap = g /\ r.decision = "rebut")

BridgeInductive == LinksInductive /\ FixtureKept /\ RebutsTold

\* The fixture's intents are not rejected, and nothing was rebutted.
LEMMA InitBridge == ConsoleInit => BridgeInductive
  <1> SUFFICES ASSUME ConsoleInit PROVE BridgeInductive
    OBVIOUS
  <1>1. FixtureKept
    BY ConsoleAssumption, SetListed DEF ConsoleInit, FixtureKept
  <1>2. RebutsTold
    BY DEF ConsoleInit, RebutsTold
  <1> QED
    BY <1>1, <1>2, InitLinks DEF BridgeInductive

\* Evidence that is linked waives no gap.
LEMMA LinkKeeps ==
    ASSUME BridgeInductive, NEW piece \in TypedPieces, NEW answered, Link(piece, answered)
    PROVE  FixtureKept' /\ \A g \in Gaps : gap'[g].status = gap[g].status
  <1>0. LinksTypeOK
    BY DEF BridgeInductive, LinksInductive
  <1>1. FixtureKept'
    <2>1. evidence' = Append(evidence, piece) /\ evidence \in Seq(TypedPieces)
      BY <1>0 DEF Link, LinksTypeOK
    <2>2. /\ DOMAIN Append(evidence, piece) = DOMAIN evidence \cup {Len(evidence) + 1}
          /\ \A i \in DOMAIN evidence : Append(evidence, piece)[i] = evidence[i]
      BY <2>1
    <2> QED
      BY <2>1, <2>2 DEF BridgeInductive, FixtureKept, ToSet
  <1>2. ASSUME NEW g \in Gaps PROVE gap'[g].status = gap[g].status
    <2>1. gap[g] \in [status : {"collecting", "waived"}, closedBy : SUBSET PieceIds]
      BY <1>0 DEF LinksTypeOK
    <2>2. \/ gap'[g] = [gap[g] EXCEPT !.closedBy = gap[g].closedBy \cup {piece.id}]
          \/ gap'[g] = gap[g]
      BY DEF Link
    <2> QED
      BY <2>1, <2>2
  <1> QED
    BY <1>1, <1>2

\* Every request keeps what the bridge rests on.
LEMMA NextBridge == BridgeInductive /\ [ConsoleNext]_consoleVars => BridgeInductive'
  <1> SUFFICES ASSUME BridgeInductive, [ConsoleNext]_consoleVars PROVE BridgeInductive'
    OBVIOUS
  <1>0. LinksTypeOK /\ FixtureKept /\ RebutsTold
    BY DEF BridgeInductive, LinksInductive
  <1>1. \A input \in {i \in EvidenceInputs : TakenEvidence(i)}, id \in EvidenceIds :
           EvidenceOf(input, id) \in TypedPieces
    BY DEF EvidenceInputs, TakenEvidence, EvidenceOf, TypedPieces
  <1>2. ASSUME UNCHANGED <<evidence, gap, replies>> PROVE FixtureKept' /\ RebutsTold'
    BY <1>0, <1>2 DEF FixtureKept, RebutsTold
  <1>3. SubmitEvidence => FixtureKept' /\ RebutsTold'
    <2> SUFFICES ASSUME SubmitEvidence PROVE FixtureKept' /\ RebutsTold'
      OBVIOUS
    <2>1. PICK input \in {i \in EvidenceInputs : TakenEvidence(i)}, id \in EvidenceIds :
             Link(EvidenceOf(input, id), Null)
      BY DEF SubmitEvidence
    <2>2. FixtureKept' /\ \A g \in Gaps : gap'[g].status = gap[g].status
      BY <1>1, <2>1, LinkKeeps
    <2> QED
      BY <1>0, <2>2 DEF SubmitEvidence, RebutsTold
  <1>4. ASSUME NEW g \in Gaps, ReplyToGap(g) PROVE FixtureKept' /\ RebutsTold'
    <2>1. CASE /\ gap' = [gap EXCEPT ![g].status = "waived"]
               /\ replies' = replies \cup {[gap |-> g, decision |-> "rebut", id |-> Null]}
               /\ UNCHANGED <<evidence, taskEvidence, checkEvidence>>
      <3>1. FixtureKept'
        BY <1>0, <2>1 DEF FixtureKept
      <3>2. \A h \in Gaps : gap'[h].status = IF h = g THEN "waived" ELSE gap[h].status
        BY <1>0, <2>1 DEF LinksTypeOK
      <3>3. \A h \in Gaps : (\E r \in replies' : r.gap = h /\ r.decision = "rebut")
               <=> h = g \/ \E r \in replies : r.gap = h /\ r.decision = "rebut"
        <4> DEFINE reply == [gap |-> g, decision |-> "rebut", id |-> Null]
        <4>1. replies' = replies \cup {reply} /\ reply.gap = g /\ reply.decision = "rebut"
          BY <2>1
        <4> HIDE DEF reply
        <4> QED
          BY <4>1
      <3> QED
        BY <1>0, <3>1, <3>2, <3>3 DEF RebutsTold
    <2>2. CASE \E input \in {i \in EvidenceInputs : i.task = GapTask[g] /\ TakenEvidence(i)},
                  id \in EvidenceIds :
                  /\ Link(EvidenceOf(input, id), g)
                  /\ replies' = replies \cup
                        {[gap |-> g, decision |-> "evidence_submitted", id |-> id]}
      <3>1. PICK input \in {i \in EvidenceInputs : i.task = GapTask[g] /\ TakenEvidence(i)},
                 id \in EvidenceIds :
                  /\ Link(EvidenceOf(input, id), g)
                  /\ replies' = replies \cup
                        {[gap |-> g, decision |-> "evidence_submitted", id |-> id]}
        BY <2>2
      <3>2. FixtureKept' /\ \A h \in Gaps : gap'[h].status = gap[h].status
        BY <1>1, <3>1, LinkKeeps
      <3>3. \A h \in Gaps : (\E r \in replies' : r.gap = h /\ r.decision = "rebut")
               <=> \E r \in replies : r.gap = h /\ r.decision = "rebut"
        BY <3>1
      <3> QED
        BY <1>0, <3>2, <3>3 DEF RebutsTold
    <2> QED
      BY <1>4, <2>1, <2>2 DEF ReplyToGap
  <1>5. (\E i \in Intents : DecideWriteback(i)) \/ CreateManagementCommand \/ UNCHANGED consoleVars
           => UNCHANGED <<evidence, gap, replies>>
    BY DEF DecideWriteback, CreateManagementCommand, consoleVars, linkVars
  <1>6. LinksInductive'
    BY NextLinks DEF BridgeInductive
  <1> QED
    BY <1>2, <1>3, <1>4, <1>5, <1>6 DEF ConsoleNext, BridgeInductive

NoTwins == \A k, l \in DOMAIN evidence : evidence[k].id = evidence[l].id => k = l

\* A sequence has finitely many elements.
LEMMA RangeFinite ==
    ASSUME NEW S, IsFiniteSet(S), NEW f, DOMAIN f = S
    PROVE  IsFiniteSet({f[x] : x \in S})
  <1> DEFINE h == [x \in S |-> f[x]]
             T == {f[x] : x \in S}
  <1>1. h \in Surjection(S, T)
    BY DEF Surjection
  <1> HIDE DEF h, T
  <1>2. IsFiniteSet(T)
    BY <1>1, FS_Surjection
  <1> QED
    BY <1>2 DEF T

\* Documents of different ids, in a sequence.
LEMMA DocumentsListed ==
    ASSUME NEW S, IsFiniteSet(S), \A x, y \in S : x.id = y.id => x = y
    PROVE  /\ ToSet(SetToSeq(S)) = S /\ BridgeIds(SetToSeq(S)) = {x.id : x \in S}
           /\ ~Repeats(SetToSeq(S))
           /\ \A x \in S : LastOf(SetToSeq(S), x.id) = x
  <1> DEFINE s == SetToSeq(S)
  <1>1. s \in Seq(S) /\ ToSet(s) = S /\ IsInjective(s)
    BY SetListed
  <1> HIDE DEF s
  <1>2. \A k \in DOMAIN s : s[k] \in S
    BY <1>1
  <1>3. \A k, l \in DOMAIN s : s[k].id = s[l].id => k = l
    BY <1>1, <1>2 DEF IsInjective
  <1>4. ~Repeats(s)
    BY <1>1, <1>3, NoRepeats
  <1>5. BridgeIds(s) = {x.id : x \in S}
    BY <1>1 DEF BridgeIds
  <1>6. ASSUME NEW x \in S PROVE LastOf(s, x.id) = x
    <2>1. PICK k \in DOMAIN s : s[k] = x
      BY <1>1 DEF ToSet
    <2>2. LastOf(s, s[k].id) = s[k]
      BY <1>1, <1>3, OneOfId
    <2> QED
      BY <2>1, <2>2
  <1> QED
    BY <1>1, <1>4, <1>5, <1>6 DEF s

\* The documents, field by field.
LEMMA GapsLaid ==
    /\ \A g \in ToSet(ConsoleDocs.gaps) :
          /\ g.id \in Gaps /\ g.task = GapTask[g.id] /\ g.closedBy = gap[g.id].closedBy
          /\ (g.open <=> gap[g.id].status \notin {"closed", "waived"})
    /\ BridgeIds(ConsoleDocs.gaps) = Gaps
    /\ ~Repeats(ConsoleDocs.gaps)
  <1> DEFINE entry == [g \in Gaps |-> [id |-> g, task |-> GapTask[g],
                        open |-> gap[g].status \notin {"closed", "waived"},
                        closedBy |-> gap[g].closedBy]]
  <1>1. ConsoleGaps = {entry[g] : g \in Gaps}
    BY DEF ConsoleGaps
  <1>2. \A g \in Gaps :
           /\ entry[g].id = g /\ entry[g].task = GapTask[g] /\ entry[g].closedBy = gap[g].closedBy
           /\ (entry[g].open <=> gap[g].status \notin {"closed", "waived"})
    OBVIOUS
  <1>3. DOMAIN entry = Gaps
    OBVIOUS
  <1> HIDE DEF entry
  <1>4. IsFiniteSet(ConsoleGaps)
    BY <1>1, <1>3, ConsoleBridgeAssumption, RangeFinite
  <1>5. \A x, y \in ConsoleGaps : x.id = y.id => x = y
    BY <1>1, <1>2
  <1>6. ConsoleDocs.gaps = SetToSeq(ConsoleGaps)
    BY DEF ConsoleDocs
  <1>7. /\ ToSet(ConsoleDocs.gaps) = ConsoleGaps
        /\ BridgeIds(ConsoleDocs.gaps) = {x.id : x \in ConsoleGaps}
        /\ ~Repeats(ConsoleDocs.gaps)
    BY <1>4, <1>5, <1>6, DocumentsListed
  <1>8. {x.id : x \in ConsoleGaps} = Gaps
    BY <1>1, <1>2
  <1> QED
    BY <1>1, <1>2, <1>7, <1>8

\* The intents that the bridge is given are the console's.
LEMMA IntentsLaid ==
    /\ \A i \in ToSet(ConsoleDocs.intents) :
          /\ i.id \in Intents /\ i.task = Nobody /\ i.evidence = Ids(FirstEvidence)
          /\ i.risk = "low" /\ i.operation = "create_note" /\ i.touchesRisk = FALSE
          /\ i.stored = intent[i.id].decision
    /\ ToSet(ConsoleDocs.intents) = ConsoleIntents
    /\ BridgeIds(ConsoleDocs.intents) = Intents
    /\ ~Repeats(ConsoleDocs.intents)
    /\ IsFiniteSet(ConsoleIntents)
    /\ \A x, y \in ConsoleIntents : x.id = y.id => x = y
    /\ {x.id : x \in ConsoleIntents} = Intents
  <1> DEFINE entry == [i \in Intents |->
                       [id |-> i, task |-> Nobody, evidence |-> Ids(FirstEvidence), risk |-> "low",
                        operation |-> "create_note", touchesRisk |-> FALSE,
                        stored |-> intent[i].decision]]
  <1>1. ConsoleIntents = {entry[i] : i \in Intents}
    BY DEF ConsoleIntents
  <1>2. \A i \in Intents :
           /\ entry[i].id = i /\ entry[i].task = Nobody /\ entry[i].evidence = Ids(FirstEvidence)
           /\ entry[i].risk = "low" /\ entry[i].operation = "create_note"
           /\ entry[i].touchesRisk = FALSE /\ entry[i].stored = intent[i].decision
    OBVIOUS
  <1>3. DOMAIN entry = Intents
    OBVIOUS
  <1> HIDE DEF entry
  <1>4. IsFiniteSet(ConsoleIntents)
    BY <1>1, <1>3, ConsoleBridgeAssumption, RangeFinite
  <1>5. \A x, y \in ConsoleIntents : x.id = y.id => x = y
    BY <1>1, <1>2
  <1>6. ConsoleDocs.intents = SetToSeq(ConsoleIntents)
    BY DEF ConsoleDocs
  <1>7. /\ ToSet(ConsoleDocs.intents) = ConsoleIntents
        /\ BridgeIds(ConsoleDocs.intents) = {x.id : x \in ConsoleIntents}
        /\ ~Repeats(ConsoleDocs.intents)
    BY <1>4, <1>5, <1>6, DocumentsListed
  <1>8. {x.id : x \in ConsoleIntents} = Intents
    BY <1>1, <1>2
  <1> QED
    BY <1>1, <1>2, <1>4, <1>5, <1>7, <1>8

\* Each intent has one decision, the one it shows.
LEMMA DecisionsLaid ==
    /\ BridgeIds(ConsoleDocs.decisions) = Intents
    /\ ~Repeats(ConsoleDocs.decisions)
    /\ \A i \in ConsoleIntents :
          Supplied(LastOf(ConsoleDocs.decisions, i.id)) = VisibleDecision(i)
  <1> DEFINE entry == [i \in ConsoleIntents |->
                       [id |-> i.id, recommendation |-> VisibleDecision(i), final |-> Nobody]]
             S == {entry[i] : i \in ConsoleIntents}
  <1>1. S = {[id |-> i.id, recommendation |-> VisibleDecision(i), final |-> Nobody] :
                i \in ConsoleIntents}
    OBVIOUS
  <1>2. \A i \in ConsoleIntents :
           entry[i].id = i.id /\ entry[i].recommendation = VisibleDecision(i) /\ entry[i].final = Nobody
    OBVIOUS
  <1>3. DOMAIN entry = ConsoleIntents
    OBVIOUS
  <1>4. ConsoleDocs.decisions = SetToSeq(S)
    BY <1>1 DEF ConsoleDocs
  <1> HIDE DEF entry
  <1>5. IsFiniteSet(S)
    BY <1>3, IntentsLaid, RangeFinite
  <1>6. \A x, y \in S : x.id = y.id => x = y
    BY <1>2, IntentsLaid
  <1>7. {x.id : x \in S} = {x.id : x \in ConsoleIntents}
    BY <1>2
  <1> HIDE DEF S
  <1>8. /\ BridgeIds(ConsoleDocs.decisions) = {x.id : x \in S}
        /\ ~Repeats(ConsoleDocs.decisions)
        /\ \A x \in S : LastOf(ConsoleDocs.decisions, x.id) = x
    BY <1>4, <1>5, <1>6, DocumentsListed
  <1>9. ASSUME NEW i \in ConsoleIntents
        PROVE  Supplied(LastOf(ConsoleDocs.decisions, i.id)) = VisibleDecision(i)
    <2>1. entry[i] \in S
      BY DEF S
    <2>2. LastOf(ConsoleDocs.decisions, i.id) = entry[i]
      BY <1>2, <1>8, <2>1
    <2> QED
      BY <1>2, <2>2 DEF Supplied
  <1> QED
    BY <1>7, <1>8, <1>9, IntentsLaid

\* The pieces that the bridge is given are the console's.
LEMMA PiecesLaid ==
    ASSUME LinksTypeOK
    PROVE  /\ ConsoleDocs.evidence = ConsolePieces
           /\ DOMAIN ConsolePieces = DOMAIN evidence
           /\ \E S : ConsolePieces \in Seq(S)
           /\ \A k \in DOMAIN evidence :
                 /\ ConsolePieces[k].id = evidence[k].id /\ ConsolePieces[k].gap = Nobody
                 /\ ConsolePieces[k].task = IF evidence[k].task = Null THEN Nobody
                                            ELSE evidence[k].task
           /\ BridgeIds(ConsolePieces) = Ids(ToSet(evidence))
  <1>1. ConsoleDocs.evidence = ConsolePieces
    BY DEF ConsoleDocs
  <1>2. DOMAIN ConsolePieces = DOMAIN evidence
    BY DEF ConsolePieces
  <1>3. \A k \in DOMAIN evidence :
           /\ ConsolePieces[k].id = evidence[k].id /\ ConsolePieces[k].gap = Nobody
           /\ ConsolePieces[k].task = IF evidence[k].task = Null THEN Nobody ELSE evidence[k].task
    BY DEF ConsolePieces
  <1>4. DOMAIN evidence = 1..Len(evidence) /\ Len(evidence) \in Nat
    <2>1. evidence \in Seq(TypedPieces)
      BY DEF LinksTypeOK
    <2> QED
      BY <2>1
  <1>5. \E S : ConsolePieces \in Seq(S)
    <2> DEFINE S == {ConsolePieces[k] : k \in DOMAIN evidence}
    <2>1. ConsolePieces = [k \in 1..Len(evidence) |-> ConsolePieces[k]]
      BY <1>4 DEF ConsolePieces
    <2>2. ConsolePieces \in [1..Len(evidence) -> S]
      BY <1>4, <2>1
    <2>3. ConsolePieces \in Seq(S)
      BY <1>4, <2>2
    <2> QED
      BY <2>3
  <1>6. BridgeIds(ConsolePieces) = Ids(ToSet(evidence))
    <2>1. BridgeIds(ConsolePieces) = {ConsolePieces[k].id : k \in DOMAIN evidence}
      BY <1>2 DEF BridgeIds, ToSet
    <2>2. Ids(ToSet(evidence)) = {evidence[k].id : k \in DOMAIN evidence}
      BY DEF Ids, ToSet
    <2> QED
      BY <1>3, <2>1, <2>2
  <1> QED
    BY <1>1, <1>2, <1>3, <1>5, <1>6

\* One piece of evidence of an id is the one a map finds.
LEMMA PieceFound ==
    ASSUME LinksTypeOK, NoTwins, NEW k \in DOMAIN evidence
    PROVE  LastOf(ConsolePieces, evidence[k].id) = ConsolePieces[k]
  <1>1. PICK S : ConsolePieces \in Seq(S)
    BY PiecesLaid
  <1>2. \A l \in DOMAIN ConsolePieces : ConsolePieces[l].id = ConsolePieces[k].id => l = k
    BY PiecesLaid DEF NoTwins
  <1>3. LastOf(ConsolePieces, ConsolePieces[k].id) = ConsolePieces[k]
    BY <1>1, <1>2, PiecesLaid, OneOfId
  <1> QED
    BY <1>3, PiecesLaid

\* The console's documents fit unless two pieces have one id.
LEMMA DocumentsFitIff ==
    ASSUME LinksTypeOK, LinksAgree, FixtureKept
    PROVE  (DocumentsFit(ConsoleDocs) <=> NoTwins)
  <1> DEFINE d == ConsoleDocs
  <1>1. d.evidence = ConsolePieces /\ BridgeIds(d.evidence) = Ids(ToSet(evidence))
    BY PiecesLaid
  <1>2. ~Repeats(d.evidence) <=> NoTwins
    <2>1. PICK S : ConsolePieces \in Seq(S)
      BY PiecesLaid
    <2>2. ~Repeats(ConsolePieces) <=>
             \A k, l \in DOMAIN ConsolePieces : ConsolePieces[k].id = ConsolePieces[l].id => k = l
      BY <2>1, NoRepeats
    <2> QED
      BY <1>1, <2>2, PiecesLaid DEF NoTwins
  <1>3. /\ DOMAIN d.tasks = GraphTasks
        /\ \A t \in GraphTasks : /\ d.tasks[t].evidence = taskEvidence[t]
                                 /\ d.tasks[t].gaps = {g \in Gaps : GapTask[g] = t}
    BY DEF ConsoleDocs
  <1> HIDE DEF d
  <1>4. ASSUME NoTwins, NEW id, NEW e \in ToSet(evidence), e.id = id
        PROVE  /\ id \in BridgeIds(d.evidence)
               /\ LastOf(d.evidence, id).gap = Nobody
               /\ LastOf(d.evidence, id).task = IF e.task = Null THEN Nobody ELSE e.task
    <2>1. PICK k \in DOMAIN evidence : evidence[k] = e
      BY DEF ToSet
    <2>2. LastOf(d.evidence, id) = ConsolePieces[k]
      BY <1>1, <1>4, <2>1, PieceFound
    <2>3. id \in BridgeIds(d.evidence)
      BY <1>1, <1>4 DEF Ids
    <2> QED
      BY <2>1, <2>2, <2>3, PiecesLaid
  <1>5. \A t \in GraphTasks : t # Null
    BY ConsoleAssumption
  <1>6. ASSUME NoTwins, NEW g \in ToSet(d.gaps) PROVE GapFits(d, g)
    <2>1. g.id \in Gaps /\ g.task = GapTask[g.id] /\ g.closedBy = gap[g.id].closedBy
      BY GapsLaid DEF d
    <2>2. g.task \in GraphTasks
      BY <2>1, ConsoleAssumption
    <2>3. ASSUME NEW id \in g.closedBy
          PROVE  /\ id \in BridgeIds(d.evidence)
                 /\ LastOf(d.evidence, id).task \in {Nobody, g.task}
                 /\ LastOf(d.evidence, id).gap \in {Nobody, g.id}
      <3>1. PICK e \in ToSet(evidence) : e.id = id /\ e.task = GapTask[g.id]
        BY <2>1, <2>3 DEF LinksAgree, Ids
      <3> QED
        BY <1>4, <1>6, <2>1, <3>1
    <2> QED
      BY <1>3, <2>2, <2>3 DEF GapFits
  <1>7. ASSUME NEW e \in ToSet(d.evidence) PROVE PieceFits(d, e)
    <2>1. PICK k \in DOMAIN evidence : e = ConsolePieces[k]
      BY <1>1, PiecesLaid DEF ToSet
    <2>2. evidence[k] \in TypedPieces
      <3>1. evidence \in Seq(TypedPieces)
        BY DEF LinksTypeOK
      <3> QED
        BY <3>1
    <2>3. evidence[k].task \in GraphTasks \cup {Null}
      BY <2>2, ConsoleBridgeAssumption DEF TypedPieces
    <2>4. e.task \in GraphTasks \cup {Nobody} /\ e.gap = Nobody
      BY <2>1, <2>3, PiecesLaid
    <2> QED
      BY <1>3, <2>4 DEF PieceFits
  <1>8. ASSUME NEW i \in ToSet(d.intents) PROVE IntentFits(d, i)
    <2>1. i.task = Nobody /\ i.evidence = Ids(FirstEvidence)
      BY IntentsLaid DEF d
    <2>2. i.evidence \subseteq BridgeIds(d.evidence)
      BY <1>1, <2>1 DEF FixtureKept, Ids
    <2> QED
      BY <2>1, <2>2 DEF IntentFits
  <1>9. ASSUME NoTwins, NEW t \in DOMAIN d.tasks PROVE TaskFits(d, t)
    <2>1. ASSUME NEW id \in d.tasks[t].evidence
          PROVE  id \in BridgeIds(d.evidence) /\ LastOf(d.evidence, id).task \in {Nobody, t}
      <3>1. PICK e \in ToSet(evidence) : e.id = id /\ e.task = t
        BY <1>3, <1>9, <2>1 DEF LinksAgree, Ids
      <3> QED
        BY <1>4, <1>9, <3>1
    <2>2. d.tasks[t].gaps \subseteq BridgeIds(d.gaps)
      BY <1>3, <1>9, GapsLaid DEF d
    <2> QED
      BY <2>1, <2>2 DEF TaskFits
  <1>10. ~Repeats(d.gaps) /\ ~Repeats(d.intents)
    BY GapsLaid, IntentsLaid DEF d
  <1> QED
    BY <1>2, <1>6, <1>7, <1>8, <1>9, <1>10 DEF DocumentsFit, d

\* What the policy and the screen say of the intents of the fixture.
LEMMA IntentsDecided ==
    ASSUME LinksTypeOK, NEW i \in ConsoleIntents
    PROVE  /\ i.id \in Intents /\ i.stored = intent[i.id].decision
           /\ Policy(i) = "auto_execute"
           /\ VisibleDecision(i) = i.stored /\ i.stored \in {"auto_execute", "reject"}
           /\ AtLeast(i.stored, "auto_execute") /\ AtLeast(i.stored, i.stored)
           /\ EffectiveDecision(i, i.stored) = i.stored
  <1>1. /\ i.id \in Intents /\ i.stored = intent[i.id].decision
        /\ i.risk = "low" /\ i.operation = "create_note" /\ i.touchesRisk = FALSE
    BY IntentsLaid
  <1>2. Policy(i) = "auto_execute"
    BY <1>1 DEF Policy, HighRiskOperations, LowRiskOperations
  <1>3. intent[i.id] \in [decision : {"auto_execute", "reject"},
                          by : {Null, "user", "not a string"}]
    BY <1>1 DEF LinksTypeOK
  <1>4. i.stored \in {"auto_execute", "reject"}
    BY <1>1, <1>3
  <1>5. VisibleDecision(i) = i.stored
    BY <1>2, <1>4 DEF VisibleDecision
  <1>6. Strictness["auto_execute"] = 0 /\ Strictness["reject"] = 3
    BY DEF Strictness
  <1>7. AtLeast(i.stored, "auto_execute") /\ AtLeast(i.stored, i.stored)
    <2>1. CASE i.stored = "auto_execute"
      BY <1>6, <2>1 DEF AtLeast
    <2>2. CASE i.stored = "reject"
      BY <1>6, <2>2 DEF AtLeast
    <2> QED
      BY <1>4, <2>1, <2>2
  <1>8. EffectiveDecision(i, i.stored) = i.stored
    BY DEF EffectiveDecision
  <1> QED
    BY <1>1, <1>2, <1>4, <1>5, <1>7, <1>8

\* When the preview has payloads.
LEMMA BridgeOpens ==
    ASSUME BridgeInductive
    PROVE  (PreviewOk <=> NoTwins /\ \A i \in Intents : intent[i].by # "not a string")
  <1>0. LinksTypeOK /\ LinksAgree /\ FixtureKept
    BY DEF BridgeInductive, LinksInductive
  <1>1. DocumentsFit(ConsoleDocs) <=> NoTwins
    BY <1>0, DocumentsFitIff
  <1>2. OneDecisionEach(ConsoleDocs)
    BY DecisionsLaid, IntentsLaid DEF OneDecisionEach
  <1>3. ASSUME NEW i \in ToSet(ConsoleDocs.intents)
        PROVE  LET decision == Supplied(LastOf(ConsoleDocs.decisions, i.id))
               IN AtLeast(decision, Policy(i)) /\ AtLeast(decision, i.stored) /\ StoredIsStrict(i)
    <2>1. i \in ConsoleIntents
      BY IntentsLaid
    <2>2. Supplied(LastOf(ConsoleDocs.decisions, i.id)) = i.stored
      BY <1>0, <2>1, DecisionsLaid, IntentsDecided
    <2> QED
      BY <1>0, <2>1, <2>2, IntentsDecided DEF StoredIsStrict
  <1>4. JsBridgeOk(ConsoleDocs) <=> NoTwins
    BY <1>1, <1>2, <1>3 DEF JsBridgeOk
  <1> QED
    BY <1>0, <1>4, IntentsJudged DEF PreviewOk

\* What the payloads say.
LEMMA BridgeSends ==
    ASSUME BridgeInductive
    PROVE  /\ OrgTasksSent(ConsoleDocs) =
                 Gaps \ {r.gap : r \in {s \in replies : s.decision = "rebut"}}
           /\ \A audit \in AuditsSent(ConsoleDocs) :
                 (audit.decision = "reject" <=> intent[audit.intent].decision = "reject")
  <1>0. LinksTypeOK /\ RebutsTold
    BY DEF BridgeInductive, LinksInductive
  <1>1. \A g \in Gaps : gap[g].status \in {"collecting", "waived"}
    BY <1>0 DEF LinksTypeOK
  <1>2. OrgTasksSent(ConsoleDocs) = {g \in Gaps : gap[g].status # "waived"}
    <2>1. \A g \in Gaps : \E h \in ToSet(ConsoleDocs.gaps) : h.id = g
      BY GapsLaid DEF BridgeIds
    <2> QED
      BY <1>1, <2>1, GapsLaid DEF OrgTasksSent
  <1>3. {g \in Gaps : gap[g].status # "waived"}
           = Gaps \ {r.gap : r \in {s \in replies : s.decision = "rebut"}}
    BY <1>0 DEF RebutsTold
  <1>4. ASSUME NEW i \in ToSet(ConsoleDocs.intents)
        PROVE  (EffectiveDecision(i, Supplied(LastOf(ConsoleDocs.decisions, i.id))) = "reject"
                   <=> intent[i.id].decision = "reject")
    <2>1. i \in ConsoleIntents
      BY IntentsLaid
    <2>2. Supplied(LastOf(ConsoleDocs.decisions, i.id)) = i.stored
      BY <1>0, <2>1, DecisionsLaid, IntentsDecided
    <2> QED
      BY <1>0, <2>1, <2>2, IntentsDecided
  <1>5. \A audit \in AuditsSent(ConsoleDocs) :
           (audit.decision = "reject" <=> intent[audit.intent].decision = "reject")
    BY <1>4 DEF AuditsSent
  <1> QED
    BY <1>2, <1>3, <1>5

(* Every time the console's page is loaded, the bridge to the legacy system
   takes the documents that loadState lays before it, until two pieces of
   evidence have one id or somebody decided whose name is no string; it sends
   no task for a rebutted gap and a rejection for what was rejected. *)
THEOREM BridgeStaysOpenAlways == ConsoleSpec => []BridgeStaysOpen
  <1>1. BridgeInductive => BridgeStaysOpen
    BY BridgeOpens, BridgeSends DEF BridgeStaysOpen, NoTwins
  <1> QED
    BY <1>1, InitBridge, NextBridge, PTL DEF ConsoleSpec

-----------------------------------------------------------------------------
(* Both versions of the bridge *)

GapRecord == [id : BridgeGaps, task : BridgeTasks \cup {Absent}, open : BOOLEAN,
              closedBy : SUBSET (Pieces \cup {Absent})]

PieceRecord == [id : Pieces, task : BridgeTasks \cup {Nobody, Absent},
                gap : BridgeGaps \cup {Nobody, Absent}, opportunity : {"of the graph", "other"}]

IntentRecord == [id : BridgeIntents, task : BridgeTasks \cup {Nobody, Absent},
                 evidence : SUBSET (Pieces \cup {Absent}), risk : {"low", "medium"},
                 operation : {"create_note", "other"}, touchesRisk : {FALSE},
                 stored : PolicyDecisions]

DecisionRecord == [id : BridgeIntents \cup {Absent}, recommendation : PolicyDecisions,
                   final : PolicyDecisions \cup {Nobody}]

TaskRecord == [evidence : SUBSET (Pieces \cup {Absent}), gaps : SUBSET BridgeGaps]

\* Documents that are valid taken alone.
DocsTypeOK ==
    docs \in [tasks : [BridgeTasks -> TaskRecord], gaps : Seq(GapRecord),
              evidence : Seq(PieceRecord), intents : Seq(IntentRecord),
              decisions : Seq(DecisionRecord)]

\* One element more.
LEMMA Appended == ASSUME NEW S, NEW s \in Seq(S), NEW x \in S PROVE Append(s, x) \in Seq(S)
  OBVIOUS

\* There is no document yet.
LEMMA InitDocs == BridgeInit => DocsTypeOK
  <1> SUFFICES ASSUME BridgeInit PROVE DocsTypeOK
    OBVIOUS
  <1>1. [t \in BridgeTasks |-> [evidence |-> {}, gaps |-> {}]] \in [BridgeTasks -> TaskRecord]
    BY DEF TaskRecord
  <1>2. << >> \in Seq(GapRecord) /\ << >> \in Seq(PieceRecord) /\ << >> \in Seq(IntentRecord)
        /\ << >> \in Seq(DecisionRecord)
    OBVIOUS
  <1> QED
    BY <1>1, <1>2 DEF BridgeInit, DocsTypeOK

\* Documents keep their types as they are written.
LEMMA NextDocs == DocsTypeOK /\ [BridgeNext]_docs => DocsTypeOK'
  <1> SUFFICES ASSUME DocsTypeOK, [BridgeNext]_docs PROVE DocsTypeOK'
    OBVIOUS
  <1>0. /\ docs.tasks \in [BridgeTasks -> TaskRecord] /\ docs.gaps \in Seq(GapRecord)
        /\ docs.evidence \in Seq(PieceRecord) /\ docs.intents \in Seq(IntentRecord)
        /\ docs.decisions \in Seq(DecisionRecord)
    BY DEF DocsTypeOK
  <1>1. AddGap => DocsTypeOK'
    <2> SUFFICES ASSUME AddGap PROVE DocsTypeOK'
      OBVIOUS
    <2>1. PICK id \in BridgeGaps, task \in BridgeTasks \cup {Absent}, open \in BOOLEAN,
               closedBy \in {{}} \cup {{e} : e \in Pieces \cup {Absent}} :
             docs' = [docs EXCEPT !.gaps =
                Append(docs.gaps, [id |-> id, task |-> task, open |-> open, closedBy |-> closedBy])]
      BY DEF AddGap
    <2>2. [id |-> id, task |-> task, open |-> open, closedBy |-> closedBy] \in GapRecord
      BY DEF GapRecord
    <2>3. Append(docs.gaps, [id |-> id, task |-> task, open |-> open, closedBy |-> closedBy])
             \in Seq(GapRecord)
      BY <1>0, <2>2
    <2> QED
      BY <2>1, <2>3 DEF DocsTypeOK
  <1>2. AddPiece => DocsTypeOK'
    <2> SUFFICES ASSUME AddPiece PROVE DocsTypeOK'
      OBVIOUS
    <2>1. PICK id \in Pieces, task \in BridgeTasks \cup {Nobody, Absent},
               g \in BridgeGaps \cup {Nobody, Absent}, opportunity \in {"of the graph", "other"} :
             docs' = [docs EXCEPT !.evidence =
                Append(docs.evidence, [id |-> id, task |-> task, gap |-> g,
                                       opportunity |-> opportunity])]
      BY DEF AddPiece
    <2>2. [id |-> id, task |-> task, gap |-> g, opportunity |-> opportunity] \in PieceRecord
      BY DEF PieceRecord
    <2> DEFINE entry == [id |-> id, task |-> task, gap |-> g, opportunity |-> opportunity]
    <2> HIDE DEF entry
    <2>3. Append(docs.evidence, entry) \in Seq(PieceRecord)
      <3>1. entry \in PieceRecord
        BY <2>2 DEF entry
      <3> QED
        BY <1>0, <3>1, Appended
    <2> QED
      BY <2>1, <2>3 DEF DocsTypeOK, entry
  <1>3. UseInTask => DocsTypeOK'
    <2> SUFFICES ASSUME NEW t \in BridgeTasks,
                        \/ \E id \in Pieces \cup {Absent} :
                              docs' = [docs EXCEPT !.tasks[t].evidence = @ \cup {id}]
                        \/ \E id \in BridgeGaps :
                              docs' = [docs EXCEPT !.tasks[t].gaps = @ \cup {id}]
                 PROVE  DocsTypeOK'
      BY DEF UseInTask
    <2>1. docs.tasks[t] \in TaskRecord
      BY <1>0
    <2>2. ASSUME NEW id \in Pieces \cup {Absent},
                 docs' = [docs EXCEPT !.tasks[t].evidence = @ \cup {id}]
          PROVE  DocsTypeOK'
      <3>1. [docs.tasks[t] EXCEPT !.evidence = docs.tasks[t].evidence \cup {id}] \in TaskRecord
        BY <2>1 DEF TaskRecord
      <3>2. docs' = [docs EXCEPT !.tasks = [docs.tasks EXCEPT
                       ![t] = [docs.tasks[t] EXCEPT !.evidence = docs.tasks[t].evidence \cup {id}]]]
        BY <2>2
      <3> QED
        BY <1>0, <3>1, <3>2 DEF DocsTypeOK
    <2>3. ASSUME NEW id \in BridgeGaps,
                 docs' = [docs EXCEPT !.tasks[t].gaps = @ \cup {id}]
          PROVE  DocsTypeOK'
      <3>1. [docs.tasks[t] EXCEPT !.gaps = docs.tasks[t].gaps \cup {id}] \in TaskRecord
        BY <2>1 DEF TaskRecord
      <3>2. docs' = [docs EXCEPT !.tasks = [docs.tasks EXCEPT
                       ![t] = [docs.tasks[t] EXCEPT !.gaps = docs.tasks[t].gaps \cup {id}]]]
        BY <2>3
      <3> QED
        BY <1>0, <3>1, <3>2 DEF DocsTypeOK
    <2> QED
      BY <2>2, <2>3
  <1>4. AddIntent => DocsTypeOK'
    <2> SUFFICES ASSUME AddIntent PROVE DocsTypeOK'
      OBVIOUS
    <2>1. PICK i \in [id : BridgeIntents, task : BridgeTasks \cup {Nobody, Absent},
                      evidence : {{}} \cup {{e} : e \in Pieces \cup {Absent}},
                      risk : {"low", "medium"}, operation : {"create_note", "other"},
                      touchesRisk : {FALSE}, stored : PolicyDecisions \ {"manual_only"}] :
             docs' = [docs EXCEPT !.intents = Append(docs.intents, i)]
      BY DEF AddIntent
    <2>2. i \in IntentRecord
      <3> DEFINE used == {{}} \cup {{e} : e \in Pieces \cup {Absent}}
      <3>1. used \subseteq SUBSET (Pieces \cup {Absent})
        OBVIOUS
      <3>2. i \in [id : BridgeIntents, task : BridgeTasks \cup {Nobody, Absent},
                   evidence : used, risk : {"low", "medium"},
                   operation : {"create_note", "other"}, touchesRisk : {FALSE},
                   stored : PolicyDecisions \ {"manual_only"}]
        OBVIOUS
      <3> HIDE DEF used
      <3> QED
        BY <3>1, <3>2 DEF IntentRecord
    <2>3. Append(docs.intents, i) \in Seq(IntentRecord)
      BY <1>0, <2>2, Appended
    <2> QED
      BY <2>1, <2>3 DEF DocsTypeOK
  <1>5. AddDecision => DocsTypeOK'
    <2> SUFFICES ASSUME AddDecision PROVE DocsTypeOK'
      OBVIOUS
    <2>1. PICK id \in BridgeIntents \cup {Absent}, recommendation \in PolicyDecisions \ {"reject"},
               final \in (PolicyDecisions \ {"manual_only"}) \cup {Nobody} :
             docs' = [docs EXCEPT !.decisions =
                Append(docs.decisions, [id |-> id, recommendation |-> recommendation,
                                        final |-> final])]
      BY DEF AddDecision
    <2>2. [id |-> id, recommendation |-> recommendation, final |-> final] \in DecisionRecord
      BY DEF DecisionRecord
    <2>3. Append(docs.decisions, [id |-> id, recommendation |-> recommendation, final |-> final])
             \in Seq(DecisionRecord)
      BY <1>0, <2>2
    <2> QED
      BY <2>1, <2>3 DEF DocsTypeOK
  <1> QED
    BY <1>1, <1>2, <1>3, <1>4, <1>5 DEF BridgeNext, DocsTypeOK

\* An id that is listed is found.
LEMMA FoundById ==
    ASSUME NEW S, NEW items \in Seq(S), ~Repeats(items), NEW x \in ToSet(items)
    PROVE  x \in S /\ LastOf(items, x.id) = x
  <1>1. PICK k \in DOMAIN items : items[k] = x
    BY DEF ToSet
  <1>2. \A l \in DOMAIN items : items[l].id = items[k].id => l = k
    BY NoRepeats
  <1>3. LastOf(items, items[k].id) = items[k]
    BY <1>2, OneOfId
  <1> QED
    BY <1>1, <1>3

\* So in every list of documents.
LEMMA DocumentsFound ==
    ASSUME DocsTypeOK, DocumentsFit(docs)
    PROVE  /\ \A g \in ToSet(docs.gaps) : g \in GapRecord /\ LastOf(docs.gaps, g.id) = g
           /\ \A e \in ToSet(docs.evidence) :
                 e \in PieceRecord /\ LastOf(docs.evidence, e.id) = e
           /\ \A i \in ToSet(docs.intents) :
                 i \in IntentRecord /\ LastOf(docs.intents, i.id) = i
  <1>1. docs.gaps \in Seq(GapRecord) /\ docs.evidence \in Seq(PieceRecord)
        /\ docs.intents \in Seq(IntentRecord)
    BY DEF DocsTypeOK
  <1>2. ~Repeats(docs.gaps) /\ ~Repeats(docs.evidence) /\ ~Repeats(docs.intents)
    BY DEF DocumentsFit
  <1>3. \A g \in ToSet(docs.gaps) : g \in GapRecord /\ LastOf(docs.gaps, g.id) = g
    BY <1>1, <1>2, FoundById
  <1>4. \A e \in ToSet(docs.evidence) : e \in PieceRecord /\ LastOf(docs.evidence, e.id) = e
    BY <1>1, <1>2, FoundById
  <1>5. \A i \in ToSet(docs.intents) : i \in IntentRecord /\ LastOf(docs.intents, i.id) = i
    BY <1>1, <1>2, FoundById
  <1> QED
    BY <1>3, <1>4, <1>5

\* A piece of evidence has one owner, which both its task and its gap name.
LEMMA OneOwner ==
    ASSUME DocsTypeOK, DocumentsFit(docs), NEW e \in ToSet(docs.evidence)
    PROVE  /\ Cardinality(Owners(docs, e)) <= 1
           /\ e.task # Nobody => e.task \in Owners(docs, e)
           /\ e.gap \in BridgeIds(docs.gaps) => LastOf(docs.gaps, e.gap).task \in Owners(docs, e)
           /\ e.task # Nobody \/ e.gap # Nobody <=> Owners(docs, e) # {}
  <1>1. PieceFits(docs, e)
    BY DEF DocumentsFit
  <1>2. \A g \in ToSet(docs.gaps) : g.id \in BridgeGaps /\ LastOf(docs.gaps, g.id) = g
    BY DocumentsFound DEF GapRecord
  <1>3. e.gap \in BridgeIds(docs.gaps) \cup {Nobody}
    BY <1>1 DEF PieceFits
  <1>4. Nobody \notin BridgeIds(docs.gaps)
    BY <1>2, BridgeAssumption DEF BridgeIds
  <1> DEFINE there == {h \in ToSet(docs.gaps) : h.id = e.gap}
             own == {e.task} \ {Nobody}
  <1>5. Owners(docs, e) = own \cup {g.task : g \in there}
    BY DEF Owners
  <1>6. \E o : Owners(docs, e) \in {{}, {o}}
    <2>1. CASE e.gap = Nobody
      <3>1. there = {}
        BY <1>4, <2>1 DEF BridgeIds
      <3>2. Owners(docs, e) = own
        BY <1>5, <3>1
      <3> QED
        BY <3>2
    <2>2. CASE e.gap # Nobody
      <3>1. PICK g \in ToSet(docs.gaps) : g.id = e.gap
        BY <1>3, <2>2 DEF BridgeIds
      <3>2. there = {g}
        BY <1>2, <3>1
      <3>3. e.task # Nobody => g.task = e.task
        BY <1>1, <1>2, <2>2, <3>1 DEF PieceFits
      <3>4. Owners(docs, e) = {g.task}
        BY <1>5, <3>2, <3>3
      <3> QED
        BY <3>4
    <2> QED
      BY <2>1, <2>2
  <1>7. Cardinality(Owners(docs, e)) <= 1
    <2>1. PICK o : Owners(docs, e) \in {{}, {o}}
      BY <1>6
    <2>2. Cardinality({o}) = 1
      BY FS_Singleton
    <2>3. Cardinality({}) = 0
      BY FS_EmptySet
    <2> QED
      BY <2>1, <2>2, <2>3
  <1>8. e.gap \in BridgeIds(docs.gaps) => LastOf(docs.gaps, e.gap).task \in Owners(docs, e)
    <2> SUFFICES ASSUME e.gap \in BridgeIds(docs.gaps)
                 PROVE  LastOf(docs.gaps, e.gap).task \in Owners(docs, e)
      OBVIOUS
    <2>1. PICK g \in ToSet(docs.gaps) : g.id = e.gap
      BY DEF BridgeIds
    <2>2. LastOf(docs.gaps, e.gap) = g
      BY <1>2, <2>1
    <2> QED
      BY <1>5, <2>1, <2>2
  <1>9. e.task # Nobody => e.task \in Owners(docs, e)
    BY <1>5
  <1>10. e.gap = Nobody => there = {}
    BY <1>4 DEF BridgeIds
  <1>11. e.task = Nobody /\ e.gap = Nobody => Owners(docs, e) = {}
    BY <1>5, <1>10
  <1> QED
    BY <1>3, <1>7, <1>8, <1>9, <1>11

\* What names a task is used by it alone.
LEMMA UsedByItsTask ==
    ASSUME DocsTypeOK, DocumentsFit(docs), NEW e \in ToSet(docs.evidence), e.task # Nobody
    PROVE  Users(docs, e) \subseteq {e.task}
  <1>1. LastOf(docs.evidence, e.id) = e
    BY DocumentsFound
  <1>2. \A t \in DOMAIN docs.tasks : e.id \in docs.tasks[t].evidence => t = e.task
    BY <1>1 DEF DocumentsFit, TaskFits
  <1>3. \A g \in ToSet(docs.gaps) : e.id \in g.closedBy => g.task = e.task
    BY <1>1 DEF DocumentsFit, GapFits
  <1>4. \A i \in ToSet(docs.intents) : e.id \in i.evidence /\ i.task # Nobody => i.task = e.task
    BY <1>1 DEF DocumentsFit, IntentFits
  <1> QED
    BY <1>2, <1>3, <1>4 DEF Users

\* In Rust, what names only a gap is used by the gap's task alone.
LEMMA UsedByItsOwner ==
    ASSUME DocsTypeOK, DocumentsFit(docs), UsedEvidenceFits(docs), NEW e \in ToSet(docs.evidence),
           Owners(docs, e) # {}
    PROVE  Users(docs, e) \subseteq Owners(docs, e)
  <1>1. CASE e.task # Nobody
    BY <1>1, UsedByItsTask, OneOwner
  <1>2. CASE e.task = Nobody
    <2>1. e.gap # Nobody /\ e.gap \in BridgeIds(docs.gaps)
      BY <1>2, OneOwner DEF DocumentsFit, PieceFits
    <2> DEFINE o == LastOf(docs.gaps, e.gap).task
    <2>2. o \in Owners(docs, e)
      BY <2>1, OneOwner
    <2>3. LastOf(docs.evidence, e.id) = e /\ e.id \in BridgeIds(docs.evidence)
      BY DocumentsFound DEF BridgeIds
    <2>4. \A t \in DOMAIN docs.tasks : e.id \in docs.tasks[t].evidence => t = o
      BY <2>1, <2>3 DEF UsedEvidenceFits, GapOfTask
    <2>5. \A g \in ToSet(docs.gaps) : e.id \in g.closedBy => g.task = o
      <3> SUFFICES ASSUME NEW g \in ToSet(docs.gaps), e.id \in g.closedBy PROVE g.task = o
        OBVIOUS
      <3>1. e.gap = g.id
        BY <2>1, <2>3 DEF DocumentsFit, GapFits
      <3>2. LastOf(docs.gaps, g.id) = g
        BY DocumentsFound
      <3> QED
        BY <3>1, <3>2
    <2>6. \A i \in ToSet(docs.intents) : e.id \in i.evidence => i.task = Nobody
      BY <1>2, <2>3 DEF DocumentsFit, IntentFits
    <2> HIDE DEF o
    <2> QED
      BY <2>2, <2>4, <2>5, <2>6 DEF Users
  <1> QED
    BY <1>1, <1>2

\* Decisions are ordered by how strict they are.
LEMMA StrictnessOrdered ==
    /\ \A p \in PolicyDecisions : Strictness[p] \in Nat
    /\ \A i : Policy(i) \in PolicyDecisions
  <1>1. PolicyDecisions = {"auto_execute", "needs_confirmation", "manual_only", "reject"}
    BY DEF PolicyDecisions, Strictness
  <1>2. /\ Strictness["auto_execute"] = 0 /\ Strictness["needs_confirmation"] = 1
        /\ Strictness["manual_only"] = 2 /\ Strictness["reject"] = 3
    BY DEF Strictness
  <1>3. \A p \in PolicyDecisions : Strictness[p] \in Nat
    BY <1>1, <1>2
  <1>4. \A i : Policy(i) \in PolicyDecisions
    BY <1>1 DEF Policy
  <1> QED
    BY <1>3, <1>4

\* The stricter of two decisions.
LEMMA StricterOne ==
    ASSUME NEW i, i.stored \in PolicyDecisions, NEW supplied \in PolicyDecisions
    PROVE  LET taken == EffectiveDecision(i, supplied)
           IN  /\ taken \in PolicyDecisions
               /\ AtLeast(taken, i.stored)
               /\ \A p \in PolicyDecisions : AtLeast(supplied, p) => AtLeast(taken, p)
               /\ EffectiveDecision(i, taken) = taken
               /\ AtLeast(supplied, i.stored) => AtLeast(taken, i.stored)
  BY StrictnessOrdered DEF EffectiveDecision, AtLeast

\* What fits does not depend on the decisions.
LEMMA FitsAlike ==
    ASSUME NEW d, NEW e, d.tasks = e.tasks, d.gaps = e.gaps, d.evidence = e.evidence,
           d.intents = e.intents, DocumentsFit(d)
    PROVE  DocumentsFit(e)
  BY DEF DocumentsFit, GapFits, PieceFits, TaskFits, IntentFits, GapOfTask

\* With one decision for each, an intent's is found.
LEMMA DecisionFound ==
    ASSUME DocsTypeOK, DocumentsFit(docs), OneDecisionEach(docs), NEW i \in ToSet(docs.intents)
    PROVE  \E k \in DOMAIN docs.decisions :
              /\ docs.decisions[k].id = i.id /\ docs.decisions[k] \in DecisionRecord
              /\ LastOf(docs.decisions, i.id) = docs.decisions[k]
              /\ LastOf(docs.intents, i.id) = i /\ i \in IntentRecord
              /\ \A l \in DOMAIN docs.decisions : docs.decisions[l].id = i.id => l = k
  <1>1. docs.decisions \in Seq(DecisionRecord)
    BY DEF DocsTypeOK
  <1>2. i.id \in BridgeIds(docs.decisions)
    BY DEF OneDecisionEach, BridgeIds
  <1>3. PICK k \in DOMAIN docs.decisions : docs.decisions[k].id = i.id
    BY <1>2 DEF BridgeIds, ToSet
  <1>4. \A l \in DOMAIN docs.decisions : docs.decisions[l].id = docs.decisions[k].id => l = k
    BY <1>1, NoRepeats DEF OneDecisionEach
  <1>5. LastOf(docs.decisions, docs.decisions[k].id) = docs.decisions[k]
    BY <1>1, <1>4, OneOfId
  <1>6. docs.decisions[k] \in DecisionRecord
    BY <1>1
  <1>7. LastOf(docs.intents, i.id) = i /\ i \in IntentRecord
    BY DocumentsFound
  <1> QED
    BY <1>3, <1>4, <1>5, <1>6, <1>7

\* The documents whose decisions are final, field by field.
LEMMA FinalFields ==
    ASSUME DocsTypeOK, DocumentsFit(docs), OneDecisionEach(docs)
    PROVE  LET m == MadeFinal(docs)
           IN  /\ m.tasks = docs.tasks /\ m.gaps = docs.gaps /\ m.evidence = docs.evidence
               /\ m.intents = docs.intents
               /\ DOMAIN m.decisions = DOMAIN docs.decisions
               /\ m.decisions \in Seq(DecisionRecord)
               /\ \A k \in DOMAIN docs.decisions :
                     /\ m.decisions[k].id = docs.decisions[k].id
                     /\ m.decisions[k].final =
                           EffectiveDecision(LastOf(docs.intents, docs.decisions[k].id),
                                             Supplied(docs.decisions[k]))
                     /\ m.decisions[k].final \in PolicyDecisions
  <1> DEFINE taken == [k \in DOMAIN docs.decisions |->
                         EffectiveDecision(LastOf(docs.intents, docs.decisions[k].id),
                                           Supplied(docs.decisions[k]))]
             made  == [k \in DOMAIN docs.decisions |->
                         [docs.decisions[k] EXCEPT !.final = taken[k]]]
             m == MadeFinal(docs)
  <1>1. docs.decisions \in Seq(DecisionRecord)
    BY DEF DocsTypeOK
  <1>2. m = [docs EXCEPT !.decisions = made]
    BY DEF MadeFinal
  <1>3. ASSUME NEW k \in DOMAIN docs.decisions PROVE taken[k] \in PolicyDecisions
    <2>1. docs.decisions[k] \in DecisionRecord
      BY <1>1
    <2>2. docs.decisions[k].id \in BridgeIds(docs.intents)
      BY DEF OneDecisionEach, BridgeIds, ToSet
    <2>3. PICK i \in ToSet(docs.intents) : i.id = docs.decisions[k].id
      BY <2>2 DEF BridgeIds
    <2>4. LastOf(docs.intents, docs.decisions[k].id) = i /\ i \in IntentRecord
      BY <2>3, DocumentsFound
    <2>5. Supplied(docs.decisions[k]) \in PolicyDecisions
      BY <2>1 DEF Supplied, DecisionRecord
    <2>6. i.stored \in PolicyDecisions
      BY <2>4 DEF IntentRecord
    <2> QED
      BY <2>4, <2>5, <2>6, StricterOne
  <1>4. /\ m.tasks = docs.tasks /\ m.gaps = docs.gaps /\ m.evidence = docs.evidence
        /\ m.intents = docs.intents /\ m.decisions = made
    <2> HIDE DEF made, m
    <2> QED
      BY <1>2 DEF DocsTypeOK
  <1>5. \A k \in DOMAIN docs.decisions :
           taken[k] = EffectiveDecision(LastOf(docs.intents, docs.decisions[k].id),
                                        Supplied(docs.decisions[k]))
    OBVIOUS
  <1> HIDE DEF taken, m
  <1>6. ASSUME NEW k \in DOMAIN docs.decisions
        PROVE  /\ made[k].id = docs.decisions[k].id /\ made[k].final = taken[k]
               /\ made[k] \in DecisionRecord
    <2>1. docs.decisions[k] \in DecisionRecord
      BY <1>1
    <2> QED
      BY <1>3, <2>1 DEF DecisionRecord
  <1>7. DOMAIN made = DOMAIN docs.decisions
    OBVIOUS
  <1>8. made \in Seq(DecisionRecord)
    <2>1. DOMAIN docs.decisions = 1..Len(docs.decisions) /\ Len(docs.decisions) \in Nat
      BY <1>1
    <2>2. made \in [1..Len(docs.decisions) -> DecisionRecord]
      BY <1>6, <2>1
    <2> HIDE DEF made
    <2> QED
      BY <2>1, <2>2
  <1> HIDE DEF made
  <1> QED
    BY <1>3, <1>4, <1>5, <1>6, <1>7, <1>8 DEF m

\* A decision made final is the effective one.
LEMMA FinalDecision ==
    ASSUME DocsTypeOK, DocumentsFit(docs), OneDecisionEach(docs), NEW i \in ToSet(docs.intents)
    PROVE  LET supplied == Supplied(LastOf(docs.decisions, i.id))
           IN  /\ supplied \in PolicyDecisions /\ i.stored \in PolicyDecisions
               /\ Supplied(LastOf(MadeFinal(docs).decisions, i.id))
                     = EffectiveDecision(i, supplied)
  <1>1. PICK k \in DOMAIN docs.decisions :
              /\ docs.decisions[k].id = i.id /\ docs.decisions[k] \in DecisionRecord
              /\ LastOf(docs.decisions, i.id) = docs.decisions[k]
              /\ LastOf(docs.intents, i.id) = i /\ i \in IntentRecord
              /\ \A l \in DOMAIN docs.decisions : docs.decisions[l].id = i.id => l = k
    BY DecisionFound
  <1> DEFINE made == MadeFinal(docs).decisions
  <1>2. /\ DOMAIN made = DOMAIN docs.decisions /\ made \in Seq(DecisionRecord)
        /\ \A l \in DOMAIN docs.decisions : made[l].id = docs.decisions[l].id
        /\ made[k].final = EffectiveDecision(i, Supplied(docs.decisions[k]))
        /\ made[k].final \in PolicyDecisions
    BY <1>1, FinalFields
  <1> HIDE DEF made
  <1>3. LastOf(made, made[k].id) = made[k]
    BY <1>1, <1>2, OneOfId
  <1>4. Supplied(made[k]) = made[k].final
    BY <1>2, BridgeAssumption DEF Supplied
  <1>5. Supplied(docs.decisions[k]) \in PolicyDecisions
    BY <1>1 DEF Supplied, DecisionRecord
  <1>6. i.stored \in PolicyDecisions
    BY <1>1 DEF IntentRecord
  <1> QED
    BY <1>1, <1>2, <1>3, <1>4, <1>5, <1>6 DEF made

\* What either version asks of a decision.
LEMMA DecisionStrict ==
    ASSUME DocsTypeOK, JsBridgeOk(docs) \/ RustBridgeOk(docs), NEW i \in ToSet(docs.intents)
    PROVE  LET taken == EffectiveDecision(i, Supplied(LastOf(docs.decisions, i.id)))
           IN  /\ AtLeast(taken, Policy(i)) /\ AtLeast(taken, i.stored)
               /\ EffectiveDecision(i, taken) = taken
               /\ StoredIsStrict(i)
  <1>1. DocumentsFit(docs) /\ OneDecisionEach(docs)
    BY DEF JsBridgeOk, RustBridgeOk
  <1> DEFINE decision == LastOf(docs.decisions, i.id)
             supplied == Supplied(decision)
  <1>2. supplied \in PolicyDecisions /\ i.stored \in PolicyDecisions
    BY <1>1, FinalDecision
  <1>3. StoredIsStrict(i)
    BY DEF JsBridgeOk, RustBridgeOk
  <1>4. Policy(i) \in PolicyDecisions /\ \A p \in PolicyDecisions : AtLeast(p, p)
    BY StrictnessOrdered DEF AtLeast
  <1>5. AtLeast(supplied, Policy(i))
    <2>1. CASE JsBridgeOk(docs)
      BY <2>1 DEF JsBridgeOk
    <2>2. CASE RustBridgeOk(docs)
      <3>1. /\ decision.recommendation = Policy(i)
            /\ decision.final # Nobody => AtLeast(decision.final, Policy(i))
        BY <2>2 DEF RustBridgeOk
      <3> HIDE DEF decision
      <3> QED
        BY <1>4, <3>1 DEF Supplied
    <2> QED
      BY <2>1, <2>2
  <1> HIDE DEF supplied
  <1>6. LET taken == EffectiveDecision(i, supplied)
        IN  /\ AtLeast(taken, i.stored) /\ AtLeast(taken, Policy(i))
            /\ EffectiveDecision(i, taken) = taken
    BY <1>2, <1>4, <1>5, StricterOne
  <1> QED
    BY <1>3, <1>6 DEF supplied

\* Made final, what Rust sends JavaScript would send.
LEMMA RustFinal ==
    ASSUME DocsTypeOK, RustBridgeOk(docs)
    PROVE  /\ JsBridgeOk(MadeFinal(docs))
           /\ AuditsSent(MadeFinal(docs)) = AuditsSent(docs)
  <1>1. DocumentsFit(docs) /\ OneDecisionEach(docs)
    BY DEF RustBridgeOk
  <1> DEFINE m == MadeFinal(docs)
  <1>2. /\ m.tasks = docs.tasks /\ m.gaps = docs.gaps /\ m.evidence = docs.evidence
        /\ m.intents = docs.intents /\ DOMAIN m.decisions = DOMAIN docs.decisions
        /\ m.decisions \in Seq(DecisionRecord)
        /\ \A k \in DOMAIN docs.decisions : m.decisions[k].id = docs.decisions[k].id
    BY <1>1, FinalFields
  <1>3. ASSUME NEW i \in ToSet(docs.intents)
        PROVE  /\ Supplied(LastOf(m.decisions, i.id))
                     = EffectiveDecision(i, Supplied(LastOf(docs.decisions, i.id)))
               /\ AtLeast(Supplied(LastOf(m.decisions, i.id)), Policy(i))
               /\ AtLeast(Supplied(LastOf(m.decisions, i.id)), i.stored)
               /\ EffectiveDecision(i, Supplied(LastOf(m.decisions, i.id)))
                     = Supplied(LastOf(m.decisions, i.id))
               /\ StoredIsStrict(i)
    <2>1. Supplied(LastOf(m.decisions, i.id))
             = EffectiveDecision(i, Supplied(LastOf(docs.decisions, i.id)))
      BY <1>1, FinalDecision
    <2> DEFINE taken == EffectiveDecision(i, Supplied(LastOf(docs.decisions, i.id)))
    <2>2. /\ AtLeast(taken, Policy(i)) /\ AtLeast(taken, i.stored)
          /\ EffectiveDecision(i, taken) = taken /\ StoredIsStrict(i)
      BY DecisionStrict
    <2> HIDE DEF m, taken
    <2>3. Supplied(LastOf(m.decisions, i.id)) = taken
      BY <2>1 DEF taken
    <2> QED
      BY <2>2, <2>3 DEF taken
  <1> HIDE DEF m
  <1>4. DocumentsFit(m)
    BY <1>1, <1>2, FitsAlike
  <1>5. OneDecisionEach(m)
    <2>1. docs.decisions \in Seq(DecisionRecord)
      BY DEF DocsTypeOK
    <2>2. \A k, l \in DOMAIN m.decisions : m.decisions[k].id = m.decisions[l].id => k = l
      BY <1>1, <1>2, <2>1, NoRepeats DEF OneDecisionEach
    <2>3. ~Repeats(m.decisions)
      BY <1>2, <2>2, NoRepeats
    <2>4. BridgeIds(m.decisions) = BridgeIds(docs.decisions)
      <3>1. BridgeIds(m.decisions) = {m.decisions[k].id : k \in DOMAIN docs.decisions}
        BY <1>2 DEF BridgeIds, ToSet
      <3>2. BridgeIds(docs.decisions) = {docs.decisions[k].id : k \in DOMAIN docs.decisions}
        BY DEF BridgeIds, ToSet
      <3> QED
        BY <1>2, <3>1, <3>2
    <2> QED
      BY <1>1, <1>2, <2>3, <2>4 DEF OneDecisionEach
  <1>6. JsBridgeOk(m)
    BY <1>2, <1>3, <1>4, <1>5 DEF JsBridgeOk
  <1>7. AuditsSent(m) = AuditsSent(docs)
    <2>1. \A i \in ToSet(docs.intents) :
             EffectiveDecision(i, Supplied(LastOf(m.decisions, i.id)))
                = EffectiveDecision(i, Supplied(LastOf(docs.decisions, i.id)))
      BY <1>3
    <2> QED
      BY <1>2, <2>1 DEF AuditsSent
  <1> QED
    BY <1>6, <1>7 DEF m

\* Both versions of the bridge, on any documents.
LEMMA BridgesSoundly == DocsTypeOK => BridgesSound
  <1> SUFFICES ASSUME DocsTypeOK PROVE BridgesSound
    OBVIOUS
  <1>1. ASSUME JsBridgeOk(docs), NEW e \in ToSet(docs.evidence)
        PROVE  /\ Cardinality(Owners(docs, e)) <= 1
               /\ e.task # Nobody => Users(docs, e) \subseteq {e.task}
    <2>1. DocumentsFit(docs)
      BY <1>1 DEF JsBridgeOk
    <2> QED
      BY <1>1, <2>1, OneOwner, UsedByItsTask
  <1>2. ASSUME RustBridgeOk(docs)
        PROVE  /\ \A e \in ToSet(docs.evidence) :
                     Owners(docs, e) # {} => Users(docs, e) \subseteq Owners(docs, e)
               /\ JsBridgeOk(MadeFinal(docs))
               /\ AuditsSent(MadeFinal(docs)) = AuditsSent(docs)
    <2>1. DocumentsFit(docs) /\ UsedEvidenceFits(docs)
      BY <1>2 DEF RustBridgeOk
    <2> QED
      BY <1>2, <2>1, UsedByItsOwner, RustFinal
  <1>3. ASSUME JsBridgeOk(docs) \/ RustBridgeOk(docs), NEW audit \in AuditsSent(docs)
        PROVE  LET i == LastOf(docs.intents, audit.intent)
               IN AtLeast(audit.decision, Policy(i)) /\ AtLeast(audit.decision, i.stored)
    <2>1. PICK i \in ToSet(docs.intents) :
             audit = [intent |-> i.id, decision |->
                        EffectiveDecision(i, Supplied(LastOf(docs.decisions, i.id)))]
      BY <1>3 DEF AuditsSent
    <2>2. /\ audit.intent = i.id
          /\ audit.decision = EffectiveDecision(i, Supplied(LastOf(docs.decisions, i.id)))
      BY <2>1
    <2>3. LastOf(docs.intents, i.id) = i
      <3>1. DocumentsFit(docs)
        BY <1>3 DEF JsBridgeOk, RustBridgeOk
      <3> QED
        BY <3>1, DocumentsFound
    <2>4. AtLeast(audit.decision, Policy(i)) /\ AtLeast(audit.decision, i.stored)
      BY <1>3, <2>2, DecisionStrict
    <2> QED
      BY <2>2, <2>3, <2>4
  <1> QED
    BY <1>1, <1>2, <1>3 DEF BridgesSound

(* However documents disagree, buildLegacyBridgePreview and
   build_legacy_bridge_preview send nothing that rests on another task's
   evidence, Rust sends no more than JavaScript, and no decision either records
   is weaker than the policy's or the stored one. *)
THEOREM BridgesSoundAlways == BridgeSpec => []BridgesSound
  <1> QED
    BY InitDocs, NextDocs, BridgesSoundly, PTL DEF BridgeSpec

-----------------------------------------------------------------------------
(* Both versions of a role's page *)

TaskLine == [id : Nat, kind : {"task"}, mine : BOOLEAN, blocker : BOOLEAN,
             status : TaskStates, due : {0, 1}]

GapLine == [id : Nat, kind : {"gap"}, mine : BOOLEAN, priority : {"high", "low"}, due : {0, 2},
            status : {"collecting", "closed"}]

GateLine == [id : Nat, kind : {"gate"}, mine : BOOLEAN, status : {"missing"}]

MirrorLine == [id : Nat, kind : {"mirror"}, status : {"stale"}]

IntentLine == [id : Nat, kind : {"intent"}, risk : {"high", "low"}, due : {1},
               status : {"needs_confirmation"}]

CommandLine == [id : Nat, kind : {"command"}, mine : BOOLEAN, ofGraph : BOOLEAN]

ProjectLine == [id : Nat, kind : {"project"}, mine : BOOLEAN, ofGraph : BOOLEAN,
                lists : SUBSET Nat]

GraphTaskLine == [id : Nat, kind : {"graph task"}, mine : BOOLEAN]

CentreTypeOK ==
    /\ IsFiniteSet(centre)
    /\ centre \subseteq CommandLine \cup ProjectLine \cup TaskLine \cup GraphTaskLine
                        \cup GapLine \cup GateLine \cup MirrorLine \cup IntentLine

\* No two lines have one number.
LinesNumbered ==
    /\ \A l \in centre : l.id <= Cardinality(centre)
    /\ \A l, m \in centre : l.id = m.id => l = m

CentreInductive == CentreTypeOK /\ LinesNumbered

\* The centre has no line yet.
LEMMA InitCentre == CentreInit => CentreInductive
  BY FS_EmptySet DEF CentreInit, CentreInductive, CentreTypeOK, LinesNumbered

\* Lines keep their types and numbers as they are written.
LEMMA NextCentre == CentreInductive /\ [CentreNext]_centre => CentreInductive'
  <1> SUFFICES ASSUME CentreInductive, [CentreNext]_centre PROVE CentreInductive'
    OBVIOUS
  <1>0. CentreTypeOK /\ LinesNumbered
    BY DEF CentreInductive
  <1> DEFINE Lines == CommandLine \cup ProjectLine \cup TaskLine \cup GraphTaskLine
                      \cup GapLine \cup GateLine \cup MirrorLine \cup IntentLine
  <1>1. NextId \in Nat /\ Cardinality(centre) \in Nat /\ NextId = Cardinality(centre) + 1
    BY <1>0, FS_CardinalityType DEF NextId, CentreTypeOK
  <1>2. ASSUME NEW line \in Lines, line.id = NextId, Write(line) PROVE CentreInductive'
    <2>1. centre' = centre \cup {line}
      BY <1>2 DEF Write
    <2>2. line \notin centre
      BY <1>0, <1>1, <1>2 DEF LinesNumbered
    <2>3. IsFiniteSet(centre') /\ Cardinality(centre') = Cardinality(centre) + 1
      BY <1>0, <2>1, <2>2, FS_AddElement DEF CentreTypeOK
    <2>4. CentreTypeOK'
      BY <1>0, <1>2, <2>1, <2>3 DEF CentreTypeOK
    <2>5. \A l \in centre : l.id \in Nat
      BY <1>0 DEF CentreTypeOK, CommandLine, ProjectLine, TaskLine, GraphTaskLine, GapLine,
             GateLine, MirrorLine, IntentLine
    <2>6. LinesNumbered'
      <3>1. \A l \in centre : l.id <= Cardinality(centre)
        BY <1>0 DEF LinesNumbered
      <3>2. \A l \in centre' : l.id <= Cardinality(centre')
        BY <1>1, <1>2, <2>1, <2>3, <2>5, <3>1
      <3>3. \A l \in centre : l.id # line.id
        BY <1>1, <1>2, <2>5, <3>1
      <3>4. \A l, m \in centre' : l.id = m.id => l = m
        BY <1>0, <2>1, <3>3 DEF LinesNumbered
      <3> QED
        BY <3>2, <3>4 DEF LinesNumbered
    <2> QED
      BY <2>4, <2>6 DEF CentreInductive
  <1>3. \A c \in Of("command") : c.id \in Nat
    BY <1>0 DEF Of, CentreTypeOK, CommandLine, ProjectLine, TaskLine, GraphTaskLine, GapLine,
           GateLine, MirrorLine, IntentLine
  <1>4. ASSUME WriteCommand PROVE \E line \in CommandLine : line.id = NextId /\ Write(line)
    BY <1>1, <1>4 DEF WriteCommand, CommandLine
  <1>5. ASSUME WriteProject PROVE \E line \in ProjectLine : line.id = NextId /\ Write(line)
    <2>1. PICK mine \in BOOLEAN, ofGraph \in BOOLEAN, lists \in SUBSET {c.id : c \in Of("command")} :
             Write([id |-> NextId, kind |-> "project", mine |-> mine, ofGraph |-> ofGraph,
                    lists |-> lists])
      BY <1>5 DEF WriteProject
    <2>2. lists \in SUBSET Nat
      BY <1>3
    <2> QED
      BY <1>1, <2>1, <2>2 DEF ProjectLine
  <1>6. ASSUME WriteTask PROVE \E line \in TaskLine : line.id = NextId /\ Write(line)
    BY <1>1, <1>6 DEF WriteTask, TaskLine
  <1>7. ASSUME WriteGraphTask PROVE \E line \in GraphTaskLine : line.id = NextId /\ Write(line)
    BY <1>1, <1>7 DEF WriteGraphTask, GraphTaskLine
  <1>8. ASSUME WriteGap PROVE \E line \in GapLine : line.id = NextId /\ Write(line)
    BY <1>1, <1>8 DEF WriteGap, GapLine
  <1>9. ASSUME WriteGate PROVE \E line \in GateLine : line.id = NextId /\ Write(line)
    BY <1>1, <1>9 DEF WriteGate, GateLine
  <1>10. ASSUME WriteMirror PROVE \E line \in MirrorLine : line.id = NextId /\ Write(line)
    BY <1>1, <1>10 DEF WriteMirror, MirrorLine
  <1>11. ASSUME WriteIntent PROVE \E line \in IntentLine : line.id = NextId /\ Write(line)
    BY <1>1, <1>11 DEF WriteIntent, IntentLine
  <1>12. CentreNext => \E line \in Lines : line.id = NextId /\ Write(line)
    BY <1>4, <1>5, <1>6, <1>7, <1>8, <1>9, <1>10, <1>11 DEF CentreNext
  <1>13. UNCHANGED centre => CentreInductive'
    BY <1>0 DEF CentreInductive, CentreTypeOK, LinesNumbered
  <1> HIDE DEF Lines
  <1> QED
    BY <1>2, <1>12, <1>13

Roles == SUBSET Permissions

\* A permission more shows no line less.
LEMMA MoreSeen ==
    ASSUME NEW may, NEW one
    PROVE  /\ JsPage(may) \subseteq JsPage(may \cup {one})
           /\ RustPage(may) \subseteq RustPage(may \cup {one})
           /\ JsActions(may) \subseteq JsActions(may \cup {one})
           /\ RustActions(may) \subseteq RustActions(may \cup {one})
  <1> DEFINE more == may \cup {one}
  <1>1. /\ SeesAll(may) => SeesAll(more)
        /\ Assigned(may) => Assigned(more)
        /\ SeesDashboard(may) => SeesDashboard(more)
    BY DEF SeesAll, Assigned, SeesDashboard
  <1> HIDE DEF more
  <1>2. \A lines : /\ Filter(SeesAll(may), Assigned(may), lines)
                         \subseteq Filter(SeesAll(more), Assigned(more), lines)
                   /\ Filter(SeesDashboard(may), Assigned(may), lines)
                         \subseteq Filter(SeesDashboard(more), Assigned(more), lines)
    BY <1>1 DEF Filter
  <1>3. JsCommands(may) \subseteq JsCommands(more)
    BY <1>2 DEF JsCommands
  <1>4. RustCommands(may) \subseteq RustCommands(more)
    BY <1>2 DEF RustCommands
  <1>5. JsProjects(may) \subseteq JsProjects(more)
    BY <1>1, <1>3 DEF JsProjects, Shows
  <1>6. RustProjects(may) \subseteq RustProjects(more)
    BY <1>1, <1>4 DEF RustProjects, Shows
  <1>7. JsTasks(may) \subseteq JsTasks(more) /\ RustTasks(may) \subseteq RustTasks(more)
    BY <1>2 DEF JsTasks, RustTasks
  <1>8. JsGraphTasks(may) \subseteq JsGraphTasks(more)
    BY <1>1, <1>3, <1>5 DEF JsGraphTasks, GraphInSight
  <1>9. RustGraphTasks(may) \subseteq RustGraphTasks(more)
    BY <1>1, <1>4, <1>6 DEF RustGraphTasks, GraphInSight
  <1>10. Asked(may) \subseteq Asked(more)
    BY <1>1 DEF Asked, Open
  <1>11. JsActions(may) \subseteq JsActions(more) /\ RustActions(may) \subseteq RustActions(more)
    BY <1>7, <1>10 DEF JsActions, RustActions, Open
  <1> QED
    BY <1>3, <1>4, <1>5, <1>6, <1>7, <1>8, <1>9, <1>11 DEF JsPage, RustPage, more

\* What both versions show the roles that see all and those that view their work.
LEMMA SamePage ==
    ASSUME CentreInductive, NEW may,
           SeesAll(may) \/ (Assigned(may) /\ "configure_governance" \notin may)
    PROVE  JsPage(may) = RustPage(may) /\ JsActions(may) = RustActions(may)
  <1> DEFINE inSight == Filter(SeesAll(may), Assigned(may), Of("command"))
  <1>1. JsCommands(may) = RustCommands(may)
    <2>1. inSight \subseteq Of("command") /\ Of("command") \subseteq centre
      BY DEF Filter, Of
    <2>2. \A c \in Of("command") : c.id \in {d.id : d \in inSight} <=> c \in inSight
      BY <2>1 DEF CentreInductive, LinesNumbered
    <2>3. JsCommands(may) = inSight
      BY DEF JsCommands
    <2>4. RustCommands(may) = {c \in Of("command") : c.id \in {d.id : d \in inSight}}
      BY DEF RustCommands
    <2> HIDE DEF inSight
    <2> QED
      BY <2>1, <2>2, <2>3, <2>4
  <1>2. JsProjects(may) = RustProjects(may)
    BY <1>1 DEF JsProjects, RustProjects
  <1>3. SeesDashboard(may) <=> SeesAll(may)
    BY DEF SeesDashboard
  <1>4. JsTasks(may) = RustTasks(may)
    BY <1>3 DEF JsTasks, RustTasks, Filter
  <1>5. JsGraphTasks(may) = RustGraphTasks(may)
    BY <1>1, <1>2, <1>3 DEF JsGraphTasks, RustGraphTasks
  <1> QED
    BY <1>1, <1>2, <1>4, <1>5 DEF JsPage, RustPage, JsActions, RustActions

\* A queue that has room takes every action, whatever the order.
LEMMA RoomForAll ==
    ASSUME NEW actions, IsFiniteSet(actions), Cardinality(actions) <= QueueLength
    PROVE  /\ (\A a \in actions : ~Before(JsKey(a), JsKey(a))) => Queue(actions, JsKey) = actions
           /\ (\A a \in actions : ~Before(RustKey(a), RustKey(a))) =>
                 Queue(actions, RustKey) = actions
  <1>1. Cardinality(actions) \in Nat /\ QueueLength \in Nat
    BY ViewsAssumption, FS_CardinalityType
  <1>2. ASSUME NEW some, NEW a \in actions, some \subseteq actions, a \notin some
        PROVE  Cardinality(some) < QueueLength
    <2>1. some \subseteq actions \ {a}
      BY <1>2
    <2>2. IsFiniteSet(actions \ {a}) /\ Cardinality(actions \ {a}) = Cardinality(actions) - 1
      BY FS_RemoveElement
    <2>3. Cardinality(some) <= Cardinality(actions \ {a}) /\ IsFiniteSet(some)
      BY <2>1, <2>2, FS_Subset
    <2>4. Cardinality(some) \in Nat
      BY <2>3, FS_CardinalityType
    <2> QED
      BY <1>1, <2>2, <2>3, <2>4
  <1>3. ASSUME \A a \in actions : ~Before(JsKey(a), JsKey(a))
        PROVE  Queue(actions, JsKey) = actions
    <2>1. \A a \in actions :
             Cardinality({b \in actions : Before(JsKey(b), JsKey(a))}) < QueueLength
      BY <1>2, <1>3
    <2> QED
      BY <2>1 DEF Queue
  <1>4. ASSUME \A a \in actions : ~Before(RustKey(a), RustKey(a))
        PROVE  Queue(actions, RustKey) = actions
    <2>1. \A a \in actions :
             Cardinality({b \in actions : Before(RustKey(b), RustKey(a))}) < QueueLength
      BY <1>2, <1>4
    <2> QED
      BY <2>1 DEF Queue
  <1> QED
    BY <1>3, <1>4

\* What a role is asked for is a line with a due date and a priority.
LEMMA ActionLines ==
    ASSUME CentreTypeOK, NEW may
    PROVE  /\ JsActions(may) \subseteq centre /\ RustActions(may) \subseteq centre
           /\ \A a \in JsActions(may) \cup RustActions(may) :
                 a \in TaskLine \cup GapLine \cup GateLine \cup MirrorLine \cup IntentLine
           /\ \A a \in JsActions(may) : a.kind = "task" => a \in JsTasks(may)
           /\ \A a \in RustActions(may) : a.kind = "task" => a \in RustTasks(may)
  <1>1. /\ JsTasks(may) \subseteq Of("task") /\ RustTasks(may) \subseteq Of("task")
    BY DEF JsTasks, RustTasks, Filter
  <1>2. Of("task") \subseteq centre /\ \A l \in Of("task") : l.kind = "task"
    BY DEF Of
  <1>3. Asked(may) \subseteq centre
        /\ \A l \in Asked(may) : l.kind \in {"gap", "gate", "mirror", "intent"}
    BY DEF Asked, Open
  <1>4. \A l \in centre : l.kind \in {"task", "gap", "gate", "mirror", "intent"} =>
           l \in TaskLine \cup GapLine \cup GateLine \cup MirrorLine \cup IntentLine
    BY DEF CentreTypeOK, CommandLine, ProjectLine, GraphTaskLine
  <1>5. /\ JsActions(may) \subseteq JsTasks(may) \cup Asked(may)
        /\ RustActions(may) \subseteq RustTasks(may) \cup Asked(may)
    BY DEF JsActions, RustActions, Open
  <1> QED
    BY <1>1, <1>2, <1>3, <1>4, <1>5

\* No action stands before itself.
LEMMA KeysOrdered ==
    ASSUME NEW a \in TaskLine \cup GapLine \cup GateLine \cup MirrorLine \cup IntentLine
    PROVE  ~Before(JsKey(a), JsKey(a)) /\ ~Before(RustKey(a), RustKey(a))
  <1>1. a.id \in Nat
    BY DEF TaskLine, GapLine, GateLine, MirrorLine, IntentLine
  <1>2. Due(a) \in Nat
    BY DEF Due, TaskLine, GapLine, GateLine, MirrorLine, IntentLine
  <1>3. JsPriority(a) \in Nat /\ RustPriority(a) \in Nat
    <2>1. TaskPriority(a) \in Nat
      BY DEF TaskPriority
    <2>2. a.kind \in {"task", "gap", "gate", "mirror", "intent"}
      BY DEF TaskLine, GapLine, GateLine, MirrorLine, IntentLine
    <2>3. JsPriority(a) \in Nat
      BY <2>1, <2>2 DEF JsPriority
    <2> QED
      BY <2>3 DEF RustPriority
  <1>4. StatusRank(a.status) \in Nat
    BY DEF StatusRank
  <1>5. \A p, q, r, s \in Nat : ~Before(<<p, q, r, s>>, <<p, q, r, s>>)
    BY DEF Before
  <1>6. \A p, q, s \in Nat : ~Before(<<p, q, s>>, <<p, q, s>>)
    BY DEF Before
  <1>7. (IF Due(a) = 0 THEN NoDueDate ELSE Due(a)) \in Nat
    BY <1>2 DEF NoDueDate
  <1> QED
    BY <1>1, <1>2, <1>3, <1>4, <1>5, <1>6, <1>7 DEF JsKey, RustKey

\* Both versions of the page and the queue, on any centre.
LEMMA ViewsAgree == CentreInductive => RoleViewsAgree
  <1> SUFFICES ASSUME CentreInductive PROVE RoleViewsAgree
    OBVIOUS
  <1>0. CentreTypeOK
    BY DEF CentreInductive
  <1>1. ASSUME NEW may \in Roles,
               SeesAll(may) \/ (Assigned(may) /\ "configure_governance" \notin may)
        PROVE  /\ JsPage(may) = RustPage(may)
               /\ Cardinality(JsActions(may)) <= QueueLength => JsQueue(may) = RustQueue(may)
    <2>1. JsPage(may) = RustPage(may) /\ JsActions(may) = RustActions(may)
      BY <1>1, SamePage
    <2>2. ASSUME Cardinality(JsActions(may)) <= QueueLength PROVE JsQueue(may) = RustQueue(may)
      <3>1. IsFiniteSet(JsActions(may))
        BY <1>0, ActionLines, FS_Subset DEF CentreTypeOK
      <3>2. \A a \in JsActions(may) : ~Before(JsKey(a), JsKey(a)) /\ ~Before(RustKey(a), RustKey(a))
        BY <1>0, ActionLines, KeysOrdered
      <3>3. Queue(JsActions(may), JsKey) = JsActions(may)
        BY <2>2, <3>1, <3>2, RoomForAll
      <3>4. Queue(JsActions(may), RustKey) = JsActions(may)
        BY <2>2, <3>1, <3>2, RoomForAll
      <3> QED
        BY <2>1, <3>3, <3>4 DEF JsQueue, RustQueue
    <2> QED
      BY <2>1, <2>2
  <1>2. ASSUME NEW may \in Roles, ~SeesAll(may), ~Assigned(may) PROVE JsPage(may) = {}
    BY <1>2 DEF JsPage, JsCommands, JsProjects, JsTasks, JsGraphTasks, Filter
  <1>3. ASSUME NEW may \in Roles
        PROVE  /\ {a \in JsQueue(may) : a.kind = "task"} \subseteq JsPage(may)
               /\ {a \in RustQueue(may) : a.kind = "task"} \subseteq RustPage(may)
    <2>1. JsQueue(may) \subseteq JsActions(may) /\ RustQueue(may) \subseteq RustActions(may)
      BY DEF JsQueue, RustQueue, Queue
    <2> QED
      BY <1>0, <2>1, ActionLines DEF JsPage, RustPage
  <1>4. \A may \in Roles, one \in Permissions : may \cup {one} \in Roles
    BY DEF Roles
  <1> DEFINE jsPage == [may \in SUBSET Permissions |-> JsPage(may)]
             rustPage == [may \in SUBSET Permissions |-> RustPage(may)]
             jsActions == [may \in SUBSET Permissions |-> JsActions(may)]
             rustActions == [may \in SUBSET Permissions |-> RustActions(may)]
             page == [js |-> jsPage, rust |-> rustPage]
             actions == [js |-> jsActions, rust |-> rustActions]
  <1>5. \A may \in SUBSET Permissions :
           /\ SeesAll(may) \/ (Assigned(may) /\ "configure_governance" \notin may) =>
                 /\ page.js[may] = page.rust[may]
                 /\ Cardinality(actions.js[may]) <= QueueLength => JsQueue(may) = RustQueue(may)
           /\ ~SeesAll(may) /\ ~Assigned(may) => page.js[may] = {}
           /\ \A one \in Permissions \ may, code \in {"js", "rust"} :
                 /\ page[code][may] \subseteq page[code][may \cup {one}]
                 /\ actions[code][may] \subseteq actions[code][may \cup {one}]
           /\ {a \in JsQueue(may) : a.kind = "task"} \subseteq page.js[may]
           /\ {a \in RustQueue(may) : a.kind = "task"} \subseteq page.rust[may]
    <2>1. \A may \in SUBSET Permissions :
             /\ page.js[may] = JsPage(may) /\ page.rust[may] = RustPage(may)
             /\ actions.js[may] = JsActions(may) /\ actions.rust[may] = RustActions(may)
      OBVIOUS
    <2>2. /\ page["js"] = page.js /\ page["rust"] = page.rust
          /\ actions["js"] = actions.js /\ actions["rust"] = actions.rust
      OBVIOUS
    <2> HIDE DEF page, actions
    <2>3. ASSUME NEW may \in SUBSET Permissions, NEW one \in Permissions \ may,
                 NEW code \in {"js", "rust"}
          PROVE  /\ page[code][may] \subseteq page[code][may \cup {one}]
                 /\ actions[code][may] \subseteq actions[code][may \cup {one}]
      <3>1. may \cup {one} \in SUBSET Permissions
        OBVIOUS
      <3>2. CASE code = "js"
        <4>1. /\ page[code][may] = JsPage(may) /\ actions[code][may] = JsActions(may)
              /\ page[code][may \cup {one}] = JsPage(may \cup {one})
              /\ actions[code][may \cup {one}] = JsActions(may \cup {one})
          BY <2>1, <2>2, <3>1, <3>2
        <4>2. JsPage(may) \subseteq JsPage(may \cup {one})
          BY MoreSeen
        <4>3. JsActions(may) \subseteq JsActions(may \cup {one})
          BY MoreSeen
        <4> QED
          BY <4>1, <4>2, <4>3
      <3>3. CASE code = "rust"
        <4>1. /\ page[code][may] = RustPage(may) /\ actions[code][may] = RustActions(may)
              /\ page[code][may \cup {one}] = RustPage(may \cup {one})
              /\ actions[code][may \cup {one}] = RustActions(may \cup {one})
          BY <2>1, <2>2, <3>1, <3>3
        <4>2. RustPage(may) \subseteq RustPage(may \cup {one})
          BY MoreSeen
        <4>3. RustActions(may) \subseteq RustActions(may \cup {one})
          BY MoreSeen
        <4> QED
          BY <4>1, <4>2, <4>3
      <3> QED
        BY <3>2, <3>3
    <2>4. ASSUME NEW may \in SUBSET Permissions
          PROVE  /\ SeesAll(may) \/ (Assigned(may) /\ "configure_governance" \notin may) =>
                       /\ page.js[may] = page.rust[may]
                       /\ Cardinality(actions.js[may]) <= QueueLength => JsQueue(may) = RustQueue(may)
                 /\ ~SeesAll(may) /\ ~Assigned(may) => page.js[may] = {}
                 /\ {a \in JsQueue(may) : a.kind = "task"} \subseteq page.js[may]
                 /\ {a \in RustQueue(may) : a.kind = "task"} \subseteq page.rust[may]
      <3>1. may \in Roles
        BY DEF Roles
      <3>2. /\ page.js[may] = JsPage(may) /\ page.rust[may] = RustPage(may)
            /\ actions.js[may] = JsActions(may)
        BY <2>1
      <3> QED
        BY <1>1, <1>2, <1>3, <3>1, <3>2
    <2> QED
      BY <2>3, <2>4
  <1> QED
    BY <1>5 DEF RoleViewsAgree

(* The page and the queue of a role are the same in view-models.mjs and in
   view_models.rs, but for those who only configure the governance or view no
   work, and a permission more never hides anything, for any centre. *)
THEOREM RoleViewsAgreeAlways == CentreSpec => []RoleViewsAgree
  <1> QED
    BY InitCentre, NextCentre, ViewsAgree, PTL DEF CentreSpec

===============================================================================
