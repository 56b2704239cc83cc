---------------------------- MODULE ConsoleClient ----------------------------
(***************************************************************************)
(* The page of the operations console (apps/ops-console/public/app.js).    *)
(* A user switches between roles, refreshes, previews and submits commands *)
(* and other actions, each a request whose answer comes when it comes.     *)
(* Answers of the state and of the runtime's health carry the number of    *)
(* the request that asked for them and are dropped when it is not the      *)
(* last; answers of a preview or a command are shown as they come.         *)
(*                                                                         *)
(* Of the state the server sends, what matters is whom it is for and how   *)
(* many of the writes it contains.                                         *)
(***************************************************************************)
EXTENDS Naturals, FiniteSets

CONSTANTS
    ConsoleUsers,   \* roles of the management centre
    Creators,       \* those that may create commands
    NoData,
    MaxLoads,       \* bound: loads of the state
    MaxPosts        \* bound: posts

ASSUME ClientAssumption ==
    /\ Creators \subseteq ConsoleUsers
    /\ MaxLoads \in Nat /\ MaxPosts \in Nat

VARIABLES
    userId,     \* state.userId, the role the page acts as
    loadId,     \* loadRequestId
    loads,      \* requests for the state: number, role, what the server read
    data,       \* state.data: the role it is for and the writes it contains
    failed,     \* the error line is shown
    loading,    \* the loading line is shown
    runtimeId,  \* legacyRuntimeRequestId
    probes,     \* requests for the runtime's health: number and load
    panel,      \* what the runtime panel shows
    preview,    \* what the preview shows: nothing, busy, an error or a role's
    posts,      \* requests that change or preview: kind, role, progress
    written,    \* writes the server took
    acked       \* writes whose answer the page has

loadVars   == <<loadId, loads, failed, loading>>
serverVars == <<posts, written, acked>>
clientVars == <<userId, data, loadVars, runtimeId, probes, panel, preview, serverVars>>

Unread == MaxPosts + 1

ClientInit ==
    /\ userId \in ConsoleUsers
    /\ loadId = 1
    /\ loads = {[number |-> 1, user |-> userId, saw |-> Unread]}
    /\ data = NoData
    /\ failed = FALSE
    /\ loading = TRUE
    /\ runtimeId = 0
    /\ probes = {}
    /\ panel = "empty"
    /\ preview = "empty"
    /\ posts = {}
    /\ written = 0
    /\ acked = 0

-----------------------------------------------------------------------------
(* Loading the state *)

\* loadState up to its fetch.
LoadState(user) ==
    /\ loadId < MaxLoads
    /\ loadId' = loadId + 1
    /\ loads' = loads \cup {[number |-> loadId', user |-> user, saw |-> Unread]}
    /\ loading' = TRUE
    /\ failed' = FALSE

Refresh ==
    /\ LoadState(userId)
    /\ UNCHANGED <<userId, data, runtimeId, probes, panel, preview, serverVars>>

\* A click on another role: the buttons are drawn with the first data.
SwitchRole(user) ==
    /\ data # NoData
    /\ user # userId
    /\ userId' = user
    /\ preview' = "empty"
    /\ LoadState(user)
    /\ UNCHANGED <<data, runtimeId, probes, panel, serverVars>>

\* The server reads its state for a load.
ServeState(l) ==
    /\ l.saw = Unread
    /\ loads' = (loads \ {l}) \cup {[l EXCEPT !.saw = written]}
    /\ UNCHANGED <<userId, data, loadId, failed, loading, runtimeId, probes, panel,
                   preview, serverVars>>

MutatedIsLatest(l) == l.number <= loadId

IsLatest(l) == l.number = loadId

\* The answer of the last load is drawn: the preview when there is none or the
\* role may not create commands, and the runtime panel while its health is
\* asked for.  An older one is dropped.
StateArrives(l) ==
    /\ l.saw # Unread
    /\ loads' = loads \ {l}
    /\ IF IsLatest(l)
       THEN /\ data' = [user |-> l.user, saw |-> l.saw]
            /\ userId' = l.user
            /\ loading' = FALSE
            /\ preview' = IF preview = "empty" \/ l.user \notin Creators THEN l.user
                          ELSE preview
            /\ panel' = "checking"
            /\ runtimeId' = runtimeId + 1
            /\ probes' = probes \cup {[number |-> runtimeId', load |-> l.number]}
       ELSE UNCHANGED <<data, userId, loading, preview, panel, runtimeId, probes>>
    /\ UNCHANGED <<loadId, failed, serverVars>>

\* The request fails, before or after the server read.
StateFails(l) ==
    /\ loads' = loads \ {l}
    /\ IF IsLatest(l) THEN failed' = TRUE /\ loading' = FALSE
                      ELSE UNCHANGED <<failed, loading>>
    /\ UNCHANGED <<userId, data, loadId, runtimeId, probes, panel, preview, serverVars>>

MutatedIsLastProbe(p) == p.number < runtimeId /\ p.load = loadId

IsLastProbe(p) == p.number = runtimeId /\ p.load = loadId

\* refreshLegacyRuntime after its fetch: health or the failure to get it.
ProbeAnswered(p) ==
    /\ probes' = probes \ {p}
    /\ panel' = IF IsLastProbe(p) THEN "result" ELSE panel
    /\ UNCHANGED <<userId, data, loadVars, runtimeId, preview, serverVars>>

-----------------------------------------------------------------------------
(* Previews, commands and other posts *)

\* The form of commands is enabled when the role of the data may create them.
FormEnabled == data # NoData /\ data.user \in Creators

Send(kind) ==
    /\ Cardinality(posts) + written < MaxPosts
    /\ \A p \in posts : p.kind # kind \/ p.user # userId
    /\ posts' = posts \cup {[kind |-> kind, user |-> userId, done |-> FALSE]}

PreviewCommand ==
    /\ FormEnabled
    /\ Send("preview")
    /\ preview' = "busy"
    /\ UNCHANGED <<userId, data, loadVars, runtimeId, probes, panel, written, acked>>

SubmitCommand ==
    /\ FormEnabled
    /\ Send("command")
    /\ preview' = "busy"
    /\ UNCHANGED <<userId, data, loadVars, runtimeId, probes, panel, written, acked>>

\* Evidence, the reply to a gap, a draft.
PostAction ==
    /\ data # NoData
    /\ Send("action")
    /\ UNCHANGED <<userId, data, loadVars, runtimeId, probes, panel, preview, written, acked>>

\* The server carries a post out: a command of the role it was sent for.
ServePost(p) ==
    /\ ~p.done
    /\ posts' = (posts \ {p}) \cup {[p EXCEPT !.done = TRUE]}
    /\ written' = IF p.kind = "preview" THEN written ELSE written + 1
    /\ UNCHANGED <<userId, data, loadVars, runtimeId, probes, panel, preview, acked>>

\* Its answer: a preview or a command is shown; what was written is loaded.
PostAnswered(p) ==
    /\ p.done
    /\ posts' = posts \ {p}
    /\ preview' = IF p.kind = "action" THEN preview ELSE p.user
    /\ IF p.kind = "preview"
       THEN UNCHANGED <<loadVars, acked>>
       ELSE LoadState(userId) /\ acked' = acked + 1
    /\ UNCHANGED <<userId, data, runtimeId, probes, panel, written>>

\* It fails, before or after the server carried it out: shown in the place of
\* the preview, or nowhere.
PostFails(p) ==
    /\ posts' = posts \ {p}
    /\ preview' = IF p.kind = "action" THEN preview ELSE "error"
    /\ UNCHANGED <<userId, data, loadVars, runtimeId, probes, panel, written, acked>>

ClientNext ==
    \/ Refresh \/ PreviewCommand \/ SubmitCommand \/ PostAction
    \/ \E u \in ConsoleUsers : SwitchRole(u)
    \/ \E l \in loads : ServeState(l) \/ StateArrives(l) \/ StateFails(l)
    \/ \E p \in probes : ProbeAnswered(p)
    \/ \E p \in posts : ServePost(p) \/ PostAnswered(p) \/ PostFails(p)

\* A fetch ends, with an answer or an error.
ClientFairness ==
    /\ WF_clientVars(\E l \in loads : ServeState(l) \/ StateArrives(l) \/ StateFails(l))
    /\ WF_clientVars(\E p \in probes : ProbeAnswered(p))

ClientSpec == ClientInit /\ [][ClientNext]_clientVars /\ ClientFairness

-----------------------------------------------------------------------------
(* Properties *)

Loaded == data # NoData /\ ~failed /\ \A l \in loads : ~IsLatest(l)

\* However answers overtake each other, once the last load was answered the
\* page shows the role it acts as, with every write whose answer it has; the
\* loading line is shown exactly while the answer of the last load is out.
ShownIsCurrent ==
    /\ Loaded => data.user = userId /\ data.saw >= acked
    /\ loading <=> \E l \in loads : l.number = loadId

\* The runtime panel does not show that health is being checked for ever, but
\* under the error of a load that failed.
PanelSettles == panel = "checking" ~> panel # "checking" \/ failed

\* Documented for quick switches of the role: the user sees nothing of another
\* role, the preview included.
PreviewIsOfTheRole == Loaded => preview \in {"empty", "busy", "error", userId}

=============================================================================
