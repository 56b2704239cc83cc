----------------------------- MODULE Checkpoints -----------------------------
(***************************************************************************)
(* The checkpoint manager (services/workflow/src/checkpoint/manager.ts)    *)
(* and its rows (persistence/db.ts): checkpoints are kept in memory, in a  *)
(* file rewritten as a whole, and in the database, from where a token the  *)
(* memory does not know is looked up again.                                *)
(*                                                                         *)
(* A checkpoint taken by a stage report holds the stages of its workflow   *)
(* by reference: they go on changing in the memory, while the hash is of   *)
(* the moment of creation.  The file and the row hold copies of the moment *)
(* they were written, and jsonb gives an object back with its keys in an   *)
(* order of its own.  What a snapshot says is abstracted to the version    *)
(* of the stages it shows; one workflow is enough.                         *)
(***************************************************************************)
EXTENDS Naturals, FiniteSets

CONSTANTS
    MaxTokens,       \* bound: checkpoints created
    MaxCheckpoints,  \* MAX_CHECKPOINTS
    Surplus,         \* how many more than needed are evicted at once
    Resumes,         \* calls of resume
    MaxVersion,      \* bound: changes of the stages
    MaxRestarts      \* bound: restarts

ASSUME CheckpointAssumption ==
    /\ MaxTokens \in Nat /\ MaxVersion \in Nat /\ MaxRestarts \in Nat
    /\ MaxCheckpoints \in Nat \ {0}
    /\ Surplus \in Nat

\* Tokens are numbered as they are created, which is the order of created_at.
Tokens == 1..MaxTokens

None == [kind |-> "none"]
Live == [kind |-> "live"]

\* A snapshot that is a copy: the version it shows, and whether its keys are
\* in the order they were hashed in.
CopyOf(v, ordered) == [kind |-> "copy", version |-> v, ordered |-> ordered]

Copy == {CopyOf(v, ordered) : v \in 0..MaxVersion, ordered \in BOOLEAN}

NoHash == [at |-> 0, canonical |-> TRUE, shared |-> FALSE]
Idle   == [pc |-> "idle"]

VARIABLES
    version,    \* of the stages of the workflow, now
    created,    \* tokens handed out: 1..created
    hash,       \* what the state_hash of a token was taken of
    mem,        \* checkpoints and resumeTokens
    file,       \* content of .runtime/checkpoint-store.json
    db,         \* rows of the checkpoint table
    inserting,  \* tokens whose row is still to be inserted
    call,       \* resume, between its awaits
    loading,    \* loadFromDatabase has yet to answer
    deleted,    \* history: tokens given to deleteCheckpoint
    gone,       \* history: tokens whose row failed or was cut off by a crash
    wrong,      \* history: what an answer of resume was wrong about
    restarts    \* history: restarts

cpVars == <<version, created, hash, mem, file, db, inserting, call, loading,
            deleted, gone, wrong, restarts>>

CpTypeOK ==
    /\ version \in 0..MaxVersion
    /\ created \in 0..MaxTokens
    /\ hash \in [Tokens -> [at: 0..MaxVersion, canonical: BOOLEAN, shared: BOOLEAN]]
    /\ mem \in [Tokens -> Copy \cup {None, Live}]
    /\ file \in [Tokens -> Copy \cup {None}]
    /\ db \in [Tokens -> Copy \cup {None}]
    /\ inserting \subseteq Tokens /\ deleted \subseteq Tokens /\ gone \subseteq Tokens
    /\ \A c \in Resumes : call[c] = Idle \/ call[c].token \in Tokens
    /\ loading \in BOOLEAN
    /\ wrong \subseteq {"state", "token"}
    /\ restarts \in 0..MaxRestarts

CpInit ==
    /\ version = 0
    /\ created = 0
    /\ hash = [t \in Tokens |-> NoHash]
    /\ mem = [t \in Tokens |-> None]
    /\ file = [t \in Tokens |-> None]
    /\ db = [t \in Tokens |-> None]
    /\ inserting = {}
    /\ call = [c \in Resumes |-> Idle]
    /\ loading = TRUE
    /\ deleted = {}
    /\ gone = {}
    /\ wrong = {}
    /\ restarts = 0

Known(m) == {t \in Tokens : m[t] # None}

\* What a snapshot shows now.
Shown(s) == IF s = Live THEN version ELSE s.version

\* A snapshot written out: a copy.
Written(s) == IF s = Live THEN CopyOf(version, TRUE) ELSE s

-----------------------------------------------------------------------------
(* Creation *)

\* persistToDisk: the whole memory is written and renamed over the file; an
\* error is logged.
PersistToDisk ==
    \/ file' = [t \in Tokens |-> IF mem'[t] = None THEN None ELSE Written(mem'[t])]
    \/ file' = file

\* evictOldCheckpoints: when there are too many, the oldest go, and a few
\* more.
Evict(m) ==
    LET n == Cardinality(Known(m)) IN
    IF n <= MaxCheckpoints THEN m
    ELSE [t \in Tokens |->
            IF m[t] # None
               /\ Cardinality({u \in Known(m) : u <= t}) <= n - MaxCheckpoints + Surplus
            THEN None ELSE m[t]]

\* create: a stage report passes the stages themselves; a request passes a
\* snapshot of its own, whose keys may be in the order jsonb keeps or not.
\* The row is inserted without being awaited.
Create(snapshot, canonical) ==
    LET t == created + 1 IN
    /\ created < MaxTokens
    /\ created' = t
    /\ hash' = [hash EXCEPT ![t] = [at |-> Shown(snapshot), canonical |-> canonical,
                                   shared |-> snapshot = Live]]
    /\ mem' = Evict([mem EXCEPT ![t] = snapshot])
    /\ PersistToDisk
    /\ inserting' = inserting \cup {t}
    /\ UNCHANGED <<version, db, call, loading, deleted, gone, wrong, restarts>>

\* The auto-checkpoint of a stage report: workflow_status, stage_status and
\* stages are not in the order of jsonb.
AutoCheckpoint == Create(Live, FALSE)

\* POST /internal/checkpoints/create
CreateRequest ==
    \E canonical \in BOOLEAN :
        Create(CopyOf(version, TRUE), canonical)

\* Stages change in the shared array.
StagesChange ==
    /\ version < MaxVersion
    /\ version' = version + 1
    /\ UNCHANGED <<created, hash, mem, file, db, inserting, call, loading, deleted,
                   gone, wrong, restarts>>

\* persistCheckpointRecord, once it has a connection: the record it was given
\* is written as it is by then, whether the memory still holds it or not.
\* It fails, or the row comes back with its keys in the order of jsonb.
InsertRow(t) ==
    /\ t \in inserting
    /\ inserting' = inserting \ {t}
    /\ \/ /\ db' = [db EXCEPT ![t] = CopyOf(IF hash[t].shared THEN version ELSE hash[t].at,
                                             hash[t].canonical)]
          /\ UNCHANGED gone
       \/ /\ gone' = gone \cup {t}
          /\ UNCHANGED db
    /\ UNCHANGED <<version, created, hash, mem, file, call, loading, deleted, wrong,
                   restarts>>

DeleteCheckpoint(t) ==
    /\ mem[t] # None
    /\ mem' = [mem EXCEPT ![t] = None]
    /\ PersistToDisk
    /\ deleted' = deleted \cup {t}
    /\ UNCHANGED <<version, created, hash, db, inserting, call, loading, gone, wrong,
                   restarts>>

-----------------------------------------------------------------------------
(* resume *)

Reply(c) == call' = [call EXCEPT ![c] = Idle]

Others == <<version, created, hash, file, db, inserting, loading, deleted, gone,
            restarts>>

MutatedValid(s, t) == TRUE

\* validateStoredStateHash
Valid(s, t) ==
    /\ Shown(s) = hash[t].at
    /\ s # Live => s.ordered

\* resume with the memory m, up to its reply or the audit record of a success:
\* an unknown token, a state that does not fit its hash, another policy.
Judge(c, t, same, m) ==
    \/ /\ m[t] = None
       /\ Reply(c)
       /\ wrong' = IF t \in deleted \cup gone \cup inserting THEN wrong
                   ELSE wrong \cup {"token"}
    \/ /\ m[t] # None /\ ~(Valid(m[t], t) /\ same)
       /\ Reply(c)
       /\ UNCHANGED wrong
    \/ /\ m[t] # None /\ Valid(m[t], t) /\ same
       /\ call' = [call EXCEPT ![c] = [pc |-> "audit", token |-> t, read |-> m[t],
                                       at |-> version]]
       /\ UNCHANGED wrong

\* A call of resume with a token that was handed out, and the policy hash of
\* the checkpoint or another.  A token the memory knows is judged at once.
ResumeCalled(c) ==
    /\ call[c] = Idle
    /\ \E t \in 1..created, same \in BOOLEAN :
          IF mem[t] # None THEN Judge(c, t, same, mem)
          ELSE /\ call' = [call EXCEPT ![c] = [pc |-> "lookup", token |-> t, same |-> same]]
               /\ UNCHANGED wrong
    /\ UNCHANGED <<mem, Others>>

\* loadCheckpointByResumeToken
RowOf(t) == db[t]

\* hydrateCheckpointFromDatabase, its first query.
Lookup(c) ==
    LET t == call[c].token IN
    /\ call[c].pc = "lookup"
    /\ IF RowOf(t) = None THEN Judge(c, t, call[c].same, mem)
       ELSE /\ call' = [call EXCEPT ![c] = [pc |-> "names", token |-> t,
                                            same |-> call[c].same, read |-> RowOf(t)]]
            /\ UNCHANGED wrong
    /\ UNCHANGED <<mem, Others>>

\* Its second query, of the names; then what the first one read goes into the
\* memory, over whatever the token stands for by now.
Hydrate(c) ==
    /\ call[c].pc = "names"
    /\ mem' = [mem EXCEPT ![call[c].token] = call[c].read]
    /\ Judge(c, call[c].token, call[c].same, mem')
    /\ UNCHANGED Others

\* The audit record is written; the checkpoint is serialised into the reply
\* only then.
Resumed(c) ==
    /\ call[c].pc = "audit"
    /\ Reply(c)
    /\ wrong' = IF \/ Shown(call[c].read) = hash[call[c].token].at
                   \/ call[c].at # version
                THEN wrong ELSE wrong \cup {"state"}
    /\ UNCHANGED <<mem, Others>>

-----------------------------------------------------------------------------
(* Restart *)

\* The process dies and starts again: loadFromDisk.  Rows not yet inserted
\* are lost.
Restart ==
    /\ restarts < MaxRestarts
    /\ restarts' = restarts + 1
    /\ mem' = file
    /\ gone' = gone \cup inserting
    /\ inserting' = {}
    /\ call' = [c \in Resumes |-> Idle]
    /\ loading' = TRUE
    /\ UNCHANGED <<version, created, hash, file, db, deleted, wrong>>

\* The rows loadFromDatabase takes over: those whose token is unknown.
Loadable == {t \in Tokens : db[t] # None /\ mem[t] = None}

\* loadFromDatabase answers, beside the requests: nothing is evicted.
LoadFromDatabase ==
    /\ loading
    /\ loading' = FALSE
    /\ \/ /\ mem' = [t \in Tokens |-> IF t \in Loadable THEN db[t] ELSE mem[t]]
          /\ IF Known(db) # {} THEN PersistToDisk ELSE UNCHANGED file
       \/ UNCHANGED <<mem, file>>
    /\ UNCHANGED <<version, created, hash, db, inserting, call, deleted, gone, wrong,
                   restarts>>

CpNext ==
    \/ AutoCheckpoint
    \/ CreateRequest
    \/ StagesChange
    \/ \E t \in Tokens : InsertRow(t) \/ DeleteCheckpoint(t)
    \/ \E c \in Resumes :
          ResumeCalled(c) \/ Lookup(c) \/ Hydrate(c) \/ Resumed(c)
    \/ Restart
    \/ LoadFromDatabase

CpSpec == CpInit /\ [][CpNext]_cpVars

-----------------------------------------------------------------------------
(* Properties *)

\* A checkpoint is only handed out with the state it was taken of, though the
\* memory, the file and the row each may have drifted from it; the one window
\* is the audit record that resume awaits between the check and the reply.  And
\* a token is refused as unknown only if its checkpoint was deleted or its row
\* never reached the database: eviction, restarts and lookups that race them
\* lose nothing.
ComesBackAsSaved == wrong = {}

=============================================================================
