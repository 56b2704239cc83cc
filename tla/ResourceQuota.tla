---------------------------- MODULE ResourceQuota ----------------------------
(***************************************************************************)
(* The quotas of services/resource-scheduler/src/index.ts: what a scope    *)
(* (an organisation or a user) may use of a resource, what it has used     *)
(* today, the cache that makes a repeated request harmless, and the copy   *)
(* of the quotas in the database, written and loaded behind the memory's   *)
(* back.  consumeQuota runs to its end without an await, so its scopeLocks *)
(* entry is never seen by another call and is not a variable here.         *)
(***************************************************************************)
EXTENDS Integers, FiniteSets, Sequences, SequencesExt

CONSTANTS
    Scopes,
    Resources,      \* resource types
    Held,           \* those releaseQuota gives back
    Keys,           \* idempotency keys
    Limits,         \* values a limit may have
    DayLength,      \* in ticks of the clock
    TTL,            \* IDEMPOTENCY_TTL_MS in ticks
    CacheSize,      \* IDEMPOTENCY_CACHE_SIZE
    PoolSize,       \* connections of the database pool
    MaxTime,        \* bounds of the model
    MaxUpserts,
    MaxCrashes,
    MaxTaken,
    None

ASSUME QuotaAssumption ==
    /\ Held \subseteq Resources
    /\ Limits \subseteq Nat
    /\ {DayLength, CacheSize, PoolSize} \subseteq Nat \ {0}
    /\ {TTL, MaxTime, MaxUpserts, MaxCrashes, MaxTaken} \subseteq Nat
    /\ None \notin Scopes \cup Resources \cup Keys

VARIABLES
    now,        \* Date.now()
    quota,      \* quotaStore: per scope a quota or None
    usage,      \* usageStore: per scope and resource, with window_start
    cache,      \* idempotencyCache: its entries in order of insertion
    pool,       \* "none", "connected", "selected" (rows in flight), "loaded"
    rows,       \* the rows a load has selected
    writes,     \* quota rows handed to the pool, oldest first
    db,         \* table resource_quota
    upserts, crashes,
    taken,      \* history: what a scope was granted and has not given back, of
                \*   resources that are not given back what it was granted today
    deducted,   \* history: when a key was last deducted, None before
    forgotten   \* history: keys whose entry was lost before it expired

store == <<quota, db, pool, rows, writes>>
history == <<taken, deducted, forgotten>>
vars == <<now, usage, cache, upserts, crashes, store, history>>

Quota == [limit : [Resources -> Limits], status : {"active", "suspended"}, version : Nat]
Entry == [key : Keys, ok : BOOLEAN, expiresAt : Nat]

Today == now \div DayLength

Zero == [r \in Resources |-> 0]

TypeOK ==
    /\ now \in 0..MaxTime
    /\ quota \in [Scopes -> Quota \cup {None}]
    /\ usage \in [Scopes -> [day : Nat, used : [Resources -> Nat]]]
    /\ cache \in Seq(Entry)
    /\ pool \in {"none", "connected", "selected", "loaded"}
    /\ rows \in [Scopes -> Quota \cup {None}]
    /\ writes \in Seq([scope : Scopes, row : Quota])
    /\ db \in [Scopes -> Quota \cup {None}]
    /\ upserts \in 0..MaxUpserts
    /\ crashes \in 0..MaxCrashes
    /\ taken \in [Scopes -> [Resources -> Nat]]
    /\ deducted \in [Keys -> Nat \cup {None}]
    /\ forgotten \subseteq Keys

Init ==
    /\ now = 0
    /\ quota = [s \in Scopes |-> None]
    /\ usage = [s \in Scopes |-> [day |-> 0, used |-> Zero]]
    /\ cache = <<>>
    /\ pool = "none"
    /\ rows = [s \in Scopes |-> None]
    /\ writes = <<>>
    /\ db = [s \in Scopes |-> None]
    /\ upserts = 0
    /\ crashes = 0
    /\ taken = [s \in Scopes |-> Zero]
    /\ deducted = [k \in Keys |-> None]
    /\ forgotten = {}

Tick ==
    /\ now < MaxTime
    /\ now' = now + 1
    /\ taken' = IF (now + 1) \div DayLength = Today THEN taken
                ELSE [s \in Scopes |-> [r \in Resources |->
                                          IF r \in Held THEN taken[s][r] ELSE 0]]
    /\ UNCHANGED <<usage, cache, upserts, crashes, store, deducted, forgotten>>

-----------------------------------------------------------------------------
(* Quotas and their copy in the database *)

\* upsertQuota: the memory now, the database some time later and only if the
\* pool is there.
UpsertQuota(s) ==
    /\ upserts < MaxUpserts
    /\ upserts' = upserts + 1
    /\ \E limit \in [Resources -> Limits], status \in {"active", "suspended"} :
          LET row == [limit |-> limit, status |-> status, version |-> upserts + 1] IN
          /\ quota' = [quota EXCEPT ![s] = row]
          /\ writes' = IF pool = "none" THEN writes
                       ELSE Append(writes, [scope |-> s, row |-> row])
    /\ UNCHANGED <<now, usage, cache, pool, rows, db, crashes, history>>

\* The statements on the pool's connections run side by side.
WriteRow(i) ==
    /\ i \in 1..Len(writes) /\ i <= PoolSize
    /\ writes' = RemoveAt(writes, i)
    /\ \/ db' = [db EXCEPT ![writes[i].scope] = writes[i].row]
       \/ db' = db      \* the statement fails: a warning is logged
    /\ UNCHANGED <<now, quota, usage, cache, pool, rows, upserts, crashes, history>>

\* getDbPool at the start of the service, in the background.
Connect ==
    /\ pool = "none"
    /\ pool' = "connected"
    /\ UNCHANGED <<now, quota, usage, cache, rows, writes, db, upserts, crashes, history>>

\* loadQuotasFromDb: the database answers the query for active quotas ...
SelectQuotas ==
    /\ pool = "connected"
    /\ pool' = "selected"
    /\ rows' = [s \in Scopes |->
                  IF db[s] # None /\ db[s].status = "active" THEN db[s] ELSE None]
    /\ UNCHANGED <<now, quota, usage, cache, writes, db, upserts, crashes, history>>

\* What the memory holds after the rows arrived.
Loaded(s) == IF rows[s] # None THEN rows[s] ELSE quota[s]

\* ... and its rows are put into the memory.  No statement writes the table
\* of usages, so its query finds nothing.
LoadQuotas ==
    /\ pool = "selected"
    /\ pool' = "loaded"
    /\ quota' = [s \in Scopes |-> Loaded(s)]
    /\ rows' = [s \in Scopes |-> None]
    /\ UNCHANGED <<now, usage, cache, writes, db, upserts, crashes, history>>

-----------------------------------------------------------------------------
(* Consuming and releasing *)

\* getCurrentUsage: what a scope used, from zero on a new day.
MutatedCurrentUsage(s) == [day |-> Today, used |-> usage[s].used]

CurrentUsage(s) ==
    IF usage[s].day = Today THEN usage[s] ELSE [day |-> Today, used |-> Zero]

\* checkQuota
Allowed(s, r, amount) ==
    /\ quota[s] # None
    /\ quota[s].status # "suspended"
    /\ CurrentUsage(s).used[r] + amount <= quota[s].limit[r]

\* checkQuota reads the usage only of a scope with a quota that is not
\* suspended; reading it starts the day.
Touched(s) ==
    IF quota[s] # None /\ quota[s].status # "suspended" THEN CurrentUsage(s) ELSE usage[s]

\* The answer to an earlier request with the key, while it has not expired.
MutatedAnswered(k) == \E i \in DOMAIN cache : cache[i].key = k /\ now < cache[i].expiresAt

Answered(k) == \E i \in DOMAIN cache : cache[i].key = k /\ now <= cache[i].expiresAt

\* The entries, of which none has the key of another, but that of the key.
Without(k) ==
    IF \E i \in DOMAIN cache : cache[i].key = k
    THEN RemoveAt(cache, CHOOSE i \in DOMAIN cache : cache[i].key = k)
    ELSE cache

\* An expired entry is deleted when its key comes again, so a set appends.
WithAnswer(k, ok) ==
    Append(Without(k), [key |-> k, ok |-> ok, expiresAt |-> now + TTL])

\* A refusal makes room by dropping the oldest entry; a success does not.
Refused(k) ==
    LET answers == WithAnswer(k, FALSE) IN
    IF Len(answers) > CacheSize THEN Tail(answers) ELSE answers

Granted(k) == WithAnswer(k, TRUE)

KeysOf(entries) == {entries[i].key : i \in DOMAIN entries}

\* consumeQuota with a key that was answered: nothing is deducted again.
Replay(s, k) ==
    /\ Answered(k)
    /\ UNCHANGED vars

\* consumeQuota, with a key or without one (None).
Consume(s, r, amount, k) ==
    /\ k # None => ~ Answered(k)
    /\ IF Allowed(s, r, amount)
       THEN /\ taken[s][r] + amount <= MaxTaken
            /\ usage' = [usage EXCEPT ![s] =
                           [CurrentUsage(s) EXCEPT !.used[r] = @ + amount]]
            /\ cache' = IF k = None THEN cache ELSE Granted(k)
            /\ taken' = [taken EXCEPT ![s][r] = @ + amount]
            /\ deducted' = IF k = None THEN deducted ELSE [deducted EXCEPT ![k] = now]
            /\ forgotten' = forgotten \ {k}
       ELSE /\ usage' = [usage EXCEPT ![s] = Touched(s)]
            /\ cache' = IF k = None THEN cache ELSE Refused(k)
            /\ forgotten' = forgotten \cup (KeysOf(cache) \ KeysOf(cache'))
            /\ UNCHANGED <<taken, deducted>>
    /\ UNCHANGED <<now, upserts, crashes, store>>

\* releaseQuota: workflows and storage come back, the rest of the day's use
\* does not.
AfterRelease(used, r, amount) ==
    IF r \notin Held THEN used
    ELSE [used EXCEPT ![r] = IF @ > amount THEN @ - amount ELSE 0]

\* The caller gives back what it was granted.
Release(s, r, amount) ==
    /\ amount <= taken[s][r]
    /\ usage' = [usage EXCEPT ![s] =
                   [CurrentUsage(s) EXCEPT !.used = AfterRelease(@, r, amount)]]
    /\ taken' = IF r \in Held THEN [taken EXCEPT ![s][r] = @ - amount] ELSE taken
    /\ UNCHANGED <<now, cache, upserts, crashes, store, deducted, forgotten>>

\* The process ends and starts again: only the database is left.
Crash ==
    /\ crashes < MaxCrashes
    /\ crashes' = crashes + 1
    /\ quota' = [s \in Scopes |-> None]
    /\ usage' = [s \in Scopes |-> [day |-> 0, used |-> Zero]]
    /\ cache' = <<>>
    /\ pool' = "none"
    /\ rows' = [s \in Scopes |-> None]
    /\ writes' = <<>>
    /\ forgotten' = forgotten \cup KeysOf(cache)
    /\ UNCHANGED <<now, db, upserts, taken, deducted>>

Amounts == 1..2

Next ==
    \/ Tick \/ Connect \/ SelectQuotas \/ LoadQuotas \/ Crash
    \/ \E i \in 1..PoolSize : WriteRow(i)
    \/ \E s \in Scopes :
          \/ UpsertQuota(s)
          \/ \E k \in Keys : Replay(s, k)
          \/ \E r \in Resources, amount \in Amounts :
                \/ Release(s, r, amount)
                \/ \E k \in Keys \cup {None} : Consume(s, r, amount, k)

Spec == Init /\ [][Next]_vars

-----------------------------------------------------------------------------
(* Properties *)

\* What a scope used of a daily resource is what it was granted since the day
\* began, whatever was released, refused, replayed or read meanwhile.
DailyUseCounted ==
    crashes = 0 =>
        \A s \in Scopes, r \in Resources \ Held : CurrentUsage(s).used[r] = taken[s][r]

GrantsWithin(s, r) ==
    taken'[s][r] > taken[s][r] =>
        /\ quota[s] # None
        /\ quota[s].status = "active"
        /\ crashes = 0 => taken'[s][r] <= quota[s].limit[r]

DeductedAgain(k) == deducted[k] # None /\ deducted'[k] # deducted[k]

\* No grant brings what a scope was granted today over its limit, and none is
\* made without an active quota; a key that was deducted is not deducted again
\* within the time to live of its entry, unless the entry was lost.
DeductionsGranted ==
    [][/\ \A s \in Scopes, r \in Resources \ Held : GrantsWithin(s, r)
       /\ \A k \in Keys :
             DeductedAgain(k) => now > deducted[k] + TTL \/ k \in forgotten]_vars

===============================================================================
