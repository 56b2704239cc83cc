---------------------------- MODULE PortalAccounts ----------------------------
(***************************************************************************)
(* Accounts and sessions of the web portal (apps/web-portal/src/index.ts): *)
(* signing in with the limit on failed attempts, the change of a password, *)
(* the move of old hashes to scrypt, and the sessions, which are kept in   *)
(* the process and, when there is one, in Redis.  The database holds the   *)
(* user's row.  Queries and Redis calls are awaited, and what was read     *)
(* before is used after them; a call that fails is caught, and the handler *)
(* goes on.  One user and one client address.                              *)
(*                                                                         *)
(* POST /api/users and the administrator step of the setup change no row:  *)
(* their ON CONFLICT (username) names no unique index of the schema, which *)
(* has (org_id, username), so the database refuses the statements.         *)
(***************************************************************************)
EXTENDS Integers, FiniteSets, Functions

CONSTANTS
    Logins,          \* attempts to sign in; the session of one has its name
    Changes,         \* requests to change the password
    Passwords,
    AdminPassword,   \* ADMIN_PASSWORD of the environment
    None,
    MaxAttempts,     \* LOGIN_MAX_ATTEMPTS
    LockoutBase,     \* LOGIN_LOCKOUT_BASE_MS
    LockoutMax,      \* LOGIN_LOCKOUT_MAX_MS
    LoginWindow,     \* LOGIN_WINDOW_MS
    SessionTTL,      \* SESSION_TTL_MS
    MaxSessions,     \* MAX_SESSIONS
    MaxInFlight,     \* bound: attempts under way at once
    MaxPortalTime,   \* bound: ticks
    MaxPortalStarts  \* bound: restarts

ASSUME AccountsAssumption ==
    /\ AdminPassword \in Passwords
    /\ {MaxAttempts, LockoutBase, LockoutMax, SessionTTL, MaxSessions} \subseteq Nat \ {0}
    /\ MaxAttempts > 1
    /\ {LoginWindow, MaxInFlight, MaxPortalTime, MaxPortalStarts} \subseteq Nat

VARIABLES
    portalTime,
    starts,     \* restarts so far
    usesRedis,  \* initRedisSessionStore found Redis at this start
    row,        \* metadata of the user: hash (kind and password), source
    memory,     \* sessionStore: from sessions to when they were created
    redis,      \* ah:session:<id> in Redis: the same
    attempts,   \* loginAttempts of the address: count, lockedUntil, or None
    login,      \* the attempts: where one is, its password, the hash it read
    change,     \* the requests to change the password
    since,      \* history: when the first failure of `attempts' was counted
    wanted,     \* history: the password set last, and by whom
    undone,     \* history: an old hash was moved over a password set since
    steady      \* history: sessions no store failed and no other store served

portalVars == <<portalTime, starts, usesRedis, row, memory, redis, attempts, login,
                change, since, wanted, undone, steady>>

Hash(kind, p) == [kind |-> kind, password |-> p]

DefaultSources == {"default_admin", "local_default_reset", "migration"}

Empty == [s \in {} |-> 0]

Without(sessions, gone) == Restrict(sessions, DOMAIN sessions \ gone)

Idle == [at |-> "idle", password |-> None, read |-> None, opened |-> 0]

AccountsInit ==
    /\ portalTime = 0
    /\ starts = 0
    /\ usesRedis \in BOOLEAN
    /\ \E kind \in {"sha256", "scrypt"} :
          row = [hash |-> Hash(kind, AdminPassword),
                 source |-> IF kind = "scrypt" THEN "default_admin" ELSE "other"]
    /\ memory = Empty
    /\ redis = Empty
    /\ attempts = None
    /\ login = [l \in Logins |-> Idle]
    /\ change = [c \in Changes |-> [at |-> "idle", new |-> None]]
    /\ since = 0
    /\ wanted = [password |-> AdminPassword, by |-> "default"]
    /\ undone = FALSE
    /\ steady = {}

-----------------------------------------------------------------------------
(* The limit on failed attempts *)

\* checkLoginRateLimit.
Blocked == attempts # None /\ portalTime < attempts.until

Least(a, b) == IF a < b THEN a ELSE b

\* LOGIN_LOCKOUT_BASE_MS * Math.pow(2, n).
Doubled[n \in Nat] == IF n = 0 THEN LockoutBase ELSE 2 * Doubled[n - 1]

Lockout(count) == Least(Doubled[count - MaxAttempts], LockoutMax)

MutatedFailed(entry) ==
    IF entry = None THEN [count |-> 1, until |-> 0]
    ELSE [count |-> entry.count + 1,
          until |-> IF entry.count + 1 = MaxAttempts
                    THEN portalTime + Lockout(entry.count + 1) ELSE entry.until]

\* recordLoginFailure: the first failure makes the entry, and from the
\* MaxAttempts-th on each one locks, for twice as long as the one before.
Failed(entry) ==
    IF entry = None THEN [count |-> 1, until |-> 0]
    ELSE [count |-> entry.count + 1,
          until |-> IF entry.count + 1 >= MaxAttempts
                    THEN portalTime + Lockout(entry.count + 1) ELSE entry.until]

\* cleanupLoginAttempts: an entry that never locked is dropped whenever it runs.
Forgotten(entry) ==
    \/ entry.until > 0 /\ portalTime > entry.until + LoginWindow
    \/ entry.until = 0 /\ entry.count < MaxAttempts

-----------------------------------------------------------------------------
(* Sessions *)

Expired(created) == portalTime - created > SessionTTL

\* evictExpiredSessions goes through the sessions of the process; their keys
\* are deleted from Redis, too.
Stale == {s \in DOMAIN memory : Expired(memory[s])}

\* validateSession of a request, when Redis answers: a process that has Redis
\* asks nothing else.
Valid(s) ==
    IF usesRedis THEN s \in DOMAIN redis /\ redis[s] + SessionTTL > portalTime
    ELSE s \in DOMAIN memory /\ ~Expired(memory[s])

\* deleteSessionFromStore.
MutatedDelete(gone, reached) ==
    /\ memory' = Without(memory, gone)
    /\ redis' = redis

Delete(gone, reached) ==
    /\ memory' = Without(memory, gone)
    /\ redis' = IF usesRedis /\ reached THEN Without(redis, gone) ELSE redis

With(sessions, s) ==
    [x \in DOMAIN sessions \cup {s} |-> IF x = s THEN portalTime ELSE sessions[x]]

\* setSessionToStore.
Store(s, reached) ==
    /\ memory' = With(memory, s)
    /\ redis' = IF usesRedis /\ reached THEN With(redis, s) ELSE redis

-----------------------------------------------------------------------------
(* Signing in *)

InFlight == {l \in Logins : login[l].at \in {"asked", "migrating", "seated"}}

\* The request is let through the limit; it waits for its body and the row.
SignIn(l, p) ==
    /\ login[l].at = "idle"
    /\ ~Blocked
    /\ Cardinality(InFlight) < MaxInFlight
    /\ login' = [login EXCEPT ![l] = [Idle EXCEPT !.at = "asked", !.password = p]]
    /\ UNCHANGED <<portalTime, starts, usesRedis, row, memory, redis, attempts, change,
                   since, wanted, undone, steady>>

\* A verified attempt clears the entry and evicts sessions; there must be room
\* now, but its own session comes after another query.
Seat(l, reached) ==
    /\ attempts' = None
    /\ Delete(Stale, reached)
    /\ login' = [login EXCEPT ![l] =
          IF Cardinality(DOMAIN memory \ Stale) >= MaxSessions THEN Idle
          ELSE [login[l] EXCEPT !.at = "seated"]]
    /\ steady' = IF reached THEN steady ELSE steady \ Stale

\* A password that is not verified, the row could not be read included.
Refuse(l) ==
    /\ attempts' = Failed(attempts)
    /\ since' = IF attempts = None THEN portalTime ELSE since
    /\ login' = [login EXCEPT ![l] = Idle]

\* The row is there: verifyPassword.  An old hash is to be moved first.
ReadRow(l) ==
    /\ login[l].at = "asked"
    /\ \/ /\ row.hash.password # login[l].password
          /\ Refuse(l)
          /\ UNCHANGED <<memory, redis, steady>>
       \/ /\ row.hash = Hash("sha256", login[l].password)
          /\ login' = [login EXCEPT ![l].at = "migrating", ![l].read = row.hash]
          /\ UNCHANGED <<memory, redis, attempts, since, steady>>
       \/ /\ row.hash = Hash("scrypt", login[l].password)
          /\ \E reached \in BOOLEAN : Seat(l, reached)
          /\ UNCHANGED since
    /\ UNCHANGED <<portalTime, starts, usesRedis, row, change, wanted, undone>>

\* The query fails.
ReadFails(l) ==
    /\ login[l].at = "asked"
    /\ Refuse(l)
    /\ UNCHANGED <<portalTime, starts, usesRedis, row, memory, redis, change, wanted,
                   undone, steady>>

\* The hash is moved to scrypt, whatever the row holds by now; a failure is
\* ignored.
MigrateHash(l) ==
    /\ login[l].at = "migrating"
    /\ \/ /\ row' = [row EXCEPT !.hash = Hash("scrypt", login[l].password)]
          /\ undone' = (undone \/ row.hash # login[l].read)
       \/ UNCHANGED <<row, undone>>
    /\ \E reached \in BOOLEAN : Seat(l, reached)
    /\ UNCHANGED <<portalTime, starts, usesRedis, change, since, wanted>>

\* The session is kept and its name answered.
OpenSession(l) ==
    /\ login[l].at = "seated"
    /\ login' = [login EXCEPT ![l].at = "in", ![l].opened = portalTime]
    /\ \E reached \in BOOLEAN :
          /\ Store(l, reached)
          /\ steady' = IF reached THEN steady \cup {l} ELSE steady
    /\ UNCHANGED <<portalTime, starts, usesRedis, row, attempts, change, since, wanted, undone>>

\* A request names a session that is over: it is deleted where it was found.
DropSession(s) ==
    /\ \/ /\ usesRedis /\ s \in DOMAIN redis /\ ~Valid(s)
          /\ redis' = Without(redis, {s})
          /\ UNCHANGED memory
       \/ /\ ~usesRedis /\ s \in Stale
          /\ Delete({s}, TRUE)
    /\ UNCHANGED <<portalTime, starts, usesRedis, row, attempts, login, change, since,
                   wanted, undone, steady>>

SignOut(l) ==
    /\ login[l].at = "in"
    /\ login' = [login EXCEPT ![l].at = "out"]
    /\ \E reached \in BOOLEAN :
          /\ Delete({l}, reached)
          /\ steady' = IF reached THEN steady ELSE steady \ {l}
    /\ UNCHANGED <<portalTime, starts, usesRedis, row, attempts, change, since, wanted, undone>>

-----------------------------------------------------------------------------
(* The change of a password *)

\* A request with a session and the old password; or a default administrator,
\* whose password is that of the environment whatever the hash.
AskChange(c, old, new) ==
    /\ change[c].at = "idle"
    /\ \E s \in Logins : Valid(s)
    /\ \/ row.hash.password = old
       \/ row.source \in DefaultSources /\ old = AdminPassword
    /\ change' = [change EXCEPT ![c] = [at |-> "changing", new |-> new]]
    /\ UNCHANGED <<portalTime, starts, usesRedis, row, memory, redis, attempts, login,
                   since, wanted, undone, steady>>

MutatedChanged(p) == [row EXCEPT !.hash = Hash("scrypt", p)]

\* The hash is set and the row no longer counts as a default account's.
Changed(p) == [row EXCEPT !.hash = Hash("scrypt", p), !.source = "user_changed"]

\* The update, answered with success or, when the entry in the audit log
\* fails, with an error; or it fails itself.
ChangePassword(c) ==
    /\ change[c].at = "changing"
    /\ \/ /\ row' = Changed(change[c].new)
          /\ wanted' = [password |-> change[c].new, by |-> "user"]
          /\ undone' = FALSE
       \/ UNCHANGED <<row, wanted, undone>>
    /\ change' = [change EXCEPT ![c].at = "done"]
    /\ UNCHANGED <<portalTime, starts, usesRedis, memory, redis, attempts, login, since, steady>>

-----------------------------------------------------------------------------
(* The process *)

\* The next start: with or without Redis, requests and the process's sessions
\* are gone; ensureDefaultAdmin gives a default account the password of the
\* environment, when the database answers.
RestartPortal ==
    /\ starts < MaxPortalStarts
    /\ starts' = starts + 1
    /\ usesRedis' \in BOOLEAN
    /\ memory' = Empty
    /\ attempts' = None
    /\ login' = [l \in Logins |->
          IF l \in InFlight THEN Idle ELSE login[l]]
    /\ change' = [c \in Changes |->
          IF change[c].at = "changing" THEN [change[c] EXCEPT !.at = "done"] ELSE change[c]]
    /\ steady' = IF usesRedis /\ usesRedis' THEN steady ELSE {}
    /\ \/ /\ row.source \in DefaultSources
          /\ row' = [hash |-> Hash("scrypt", AdminPassword), source |-> "default_admin"]
       \/ UNCHANGED row
    /\ UNCHANGED <<portalTime, redis, since, wanted, undone>>

\* Every five minutes: evictExpiredSessions and cleanupLoginAttempts.
CleanUp ==
    /\ \E reached \in BOOLEAN :
          /\ Delete(Stale, reached)
          /\ steady' = IF reached THEN steady ELSE steady \ Stale
    /\ attempts' = IF attempts = None \/ Forgotten(attempts) THEN None ELSE attempts
    /\ UNCHANGED <<portalTime, starts, usesRedis, row, login, change, since, wanted, undone>>

PassPortalTime ==
    /\ portalTime < MaxPortalTime
    /\ portalTime' = portalTime + 1
    /\ UNCHANGED <<starts, usesRedis, row, memory, redis, attempts, login, change, since,
                   wanted, undone, steady>>

AccountsNext ==
    \/ \E l \in Logins :
          \/ \E p \in Passwords : SignIn(l, p)
          \/ ReadRow(l) \/ ReadFails(l) \/ MigrateHash(l) \/ OpenSession(l) \/ SignOut(l)
          \/ DropSession(l)
    \/ \E c \in Changes :
          \/ \E old, new \in Passwords : AskChange(c, old, new)
          \/ ChangePassword(c)
    \/ RestartPortal \/ CleanUp \/ PassPortalTime

AccountsSpec == AccountsInit /\ [][AccountsNext]_portalVars

-----------------------------------------------------------------------------
(* Properties *)

\* The password is the one set last, which for a default account that nobody
\* changed is the environment's, through restarts and attempts to sign in; but
\* for an attempt that was verified with the old password before a change and
\* moves the old hash after it.
ChangesHold == row.hash.password = wanted.password \/ undone

\* A session that every store heard of, with the same kind of store since, is
\* accepted from the answer to its login to its logout or its end, in Redis
\* through restarts, too, and never after its logout.
SessionsHold ==
    \A s \in steady :
        /\ login[s].at = "out" => ~Valid(s)
        /\ login[s].at = "in" /\ login[s].opened + SessionTTL > portalTime => Valid(s)

\* Attempts under way at once are all that goes over the limit of sessions.
SessionsLimited == Cardinality(DOMAIN memory) <= MaxSessions + MaxInFlight - 1

\* How long the first n lockouts take, each as long as its count says.
Locked[n \in Nat] == IF n = 0 THEN 0 ELSE Locked[n - 1] + Lockout(MaxAttempts + n - 1)

\* How many lockouts end within a time.
LockoutsIn(elapsed) ==
    CHOOSE n \in 0..elapsed :
        Locked[n] <= elapsed /\ \A m \in 0..elapsed : Locked[m] <= elapsed => m <= n

\* Attempts under way at once are all that goes over the limit of failed
\* attempts, of which there is one for every lockout that ended when they come
\* one at a time.
AttemptsLimited ==
    attempts # None =>
        attempts.count <= MaxAttempts - 1
           + MaxInFlight * (1 + LockoutsIn(portalTime - since))

LimitsHold == SessionsLimited /\ AttemptsLimited

===============================================================================
