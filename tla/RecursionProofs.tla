--------------------------- MODULE RecursionProofs ----------------------------
(***************************************************************************)
(* Proofs about what computes by recursion.  Lockouts double and accounts  *)
(* lock again: the web portal keeps the password set last, its sessions and *)
(* the limit on attempts (PortalAccounts).  Entries are recalled piece by  *)
(* piece: the conversation memory recalls what was posted last and nothing *)
(* that was cleared (HermesMemory).  Graphs are searched: both languages   *)
(* accept exactly the sound ones, and order each so that no task comes     *)
(* before one it depends on (TaskGraphs).  For any number of attempts,     *)
(* sessions, changes, restarts, posts, entries and tasks, and whatever the *)
(* tasks depend on.                                                        *)
(*                                                                         *)
(* The prover has no rule of its own for recursion.  That the functions    *)
(* exist, and induction on numbers, come first, from the fact that every   *)
(* set of numbers has a first one.                                         *)
(***************************************************************************)
EXTENDS PortalAccounts, HermesMemory, TaskGraphs,
        FiniteSetTheorems, WellFoundedInduction, TLAPS

-----------------------------------------------------------------------------
(* What is defined by recursion *)

\* A set of numbers has a first one.
LEMMA FirstOf ==
    ASSUME NEW T, T \subseteq Nat, T # {}
    PROVE  \E x \in T : \A y \in T : x <= y
  <1> DEFINE R == OpToRel(<, Nat)
  <1>1. IsWellFoundedOn(R, Nat)
    BY NatLessThanWellFounded
  <1>2. \E x \in T : \A y \in T : <<y, x>> \notin R
    <2> HIDE DEF R
    <2> QED
      BY <1>1, WFMin
  <1>3. ASSUME NEW x \in T, NEW y \in T, <<y, x>> \notin R PROVE x <= y
    BY <1>3 DEF OpToRel
  <1> QED
    BY <1>2, <1>3

\* What holds for zero and goes on holding holds for every number.
LEMMA Inducted ==
    ASSUME NEW T, 0 \in T, \A n \in Nat : n \in T => n + 1 \in T
    PROVE  Nat \subseteq T
  <1> SUFFICES ASSUME NEW n \in Nat, n \notin T PROVE FALSE
    OBVIOUS
  <1> DEFINE R == {m \in Nat : m \notin T}
  <1>1. PICK x \in R : \A y \in R : x <= y
    <2>1. R \subseteq Nat /\ R # {}
      OBVIOUS
    <2> HIDE DEF R
    <2> QED
      BY <2>1, FirstOf
  <1>2. x \in Nat /\ x # 0 /\ x \notin T
    OBVIOUS
  <1>3. x - 1 \in Nat /\ x - 1 < x /\ (x - 1) + 1 = x
    BY <1>2
  <1>4. x - 1 \in T
    BY <1>1, <1>3
  <1> QED
    BY <1>2, <1>3, <1>4

\* A sequence begins with a value and goes on by a rule.
Follows(f, S, a, h) ==
    f \in [Nat -> S] /\ f[0] = a /\ \A n \in Nat : f[n + 1] = h[n][f[n]]

\* There is a function that follows a rule.
LEMMA Recursion ==
    ASSUME NEW S, NEW a \in S, NEW h \in [Nat -> [S -> S]]
    PROVE  \E f : Follows(f, S, a, h)
  <1> DEFINE Upto(n) == {f \in [0..n -> S] : /\ f[0] = a
                                             /\ \A k \in Nat : k < n => f[k + 1] = h[k][f[k]]}
  <1>1. ASSUME NEW n \in Nat, NEW m \in Nat, NEW f \in Upto(n), NEW g \in Upto(m),
               NEW i \in Nat, i <= n, i <= m
        PROVE  f[i] = g[i]
    <2> DEFINE T == {j \in Nat : j <= n /\ j <= m /\ f[j] # g[j]}
    <2>1. CASE T = {}
      BY <1>1, <2>1
    <2>2. CASE T # {}
      <3>1. T \subseteq Nat
        OBVIOUS
      <3>2. PICK x \in T : \A y \in T : x <= y
        <4> HIDE DEF T
        <4> QED
          BY <2>2, <3>1, FirstOf
      <3>3. x # 0
        BY <1>1
      <3>4. x - 1 \in Nat /\ x - 1 < n /\ x - 1 < m /\ x - 1 \notin T
        BY <3>2, <3>3
      <3>5. f[x - 1] = g[x - 1]
        BY <3>4
      <3>6. f[(x - 1) + 1] = h[x - 1][f[x - 1]] /\ g[(x - 1) + 1] = h[x - 1][g[x - 1]]
        BY <1>1, <3>4
      <3> QED
        BY <3>5, <3>6
    <2> QED
      BY <2>1, <2>2
  <1>2. ASSUME NEW n \in Nat PROVE Upto(n) # {}
    <2> DEFINE T == {m \in Nat : Upto(m) = {}}
    <2>1. CASE T = {}
      BY <2>1
    <2>2. CASE T # {}
      <3>1. T \subseteq Nat
        OBVIOUS
      <3>2. PICK x \in T : \A y \in T : x <= y
        <4> HIDE DEF T
        <4> QED
          BY <2>2, <3>1, FirstOf
      <3>3. x # 0
        <4>1. [k \in 0..0 |-> a] \in Upto(0)
          OBVIOUS
        <4>2. Upto(x) = {}
          BY <3>2
        <4> HIDE DEF Upto, T
        <4> QED
          BY <4>1, <4>2
      <3>4. x - 1 \in Nat /\ x - 1 \notin T
        BY <3>2, <3>3
      <3>5. PICK f : f \in Upto(x - 1)
        BY <3>4
      <3> DEFINE g == [k \in 0..x |-> IF k = x THEN h[x - 1][f[x - 1]] ELSE f[k]]
      <3>6. f \in [0..(x - 1) -> S] /\ f[0] = a
            /\ \A k \in Nat : k < x - 1 => f[k + 1] = h[k][f[k]]
        BY <3>5
      <3>7. h[x - 1][f[x - 1]] \in S
        BY <3>4, <3>6
      <3>8. g \in [0..x -> S] /\ g[0] = a
        BY <3>3, <3>4, <3>6, <3>7
      <3>9. ASSUME NEW k \in Nat, k < x PROVE g[k + 1] = h[k][g[k]]
        <4>1. CASE k = x - 1
          BY <3>4, <4>1
        <4>2. CASE k # x - 1
          BY <3>4, <3>6, <3>9, <4>2
        <4> QED
          BY <4>1, <4>2
      <3> HIDE DEF g
      <3>10. g \in Upto(x)
        BY <3>8, <3>9
      <3> QED
        BY <3>10
    <2> QED
      BY <2>1, <2>2
  <1> DEFINE best(n) == CHOOSE f : f \in Upto(n)
             F == [n \in Nat |-> best(n)[n]]
  <1>3. \A n \in Nat : best(n) \in Upto(n)
    BY <1>2
  <1> HIDE DEF best
  <1>4. \A n \in Nat : F[n] = best(n)[n] /\ F[n] \in S
    BY <1>3
  <1>5. F \in [Nat -> S]
    BY <1>4
  <1>6. F[0] = a
    BY <1>3, <1>4
  <1>7. ASSUME NEW n \in Nat PROVE F[n + 1] = h[n][F[n]]
    <2>1. best(n) \in Upto(n) /\ best(n + 1) \in Upto(n + 1) /\ n + 1 \in Nat
      BY <1>3
    <2>2. best(n + 1)[n + 1] = h[n][best(n + 1)[n]]
      BY <2>1
    <2>3. best(n + 1)[n] = best(n)[n]
      <3> HIDE DEF Upto
      <3> QED
        BY <1>1, <2>1
    <2> QED
      BY <1>4, <2>1, <2>2, <2>3
  <1> HIDE DEF F
  <1> QED
    BY <1>5, <1>6, <1>7 DEF Follows

-----------------------------------------------------------------------------
(* Accounts and sessions of the web portal *)

Hashes == [kind : {"sha256", "scrypt"}, password : Passwords]

Login == [at : {"idle", "asked", "migrating", "seated", "in", "out"},
          password : Passwords \cup {None}, read : Hashes \cup {None}, opened : Nat]

Change == [at : {"idle", "changing", "done"}, new : Passwords \cup {None}]

AccountsTypeOK ==
    /\ portalTime \in Nat /\ starts \in Nat /\ usesRedis \in BOOLEAN
    /\ row \in [hash : Hashes, source : DefaultSources \cup {"other", "user_changed"}]
    /\ DOMAIN memory \subseteq Logins /\ memory \in [DOMAIN memory -> Nat]
    /\ DOMAIN redis \subseteq Logins /\ redis \in [DOMAIN redis -> Nat]
    /\ attempts # None => attempts.count \in Nat \ {0}
    /\ login \in [Logins -> Login]
    /\ change \in [Changes -> Change]
    /\ since \in Nat
    /\ wanted \in [password : Passwords, by : {"default", "user"}]
    /\ undone \in BOOLEAN
    /\ steady \subseteq Logins

\* An old hash that is to be moved is that of the password that was given; a
\* request to change the password has one.
HashesRead ==
    /\ \A l \in Logins :
          /\ login[l].at # "idle" => login[l].password \in Passwords
          /\ login[l].at = "migrating" => login[l].read = Hash("sha256", login[l].password)
    /\ \A c \in Changes : change[c].at = "changing" => change[c].new \in Passwords

\* Nobody set the password of a default account.
DefaultKept == row.source \in DefaultSources => wanted.password = AdminPassword

HasSession(l) == login[l].at \in {"in", "out"}

Opened(sessions) ==
    \A s \in DOMAIN sessions : HasSession(s) /\ sessions[s] = login[s].opened

\* The store that requests ask.
StoreAsked == IF usesRedis THEN redis ELSE memory

SteadyKept ==
    \A s \in steady :
        /\ HasSession(s)
        /\ login[s].at = "out" => s \notin DOMAIN StoreAsked
        /\ login[s].at = "in" /\ login[s].opened + SessionTTL > portalTime => s \in DOMAIN StoreAsked

SessionsSound == Opened(memory) /\ Opened(redis) /\ SteadyKept

Seated == {l \in Logins : login[l].at = "seated"}

\* Whoever was let past the limit of sessions and has none yet is under way.
SeatsLimited ==
    /\ IsFiniteSet(InFlight) /\ IsFiniteSet(DOMAIN memory)
    /\ Cardinality(InFlight) <= MaxInFlight
    /\ Cardinality(DOMAIN memory) + Cardinality(Seated) <= MaxSessions + MaxInFlight - 1

AccountsInductive ==
    /\ AccountsTypeOK
    /\ HashesRead /\ DefaultKept /\ ChangesHold
    /\ SessionsSound
    /\ SeatsLimited

LEMMA InitAccounts == AccountsInit => AccountsInductive
  <1> SUFFICES ASSUME AccountsInit PROVE AccountsInductive
    OBVIOUS
  <1> USE AccountsAssumption
  <1>1. DOMAIN memory = {} /\ DOMAIN redis = {} /\ steady = {}
    BY DEF AccountsInit, Empty
  <1>2. Idle \in Login /\ Idle.at = "idle"
    BY DEF Idle, Login
  <1>3. \A l \in Logins : login[l] = Idle
    BY DEF AccountsInit
  <1>4. login \in [Logins -> Login] /\ change \in [Changes -> Change]
    BY <1>2 DEF AccountsInit, Change
  <1>5. /\ row \in [hash : Hashes, source : DefaultSources \cup {"other", "user_changed"}]
        /\ row.hash.password = AdminPassword /\ wanted.password = AdminPassword
        /\ wanted \in [password : Passwords, by : {"default", "user"}]
    BY AccountsAssumption DEF AccountsInit, Hashes, Hash, DefaultSources
  <1>6. memory \in [DOMAIN memory -> Nat] /\ redis \in [DOMAIN redis -> Nat]
    BY DEF AccountsInit, Empty
  <1>7. AccountsTypeOK
    BY <1>1, <1>4, <1>5, <1>6 DEF AccountsInit, AccountsTypeOK
  <1>8. HashesRead /\ DefaultKept /\ ChangesHold
    BY <1>2, <1>3, <1>5 DEF AccountsInit, HashesRead, DefaultKept, ChangesHold
  <1>9. SessionsSound
    BY <1>1 DEF SessionsSound, Opened, SteadyKept
  <1>10. SeatsLimited
    <2>1. InFlight = {} /\ Seated = {}
      BY <1>2, <1>3 DEF InFlight, Seated
    <2> QED
      BY <1>1, <2>1, FS_EmptySet DEF SeatsLimited
  <1> QED
    BY <1>7, <1>8, <1>9, <1>10 DEF AccountsInductive

\* Sessions are known to be as long as those who have one do not change.
LEMMA SessionsRest ==
    ASSUME AccountsInductive, UNCHANGED <<usesRedis, memory, redis, steady>>,
           portalTime' \in Nat, portalTime' >= portalTime,
           \A l \in Logins : HasSession(l) => login'[l] = login[l]
    PROVE  SessionsSound'
  <1>1. AccountsTypeOK /\ Opened(memory) /\ Opened(redis) /\ SteadyKept
    BY DEF AccountsInductive, SessionsSound
  <1>2. \A l \in Logins : HasSession(l) => HasSession(l)'
    BY DEF HasSession
  <1>3. Opened(memory)' /\ Opened(redis)'
    BY <1>1, <1>2 DEF Opened, AccountsTypeOK
  <1>4. StoreAsked' = StoreAsked
    BY DEF StoreAsked
  <1>5. \A s \in steady : login[s].opened \in Nat
    BY <1>1 DEF AccountsTypeOK, Login
  <1>6. SteadyKept'
    BY <1>1, <1>2, <1>4, <1>5, AccountsAssumption DEF SteadyKept, AccountsTypeOK
  <1> QED
    BY <1>3, <1>6 DEF SessionsSound

\* Nor when sessions that are over are deleted from some stores.
LEMMA DropOver ==
    ASSUME AccountsInductive, UNCHANGED <<portalTime, usesRedis>>, steady' \subseteq steady,
           DOMAIN memory' \subseteq DOMAIN memory, DOMAIN redis' \subseteq DOMAIN redis,
           \A s \in DOMAIN memory' : memory'[s] = memory[s],
           \A s \in DOMAIN redis' : redis'[s] = redis[s],
           \A s \in DOMAIN StoreAsked \ DOMAIN StoreAsked' : login[s].opened + SessionTTL <= portalTime,
           \A l \in Logins : HasSession(l) => login'[l] = login[l]
    PROVE  SessionsSound'
  <1>1. AccountsTypeOK /\ Opened(memory) /\ Opened(redis) /\ SteadyKept
    BY DEF AccountsInductive, SessionsSound
  <1>2. \A l \in Logins : HasSession(l) => HasSession(l)'
    BY DEF HasSession
  <1>3. Opened(memory)' /\ Opened(redis)'
    BY <1>1, <1>2 DEF Opened, AccountsTypeOK
  <1>4. DOMAIN StoreAsked' \subseteq DOMAIN StoreAsked
    BY DEF StoreAsked
  <1>5. \A s \in steady : login[s].opened \in Nat
    BY <1>1 DEF AccountsTypeOK, Login
  <1>6. SteadyKept'
    BY <1>1, <1>2, <1>4, <1>5, AccountsAssumption DEF SteadyKept, AccountsTypeOK
  <1> QED
    BY <1>3, <1>6 DEF SessionsSound

\* Fewer sessions and fewer attempts under way.
LEMMA SeatsRest ==
    ASSUME AccountsInductive, InFlight' \subseteq InFlight, Seated' \subseteq Seated,
           DOMAIN memory' \subseteq DOMAIN memory
    PROVE  SeatsLimited'
  <1>1. Seated \subseteq InFlight
    BY DEF Seated, InFlight
  <1>2. SeatsLimited
    BY DEF AccountsInductive
  <1>3. IsFiniteSet(Seated)
    BY <1>1, <1>2, FS_Subset DEF SeatsLimited
  <1>4. /\ IsFiniteSet(InFlight') /\ Cardinality(InFlight') <= Cardinality(InFlight)
        /\ IsFiniteSet(Seated') /\ Cardinality(Seated') <= Cardinality(Seated)
        /\ IsFiniteSet(DOMAIN memory')
        /\ Cardinality(DOMAIN memory') <= Cardinality(DOMAIN memory)
    BY <1>2, <1>3, FS_Subset DEF SeatsLimited
  <1>5. /\ Cardinality(InFlight) \in Nat /\ Cardinality(InFlight') \in Nat
        /\ Cardinality(Seated) \in Nat /\ Cardinality(Seated') \in Nat
        /\ Cardinality(DOMAIN memory) \in Nat /\ Cardinality(DOMAIN memory') \in Nat
    BY <1>2, <1>3, <1>4, FS_CardinalityType DEF SeatsLimited
  <1> QED
    BY <1>2, <1>4, <1>5, AccountsAssumption DEF SeatsLimited


\* A session that is over in the process is over.
LEMMA StaleIsOver ==
    ASSUME AccountsInductive, NEW s \in Stale
    PROVE  s \in DOMAIN memory /\ login[s].opened + SessionTTL <= portalTime
  <1>1. AccountsTypeOK /\ Opened(memory)
    BY DEF AccountsInductive, SessionsSound
  <1>2. s \in DOMAIN memory /\ portalTime - memory[s] > SessionTTL /\ memory[s] \in Nat
    BY <1>1 DEF Stale, Expired, AccountsTypeOK
  <1>3. memory[s] = login[s].opened
    BY <1>1, <1>2 DEF Opened
  <1>4. SessionTTL \in Nat /\ portalTime \in Nat
    BY <1>1, AccountsAssumption DEF AccountsTypeOK
  <1> QED
    BY <1>2, <1>3, <1>4

\* One attempt without a session goes on.
LEMMA LoginStep ==
    ASSUME AccountsInductive, NEW l \in Logins, NEW new \in Login, ~HasSession(l),
           login' = [login EXCEPT ![l] = new]
    PROVE  /\ login' \in [Logins -> Login] /\ login'[l] = new
           /\ \A k \in Logins : k # l => login'[k] = login[k]
           /\ \A k \in Logins : HasSession(k) => login'[k] = login[k]
  BY DEF AccountsInductive, AccountsTypeOK

\* An attempt ends without a session, or waits for its turn with the next one.
LEMMA QuietAttempt ==
    ASSUME AccountsInductive, NEW l \in InFlight, login[l].at # "seated",
           NEW new \in Login, new.at \in {"idle", "asked", "migrating"},
           login' = [login EXCEPT ![l] = new],
           UNCHANGED <<portalTime, usesRedis, memory, redis, steady>>
    PROVE  SessionsSound' /\ SeatsLimited'
  <1>1. l \in Logins /\ ~HasSession(l)
    BY DEF InFlight, HasSession
  <1>2. /\ login'[l] = new /\ \A k \in Logins : k # l => login'[k] = login[k]
        /\ \A k \in Logins : HasSession(k) => login'[k] = login[k]
    BY <1>1, LoginStep
  <1>3. portalTime' \in Nat /\ portalTime' >= portalTime
    BY DEF AccountsInductive, AccountsTypeOK
  <1>4. SessionsSound'
    BY <1>2, <1>3, SessionsRest
  <1>5. InFlight' \subseteq InFlight /\ Seated' \subseteq Seated
    BY <1>2 DEF InFlight, Seated
  <1> QED
    BY <1>4, <1>5, SeatsRest

\* The end of an attempt that is refused.
LEMMA RefuseStep ==
    ASSUME AccountsInductive, NEW l \in Logins, login[l].at = "asked", Refuse(l),
           UNCHANGED <<portalTime, starts, usesRedis, row, memory, redis, change, wanted,
                       undone, steady>>
    PROVE  AccountsInductive'
  <1>0. AccountsTypeOK /\ HashesRead /\ DefaultKept /\ ChangesHold
    BY DEF AccountsInductive
  <1>1. Idle \in Login /\ Idle.at = "idle"
    BY DEF Idle, Login
  <1>2. l \in InFlight /\ ~HasSession(l)
    BY DEF InFlight, HasSession
  <1>3. login' = [login EXCEPT ![l] = Idle]
    BY DEF Refuse
  <1>4. SessionsSound' /\ SeatsLimited'
    BY <1>1, <1>2, <1>3, QuietAttempt
  <1>5. /\ login' \in [Logins -> Login] /\ login'[l] = Idle
        /\ \A k \in Logins : k # l => login'[k] = login[k]
    BY <1>1, <1>2, <1>3, LoginStep
  <1>6. (attempts' # None => attempts'.count \in Nat \ {0}) /\ since' \in Nat
    <2>1. attempts' = Failed(attempts) /\ since' \in {since, portalTime}
      BY DEF Refuse
    <2>2. CASE attempts = None
      BY <1>0, <2>1, <2>2 DEF Failed, AccountsTypeOK
    <2>3. CASE attempts # None
      <3>1. attempts'.count = attempts.count + 1
        BY <2>1, <2>3 DEF Failed
      <3> QED
        BY <1>0, <2>1, <2>3, <3>1 DEF AccountsTypeOK
    <2> QED
      BY <2>2, <2>3
  <1>7. AccountsTypeOK'
    BY <1>0, <1>5, <1>6 DEF AccountsTypeOK
  <1>8. HashesRead'
    BY <1>0, <1>1, <1>5 DEF HashesRead
  <1>9. DefaultKept' /\ ChangesHold'
    BY <1>0 DEF DefaultKept, ChangesHold
  <1> QED
    BY <1>4, <1>7, <1>8, <1>9 DEF AccountsInductive

\* A verified attempt.
LEMMA SeatStep ==
    ASSUME AccountsInductive, NEW l \in InFlight, login[l].at # "seated",
           NEW reached \in BOOLEAN, Seat(l, reached), UNCHANGED <<portalTime, usesRedis>>
    PROVE  /\ attempts' = None
           /\ login' \in [Logins -> Login]
           /\ \A k \in Logins : k # l => login'[k] = login[k]
           /\ login'[l].at = "idle"
                \/ (login'[l].at = "seated" /\ login'[l].password = login[l].password)
           /\ DOMAIN memory' \subseteq Logins /\ memory' \in [DOMAIN memory' -> Nat]
           /\ DOMAIN redis' \subseteq Logins /\ redis' \in [DOMAIN redis' -> Nat]
           /\ steady' \subseteq Logins
           /\ SessionsSound' /\ SeatsLimited'
  <1>0. AccountsTypeOK /\ SessionsSound /\ SeatsLimited
    BY DEF AccountsInductive
  <1> DEFINE full == Cardinality(DOMAIN memory \ Stale) >= MaxSessions
  <1>1. /\ attempts' = None /\ Delete(Stale, reached)
        /\ steady' = IF reached THEN steady ELSE steady \ Stale
        /\ login' = [login EXCEPT ![l] = IF full THEN Idle ELSE [login[l] EXCEPT !.at = "seated"]]
    BY DEF Seat
  <1>2. l \in Logins /\ ~HasSession(l)
    BY DEF InFlight, HasSession
  <1>3. Idle \in Login /\ Idle.at = "idle"
    BY DEF Idle, Login
  <1>4. login[l] \in Login
    BY <1>0, <1>2 DEF AccountsTypeOK
  <1>5. PICK seat : seat = [login[l] EXCEPT !.at = "seated"]
    OBVIOUS
  <1>6. seat \in Login /\ seat.at = "seated" /\ seat.password = login[l].password
    BY <1>4, <1>5 DEF Login
  <1>7. PICK new \in Login : /\ login' = [login EXCEPT ![l] = new]
                             /\ IF full THEN new = Idle ELSE new = seat
    BY <1>1, <1>3, <1>5, <1>6
  <1> HIDE DEF full
  <1>8. /\ login' \in [Logins -> Login] /\ login'[l] = new
        /\ \A k \in Logins : k # l => login'[k] = login[k]
        /\ \A k \in Logins : HasSession(k) => login'[k] = login[k]
    BY <1>2, <1>7, LoginStep
  <1>9. /\ DOMAIN memory' = DOMAIN memory \ Stale
        /\ DOMAIN redis' \in {DOMAIN redis, DOMAIN redis \ Stale}
        /\ \A s \in DOMAIN memory' : memory'[s] = memory[s]
        /\ \A s \in DOMAIN redis' : redis'[s] = redis[s]
        /\ memory' \in [DOMAIN memory' -> Nat] /\ redis' \in [DOMAIN redis' -> Nat]
    BY <1>0, <1>1 DEF Delete, Without, Restrict, AccountsTypeOK
  <1>10. \A s \in DOMAIN StoreAsked \ DOMAIN StoreAsked' : login[s].opened + SessionTTL <= portalTime
    <2>1. \A s \in DOMAIN StoreAsked \ DOMAIN StoreAsked' : s \in Stale
      BY <1>9 DEF StoreAsked
    <2> QED
      BY <1>0, <2>1, StaleIsOver
  <1>11. SessionsSound'
    BY <1>1, <1>8, <1>9, <1>10, DropOver
  <1>12. SeatsLimited'
    <2>1. InFlight' \subseteq InFlight /\ Seated' \subseteq Seated \cup {l}
      BY <1>8 DEF InFlight, Seated
    <2>2. CASE full
      <3>1. Seated' \subseteq Seated
        BY <1>3, <1>7, <1>8, <2>1, <2>2 DEF Seated
      <3> QED
        BY <1>9, <2>1, <3>1, SeatsRest
    <2>3. CASE ~full
      <3>1. /\ IsFiniteSet(InFlight) /\ IsFiniteSet(DOMAIN memory)
            /\ Cardinality(InFlight) <= MaxInFlight
        BY <1>0 DEF SeatsLimited
      <3>2. Seated' \subseteq InFlight'
        BY DEF Seated, InFlight
      <3>3. /\ IsFiniteSet(InFlight') /\ Cardinality(InFlight') <= Cardinality(InFlight)
            /\ IsFiniteSet(DOMAIN memory')
        BY <1>9, <2>1, <3>1, FS_Subset
      <3>4. IsFiniteSet(Seated') /\ Cardinality(Seated') <= Cardinality(InFlight')
        BY <3>2, <3>3, FS_Subset
      <3>5. /\ Cardinality(InFlight) \in Nat /\ Cardinality(InFlight') \in Nat
            /\ Cardinality(Seated') \in Nat /\ Cardinality(DOMAIN memory') \in Nat
        BY <3>1, <3>3, <3>4, FS_CardinalityType
      <3>6. MaxSessions \in Nat \ {0} /\ MaxInFlight \in Nat
        BY AccountsAssumption
      <3>7. Cardinality(DOMAIN memory') < MaxSessions
        BY <1>9, <2>3, <3>5, <3>6 DEF full
      <3> QED
        BY <3>1, <3>3, <3>4, <3>5, <3>6, <3>7 DEF SeatsLimited
    <2> QED
      BY <2>2, <2>3
  <1>13. steady' \subseteq Logins
    BY <1>0, <1>1 DEF AccountsTypeOK
  <1>14. DOMAIN memory' \subseteq Logins /\ DOMAIN redis' \subseteq Logins
    BY <1>0, <1>9 DEF AccountsTypeOK
  <1>15. login'[l].at = "idle"
           \/ (login'[l].at = "seated" /\ login'[l].password = login[l].password)
    BY <1>3, <1>6, <1>7, <1>8
  <1> QED
    BY <1>1, <1>8, <1>9, <1>11, <1>12, <1>13, <1>14, <1>15

\* A verified attempt keeps its session.
LEMMA OpenStep ==
    ASSUME AccountsInductive, NEW l \in Logins, OpenSession(l)
    PROVE  AccountsInductive'
  <1>0. /\ AccountsTypeOK /\ HashesRead /\ DefaultKept /\ ChangesHold
        /\ Opened(memory) /\ Opened(redis) /\ SteadyKept /\ SeatsLimited
    BY DEF AccountsInductive, SessionsSound
  <1>1. /\ login[l].at = "seated" /\ ~HasSession(l)
        /\ login' = [login EXCEPT ![l].at = "in", ![l].opened = portalTime]
        /\ UNCHANGED <<portalTime, starts, usesRedis, row, attempts, change, since, wanted,
                       undone>>
    BY DEF OpenSession, HasSession
  <1>2. PICK reached \in BOOLEAN : /\ Store(l, reached)
                                   /\ steady' = IF reached THEN steady \cup {l} ELSE steady
    BY DEF OpenSession
  <1>3. login[l] \in Login /\ portalTime \in Nat
    BY <1>0 DEF AccountsTypeOK
  <1> DEFINE new == login'[l]
  <1>4. new \in Login /\ new.at = "in" /\ new.password = login[l].password
        /\ new.opened = portalTime
    BY <1>0, <1>1, <1>3 DEF Login, AccountsTypeOK
  <1>5. login' = [login EXCEPT ![l] = new]
    BY <1>0, <1>1 DEF AccountsTypeOK
  <1> HIDE DEF new
  <1>6. /\ login' \in [Logins -> Login] /\ login'[l] = new
        /\ \A k \in Logins : k # l => login'[k] = login[k]
    BY <1>1, <1>4, <1>5, LoginStep
  <1>7. /\ DOMAIN memory' = DOMAIN memory \cup {l} /\ memory'[l] = portalTime
        /\ \A s \in DOMAIN memory : s # l => memory'[s] = memory[s]
        /\ memory' \in [DOMAIN memory' -> Nat]
    BY <1>0, <1>2, <1>3 DEF Store, With, AccountsTypeOK
  <1>8. /\ DOMAIN redis' \in {DOMAIN redis, DOMAIN redis \cup {l}}
        /\ usesRedis /\ reached => l \in DOMAIN redis'
        /\ \A s \in DOMAIN redis : s # l => redis'[s] = redis[s]
        /\ l \notin DOMAIN redis => l \notin DOMAIN redis' \/ redis'[l] = portalTime
        /\ redis' \in [DOMAIN redis' -> Nat]
    BY <1>0, <1>2, <1>3 DEF Store, With, AccountsTypeOK
  <1>9. l \notin DOMAIN memory /\ l \notin DOMAIN redis /\ l \notin steady
    BY <1>0, <1>1 DEF Opened, SteadyKept
  <1>10. AccountsTypeOK'
    <2>1. /\ DOMAIN memory' \subseteq Logins /\ DOMAIN redis' \subseteq Logins
          /\ steady' \subseteq Logins
      BY <1>0, <1>2, <1>7, <1>8 DEF AccountsTypeOK
    <2> QED
      BY <1>0, <1>1, <1>6, <1>7, <1>8, <2>1 DEF AccountsTypeOK
  <1>11. HashesRead' /\ DefaultKept' /\ ChangesHold'
    <2>1. HashesRead'
      BY <1>0, <1>1, <1>4, <1>6 DEF HashesRead
    <2> QED
      BY <1>0, <1>1, <2>1 DEF DefaultKept, ChangesHold
  <1>12. HasSession(l)' /\ \A k \in Logins : HasSession(k) => k # l /\ HasSession(k)'
    BY <1>1, <1>4, <1>6 DEF HasSession
  <1>13. Opened(memory)' /\ Opened(redis)'
    <2>1. \A s \in DOMAIN memory' : s = l \/ s \in DOMAIN memory
      BY <1>7
    <2>2. \A s \in DOMAIN redis' : s = l \/ s \in DOMAIN redis
      BY <1>8
    <2>3. DOMAIN memory \subseteq Logins /\ DOMAIN redis \subseteq Logins
      BY <1>0 DEF AccountsTypeOK
    <2>4. Opened(memory)'
      BY <1>0, <1>4, <1>6, <1>7, <1>12, <2>1, <2>3 DEF Opened
    <2>5. Opened(redis)'
      BY <1>0, <1>4, <1>6, <1>8, <1>9, <1>12, <2>2, <2>3 DEF Opened
    <2> QED
      BY <2>4, <2>5
  <1>14. SteadyKept'
    <2>1. \A s \in DOMAIN StoreAsked' : s = l \/ s \in DOMAIN StoreAsked
      BY <1>1, <1>7, <1>8 DEF StoreAsked
    <2>2. \A s \in DOMAIN StoreAsked : s \in DOMAIN StoreAsked'
      BY <1>1, <1>7, <1>8 DEF StoreAsked
    <2>3. reached => l \in DOMAIN StoreAsked'
      BY <1>1, <1>7, <1>8 DEF StoreAsked
    <2>4. ASSUME NEW s \in steady', s # l
          PROVE  /\ HasSession(s)'
                 /\ login'[s].at = "out" => s \notin DOMAIN StoreAsked'
                 /\ login'[s].at = "in" /\ login'[s].opened + SessionTTL > portalTime' =>
                       s \in DOMAIN StoreAsked'
      <3>1. s \in steady /\ s \in Logins
        BY <1>0, <1>2, <2>4 DEF AccountsTypeOK
      <3>2. login'[s] = login[s] /\ HasSession(s) /\ HasSession(s)'
        BY <1>0, <1>6, <1>12, <2>4, <3>1 DEF SteadyKept
      <3> QED
        BY <1>0, <1>1, <2>1, <2>2, <2>4, <3>1, <3>2 DEF SteadyKept
    <2>5. l \in steady' => reached
      BY <1>2, <1>9
    <2> QED
      BY <1>4, <1>6, <1>12, <2>3, <2>4, <2>5 DEF SteadyKept
  <1>15. SeatsLimited'
    <2>1. InFlight' = InFlight \ {l} /\ Seated' = Seated \ {l} /\ l \in Seated
          /\ Seated \subseteq InFlight
      BY <1>1, <1>4, <1>6 DEF InFlight, Seated
    <2>2. /\ IsFiniteSet(InFlight) /\ IsFiniteSet(DOMAIN memory) /\ IsFiniteSet(Seated)
      BY <1>0, <2>1, FS_Subset DEF SeatsLimited
    <2>3. /\ IsFiniteSet(InFlight') /\ Cardinality(InFlight') <= Cardinality(InFlight)
          /\ Cardinality(InFlight) \in Nat /\ Cardinality(InFlight') \in Nat
      BY <2>1, <2>2, FS_Subset, FS_CardinalityType
    <2>4. Cardinality(Seated') = Cardinality(Seated) - 1 /\ Cardinality(Seated) \in Nat
      BY <2>1, <2>2, FS_RemoveElement, FS_CardinalityType
    <2>5. /\ IsFiniteSet(DOMAIN memory')
          /\ Cardinality(DOMAIN memory') = Cardinality(DOMAIN memory) + 1
          /\ Cardinality(DOMAIN memory) \in Nat
      BY <1>7, <1>9, <2>2, FS_AddElement, FS_CardinalityType
    <2> QED
      BY <1>0, <2>3, <2>4, <2>5, AccountsAssumption DEF SeatsLimited
  <1> QED
    BY <1>10, <1>11, <1>13, <1>14, <1>15 DEF AccountsInductive, SessionsSound

\* A session ends where it can be reached.
LEMMA SignOutStep ==
    ASSUME AccountsInductive, NEW l \in Logins, SignOut(l)
    PROVE  AccountsInductive'
  <1>0. /\ AccountsTypeOK /\ HashesRead /\ DefaultKept /\ ChangesHold
        /\ Opened(memory) /\ Opened(redis) /\ SteadyKept /\ SeatsLimited
    BY DEF AccountsInductive, SessionsSound
  <1>1. /\ login[l].at = "in"
        /\ login' = [login EXCEPT ![l].at = "out"]
        /\ UNCHANGED <<portalTime, starts, usesRedis, row, attempts, change, since, wanted,
                       undone>>
    BY DEF SignOut
  <1>2. PICK reached \in BOOLEAN : /\ Delete({l}, reached)
                                   /\ steady' = IF reached THEN steady ELSE steady \ {l}
    BY DEF SignOut
  <1>3. login[l] \in Login
    BY <1>0 DEF AccountsTypeOK
  <1> DEFINE new == login'[l]
  <1>4. new \in Login /\ new.at = "out" /\ new.password = login[l].password
        /\ new.opened = login[l].opened
    BY <1>0, <1>1, <1>3 DEF Login, AccountsTypeOK
  <1>5. login' = [login EXCEPT ![l] = new]
    BY <1>0, <1>1 DEF AccountsTypeOK
  <1> HIDE DEF new
  <1>6. /\ login' \in [Logins -> Login] /\ login'[l] = new
        /\ \A k \in Logins : k # l => login'[k] = login[k]
    BY <1>0, <1>4, <1>5 DEF AccountsTypeOK
  <1>7. /\ DOMAIN memory' = DOMAIN memory \ {l}
        /\ DOMAIN redis' \in {DOMAIN redis, DOMAIN redis \ {l}}
        /\ usesRedis /\ reached => DOMAIN redis' = DOMAIN redis \ {l}
        /\ \A s \in DOMAIN memory' : memory'[s] = memory[s]
        /\ \A s \in DOMAIN redis' : redis'[s] = redis[s]
        /\ memory' \in [DOMAIN memory' -> Nat] /\ redis' \in [DOMAIN redis' -> Nat]
    BY <1>0, <1>2 DEF Delete, Without, Restrict, AccountsTypeOK
  <1>8. AccountsTypeOK'
    <2>1. /\ DOMAIN memory' \subseteq Logins /\ DOMAIN redis' \subseteq Logins
          /\ steady' \subseteq Logins
      BY <1>0, <1>2, <1>7 DEF AccountsTypeOK
    <2> QED
      BY <1>0, <1>1, <1>6, <1>7, <2>1 DEF AccountsTypeOK
  <1>9. HashesRead' /\ DefaultKept' /\ ChangesHold'
    <2>1. HashesRead'
      BY <1>0, <1>1, <1>4, <1>6 DEF HashesRead
    <2> QED
      BY <1>0, <1>1, <2>1 DEF DefaultKept, ChangesHold
  <1>10. \A k \in Logins : HasSession(k) => HasSession(k)' /\ login'[k].opened = login[k].opened
    BY <1>4, <1>6 DEF HasSession
  <1>11. Opened(memory)' /\ Opened(redis)'
    <2>1. DOMAIN memory \subseteq Logins /\ DOMAIN redis \subseteq Logins
      BY <1>0 DEF AccountsTypeOK
    <2>2. DOMAIN memory' \subseteq DOMAIN memory /\ DOMAIN redis' \subseteq DOMAIN redis
      BY <1>7
    <2> QED
      BY <1>0, <1>7, <1>10, <2>1, <2>2 DEF Opened
  <1>12. SteadyKept'
    <2>1. /\ DOMAIN StoreAsked' \subseteq DOMAIN StoreAsked
          /\ \A s \in DOMAIN StoreAsked : s = l \/ s \in DOMAIN StoreAsked'
          /\ reached => l \notin DOMAIN StoreAsked'
      BY <1>1, <1>7 DEF StoreAsked
    <2>2. ASSUME NEW s \in steady'
          PROVE  /\ HasSession(s)'
                 /\ login'[s].at = "out" => s \notin DOMAIN StoreAsked'
                 /\ login'[s].at = "in" /\ login'[s].opened + SessionTTL > portalTime' =>
                       s \in DOMAIN StoreAsked'
      <3>1. s \in steady /\ s \in Logins /\ (s = l => reached)
        BY <1>0, <1>2 DEF AccountsTypeOK
      <3>2. HasSession(s)'
        BY <1>0, <1>10, <3>1 DEF SteadyKept
      <3>3. CASE s = l
        BY <1>4, <1>6, <2>1, <3>1, <3>2, <3>3
      <3>4. CASE s # l
        BY <1>0, <1>1, <1>6, <2>1, <3>1, <3>2, <3>4 DEF SteadyKept
      <3> QED
        BY <3>3, <3>4
    <2> QED
      BY <2>2 DEF SteadyKept
  <1>13. InFlight' \subseteq InFlight /\ Seated' \subseteq Seated
    BY <1>4, <1>6 DEF InFlight, Seated
  <1> QED
    BY <1>7, <1>8, <1>9, <1>11, <1>12, <1>13, SeatsRest DEF AccountsInductive, SessionsSound

\* What changes neither an attempt nor a session.
LEMMA AttemptsRest ==
    ASSUME AccountsInductive,
           UNCHANGED <<portalTime, usesRedis, memory, redis, login, steady>>
    PROVE  SessionsSound' /\ SeatsLimited'
  <1>1. portalTime' \in Nat /\ portalTime' >= portalTime
    BY DEF AccountsInductive, AccountsTypeOK
  <1>2. InFlight' = InFlight /\ Seated' = Seated
    BY DEF InFlight, Seated
  <1> QED
    BY <1>1, <1>2, SessionsRest, SeatsRest

\* Sessions that are over are deleted, here or there.
LEMMA DropStep ==
    ASSUME AccountsInductive, NEW gone \in SUBSET Stale,
           NEW other \in SUBSET {s \in DOMAIN redis : login[s].opened + SessionTTL <= portalTime},
           memory' = Without(memory, gone),
           redis' \in {redis, Without(redis, gone), Without(redis, other)},
           steady' \subseteq steady, UNCHANGED <<portalTime, usesRedis, login>>
    PROVE  /\ DOMAIN memory' \subseteq Logins /\ memory' \in [DOMAIN memory' -> Nat]
           /\ DOMAIN redis' \subseteq Logins /\ redis' \in [DOMAIN redis' -> Nat]
           /\ SessionsSound' /\ SeatsLimited'
  <1>1. AccountsTypeOK
    BY DEF AccountsInductive
  <1>2. /\ DOMAIN memory' = DOMAIN memory \ gone
        /\ DOMAIN redis' \in {DOMAIN redis, DOMAIN redis \ gone, DOMAIN redis \ other}
        /\ \A s \in DOMAIN memory' : memory'[s] = memory[s]
        /\ \A s \in DOMAIN redis' : redis'[s] = redis[s]
        /\ memory' \in [DOMAIN memory' -> Nat] /\ redis' \in [DOMAIN redis' -> Nat]
    BY <1>1 DEF Without, Restrict, AccountsTypeOK
  <1>3. \A s \in DOMAIN StoreAsked \ DOMAIN StoreAsked' : s \in gone \/ s \in other
    BY <1>2 DEF StoreAsked
  <1>4. \A s \in DOMAIN StoreAsked \ DOMAIN StoreAsked' : login[s].opened + SessionTTL <= portalTime
    BY <1>3, StaleIsOver
  <1>5. SessionsSound'
    BY <1>2, <1>4, DropOver
  <1>6. InFlight' = InFlight /\ Seated' = Seated
    BY DEF InFlight, Seated
  <1>7. SeatsLimited'
    BY <1>2, <1>6, SeatsRest
  <1> QED
    BY <1>1, <1>2, <1>5, <1>7 DEF AccountsTypeOK

LEMMA NextAccounts == AccountsInductive /\ [AccountsNext]_portalVars => AccountsInductive'
  <1> SUFFICES ASSUME AccountsInductive, [AccountsNext]_portalVars PROVE AccountsInductive'
    OBVIOUS
  <1>0. AccountsTypeOK /\ HashesRead /\ DefaultKept /\ ChangesHold /\ SessionsSound /\ SeatsLimited
    BY DEF AccountsInductive
  <1>1. ASSUME NEW l \in Logins, NEW p \in Passwords, SignIn(l, p) PROVE AccountsInductive'
    <2>1. /\ login[l].at = "idle" /\ Cardinality(InFlight) < MaxInFlight
          /\ UNCHANGED <<portalTime, starts, usesRedis, row, memory, redis, attempts, change,
                         since, wanted, undone, steady>>
      BY <1>1 DEF SignIn
    <2>2. PICK new : new = [Idle EXCEPT !.at = "asked", !.password = p]
      OBVIOUS
    <2>3. new \in Login /\ new.at = "asked" /\ new.password = p
      BY <2>2 DEF Idle, Login
    <2>4. login' = [login EXCEPT ![l] = new]
      BY <1>1, <2>2 DEF SignIn
    <2>5. ~HasSession(l)
      BY <2>1 DEF HasSession
    <2>6. /\ login' \in [Logins -> Login] /\ login'[l] = new
          /\ \A k \in Logins : k # l => login'[k] = login[k]
          /\ \A k \in Logins : HasSession(k) => login'[k] = login[k]
      BY <2>3, <2>4, <2>5, LoginStep
    <2>7. AccountsTypeOK'
      BY <1>0, <2>1, <2>6 DEF AccountsTypeOK
    <2>8. HashesRead'
      BY <1>0, <2>1, <2>3, <2>6 DEF HashesRead
    <2>9. DefaultKept' /\ ChangesHold'
      BY <1>0, <2>1 DEF DefaultKept, ChangesHold
    <2>10. portalTime' \in Nat /\ portalTime' >= portalTime
      BY <1>0, <2>1 DEF AccountsTypeOK
    <2>11. SessionsSound'
      BY <2>1, <2>6, <2>10, SessionsRest
    <2>12. SeatsLimited'
      <3>1. InFlight' = InFlight \cup {l} /\ Seated' = Seated
        BY <2>1, <2>3, <2>6 DEF InFlight, Seated
      <3>2. IsFiniteSet(InFlight) /\ Cardinality(InFlight) \in Nat
        BY <1>0, FS_CardinalityType DEF SeatsLimited
      <3>3. /\ IsFiniteSet(InFlight \cup {l})
            /\ Cardinality(InFlight \cup {l}) <= Cardinality(InFlight) + 1
            /\ Cardinality(InFlight \cup {l}) \in Nat
        <4>1. /\ IsFiniteSet(InFlight \cup {l})
              /\ Cardinality(InFlight \cup {l}) \in
                    {Cardinality(InFlight), Cardinality(InFlight) + 1}
          BY <3>2, FS_AddElement
        <4> QED
          BY <3>2, <4>1
      <3> QED
        BY <1>0, <2>1, <3>1, <3>2, <3>3, AccountsAssumption DEF SeatsLimited
    <2> QED
      BY <2>7, <2>8, <2>9, <2>11, <2>12 DEF AccountsInductive
  <1>2. ASSUME NEW l \in Logins, ReadRow(l) PROVE AccountsInductive'
    <2>1. /\ login[l].at = "asked"
          /\ UNCHANGED <<portalTime, starts, usesRedis, row, change, wanted, undone>>
      BY <1>2 DEF ReadRow
    <2>2. l \in InFlight
      BY <2>1 DEF InFlight
    <2>3. CASE Refuse(l) /\ UNCHANGED <<memory, redis, steady>>
      BY <2>1, <2>3, RefuseStep
    <2>4. CASE /\ row.hash = Hash("sha256", login[l].password)
               /\ login' = [login EXCEPT ![l].at = "migrating", ![l].read = row.hash]
               /\ UNCHANGED <<memory, redis, attempts, since, steady>>
      <3>1. login[l] \in Login /\ row.hash \in Hashes
        BY <1>0 DEF AccountsTypeOK
      <3> DEFINE new == login'[l]
      <3>2. /\ new \in Login /\ new.at = "migrating" /\ new.password = login[l].password
            /\ new.read = row.hash
        BY <1>0, <2>4, <3>1 DEF Login, AccountsTypeOK
      <3>3. login' = [login EXCEPT ![l] = new]
        BY <1>0, <2>4 DEF AccountsTypeOK
      <3> HIDE DEF new
      <3>4. ~HasSession(l)
        BY <2>1 DEF HasSession
      <3>5. /\ login' \in [Logins -> Login] /\ login'[l] = new
            /\ \A k \in Logins : k # l => login'[k] = login[k]
        BY <3>2, <3>3, <3>4, LoginStep
      <3>6. SessionsSound' /\ SeatsLimited'
        BY <2>1, <2>2, <2>4, <3>2, <3>3, QuietAttempt
      <3>7. AccountsTypeOK'
        BY <1>0, <2>1, <2>4, <3>5 DEF AccountsTypeOK
      <3>8. HashesRead'
        BY <1>0, <2>1, <2>4, <3>2, <3>5 DEF HashesRead
      <3>9. DefaultKept' /\ ChangesHold'
        BY <1>0, <2>1 DEF DefaultKept, ChangesHold
      <3> QED
        BY <3>6, <3>7, <3>8, <3>9 DEF AccountsInductive
    <2>5. ASSUME NEW reached \in BOOLEAN, Seat(l, reached), since' = since
          PROVE  AccountsInductive'
      <3>1. /\ attempts' = None
            /\ login' \in [Logins -> Login]
            /\ \A k \in Logins : k # l => login'[k] = login[k]
            /\ login'[l].at = "idle"
                 \/ (login'[l].at = "seated" /\ login'[l].password = login[l].password)
            /\ DOMAIN memory' \subseteq Logins /\ memory' \in [DOMAIN memory' -> Nat]
            /\ DOMAIN redis' \subseteq Logins /\ redis' \in [DOMAIN redis' -> Nat]
            /\ steady' \subseteq Logins
            /\ SessionsSound' /\ SeatsLimited'
        BY <2>1, <2>2, <2>5, SeatStep
      <3>2. AccountsTypeOK'
        BY <1>0, <2>1, <2>5, <3>1 DEF AccountsTypeOK
      <3>3. HashesRead'
        BY <1>0, <2>1, <3>1 DEF HashesRead
      <3>4. DefaultKept' /\ ChangesHold'
        BY <1>0, <2>1 DEF DefaultKept, ChangesHold
      <3> QED
        BY <3>1, <3>2, <3>3, <3>4 DEF AccountsInductive
    <2> QED
      BY <1>2, <2>3, <2>4, <2>5 DEF ReadRow
  <1>3. ASSUME NEW l \in Logins, ReadFails(l) PROVE AccountsInductive'
    BY <1>3, RefuseStep DEF ReadFails
  <1>4. ASSUME NEW l \in Logins, MigrateHash(l) PROVE AccountsInductive'
    <2>1. /\ login[l].at = "migrating"
          /\ UNCHANGED <<portalTime, starts, usesRedis, change, since, wanted>>
      BY <1>4 DEF MigrateHash
    <2>2. l \in InFlight
      BY <2>1 DEF InFlight
    <2>3. PICK reached \in BOOLEAN : Seat(l, reached)
      BY <1>4 DEF MigrateHash
    <2>4. /\ attempts' = None
          /\ login' \in [Logins -> Login]
          /\ \A k \in Logins : k # l => login'[k] = login[k]
          /\ login'[l].at = "idle"
               \/ (login'[l].at = "seated" /\ login'[l].password = login[l].password)
          /\ DOMAIN memory' \subseteq Logins /\ memory' \in [DOMAIN memory' -> Nat]
          /\ DOMAIN redis' \subseteq Logins /\ redis' \in [DOMAIN redis' -> Nat]
          /\ steady' \subseteq Logins
          /\ SessionsSound' /\ SeatsLimited'
      BY <2>1, <2>2, <2>3, SeatStep
    <2>5. /\ login[l].password \in Passwords
          /\ login[l].read = Hash("sha256", login[l].password)
      BY <1>0, <2>1 DEF HashesRead
    <2>6. CASE UNCHANGED <<row, undone>>
      <3>1. AccountsTypeOK'
        BY <1>0, <2>1, <2>4, <2>6 DEF AccountsTypeOK
      <3>2. HashesRead'
        BY <1>0, <2>1, <2>4, <2>5 DEF HashesRead
      <3>3. DefaultKept' /\ ChangesHold'
        BY <1>0, <2>1, <2>6 DEF DefaultKept, ChangesHold
      <3> QED
        BY <2>4, <3>1, <3>2, <3>3 DEF AccountsInductive
    <2>7. CASE /\ row' = [row EXCEPT !.hash = Hash("scrypt", login[l].password)]
               /\ undone' = (undone \/ row.hash # login[l].read)
      <3>1. Hash("scrypt", login[l].password) \in Hashes
            /\ Hash("scrypt", login[l].password).password = login[l].password
        BY <2>5 DEF Hash, Hashes
      <3>2. /\ row' \in [hash : Hashes, source : DefaultSources \cup {"other", "user_changed"}]
            /\ row'.hash.password = login[l].password /\ row'.source = row.source
        BY <1>0, <2>7, <3>1 DEF AccountsTypeOK
      <3>3. undone' \in BOOLEAN
        BY <1>0, <2>7 DEF AccountsTypeOK
      <3>4. AccountsTypeOK'
        BY <1>0, <2>1, <2>4, <3>2, <3>3 DEF AccountsTypeOK
      <3>5. HashesRead'
        BY <1>0, <2>1, <2>4, <2>5 DEF HashesRead
      <3>6. DefaultKept'
        BY <1>0, <2>1, <3>2 DEF DefaultKept
      <3>7. ChangesHold'
        <4>1. CASE row.hash = login[l].read
          <5>1. row.hash.password = login[l].password
            BY <2>5, <4>1 DEF Hash
          <5> QED
            BY <1>0, <2>1, <2>7, <3>2, <4>1, <5>1 DEF ChangesHold
        <4>2. CASE row.hash # login[l].read
          BY <2>7, <4>2 DEF ChangesHold
        <4> QED
          BY <4>1, <4>2
      <3> QED
        BY <2>4, <3>4, <3>5, <3>6, <3>7 DEF AccountsInductive
    <2> QED
      BY <1>4, <2>6, <2>7 DEF MigrateHash
  <1>5. ASSUME NEW s \in Logins, DropSession(s) PROVE AccountsInductive'
    <2>1. UNCHANGED <<portalTime, starts, usesRedis, row, attempts, login, change, since,
                      wanted, undone, steady>>
      BY <1>5 DEF DropSession
    <2>2. Opened(memory) /\ Opened(redis) /\ steady' \subseteq steady
      BY <1>0, <2>1 DEF SessionsSound
    <2> DEFINE over == {x \in DOMAIN redis : login[x].opened + SessionTTL <= portalTime}
    <2>3. /\ DOMAIN memory' \subseteq Logins /\ memory' \in [DOMAIN memory' -> Nat]
          /\ DOMAIN redis' \subseteq Logins /\ redis' \in [DOMAIN redis' -> Nat]
          /\ SessionsSound' /\ SeatsLimited'
      <3>1. CASE /\ usesRedis /\ s \in DOMAIN redis /\ ~Valid(s)
                 /\ redis' = Without(redis, {s}) /\ memory' = memory
        <4>1. s \in over
          <5>1. redis[s] = login[s].opened /\ redis[s] \in Nat
            BY <1>0, <2>2, <3>1 DEF Opened, AccountsTypeOK
          <5>2. SessionTTL \in Nat /\ portalTime \in Nat
            BY <1>0, AccountsAssumption DEF AccountsTypeOK
          <5> QED
            BY <3>1, <5>1, <5>2 DEF Valid
        <4>2. {s} \in SUBSET over /\ {} \in SUBSET Stale
          BY <4>1
        <4>3. memory' = Without(memory, {})
          BY <1>0, <3>1 DEF Without, Restrict, AccountsTypeOK
        <4> QED
          BY <2>1, <2>2, <3>1, <4>2, <4>3, DropStep
      <3>2. CASE ~usesRedis /\ s \in Stale /\ Delete({s}, TRUE)
        <4>1. {s} \in SUBSET Stale /\ {} \in SUBSET over
          BY <3>2
        <4>2. memory' = Without(memory, {s}) /\ redis' = redis
          BY <3>2 DEF Delete
        <4> QED
          BY <2>1, <2>2, <4>1, <4>2, DropStep
      <3> QED
        BY <1>5, <3>1, <3>2 DEF DropSession
    <2>4. AccountsTypeOK'
      BY <1>0, <2>1, <2>3 DEF AccountsTypeOK
    <2>5. HashesRead' /\ DefaultKept' /\ ChangesHold'
      BY <1>0, <2>1 DEF HashesRead, DefaultKept, ChangesHold
    <2> QED
      BY <2>3, <2>4, <2>5 DEF AccountsInductive
  <1>6. CASE CleanUp
    <2>1. /\ UNCHANGED <<portalTime, starts, usesRedis, row, login, change, since, wanted, undone>>
          /\ attempts' \in {None, attempts}
      BY <1>6 DEF CleanUp
    <2>2. PICK gone : gone = Stale
      OBVIOUS
    <2>3. /\ memory' = Without(memory, gone) /\ redis' \in {redis, Without(redis, gone)}
          /\ steady' \subseteq steady /\ gone \in SUBSET Stale
      BY <1>6, <2>2 DEF CleanUp, Delete
    <2> DEFINE over == {x \in DOMAIN redis : login[x].opened + SessionTTL <= portalTime}
    <2>4. {} \in SUBSET over
      OBVIOUS
    <2>5. /\ DOMAIN memory' \subseteq Logins /\ memory' \in [DOMAIN memory' -> Nat]
          /\ DOMAIN redis' \subseteq Logins /\ redis' \in [DOMAIN redis' -> Nat]
          /\ SessionsSound' /\ SeatsLimited'
      BY <2>1, <2>3, <2>4, DropStep
    <2>6. steady' \subseteq Logins
      BY <1>0, <2>3 DEF AccountsTypeOK
    <2>7. AccountsTypeOK'
      BY <1>0, <2>1, <2>5, <2>6 DEF AccountsTypeOK
    <2>8. HashesRead' /\ DefaultKept' /\ ChangesHold'
      BY <1>0, <2>1 DEF HashesRead, DefaultKept, ChangesHold
    <2> QED
      BY <2>5, <2>7, <2>8 DEF AccountsInductive
  <1>7. ASSUME NEW c \in Changes, NEW old \in Passwords, NEW new \in Passwords,
               AskChange(c, old, new)
        PROVE  AccountsInductive'
    <2>1. /\ change' = [change EXCEPT ![c] = [at |-> "changing", new |-> new]]
          /\ UNCHANGED <<portalTime, starts, usesRedis, row, memory, redis, attempts, login,
                         since, wanted, undone, steady>>
      BY <1>7 DEF AskChange
    <2>2. AccountsTypeOK'
      BY <1>0, <2>1 DEF AccountsTypeOK, Change
    <2>3. HashesRead'
      BY <1>0, <2>1 DEF HashesRead, AccountsTypeOK
    <2>4. DefaultKept' /\ ChangesHold'
      BY <1>0, <2>1 DEF DefaultKept, ChangesHold
    <2> QED
      BY <2>1, <2>2, <2>3, <2>4, AttemptsRest DEF AccountsInductive
  <1>8. ASSUME NEW c \in Changes, ChangePassword(c) PROVE AccountsInductive'
    <2>1. /\ change[c].at = "changing"
          /\ change' = [change EXCEPT ![c].at = "done"]
          /\ UNCHANGED <<portalTime, starts, usesRedis, memory, redis, attempts, login, since,
                         steady>>
      BY <1>8 DEF ChangePassword
    <2>2. change[c].new \in Passwords
      BY <1>0, <2>1 DEF HashesRead
    <2>3. /\ change' \in [Changes -> Change] /\ change'[c].at = "done"
          /\ \A d \in Changes : d # c => change'[d] = change[d]
      BY <1>0, <2>1 DEF AccountsTypeOK, Change
    <2>4. HashesRead'
      BY <1>0, <2>1, <2>3 DEF HashesRead
    <2>5. CASE UNCHANGED <<row, wanted, undone>>
      <3>1. AccountsTypeOK'
        BY <1>0, <2>1, <2>3, <2>5 DEF AccountsTypeOK
      <3>2. DefaultKept' /\ ChangesHold'
        BY <1>0, <2>5 DEF DefaultKept, ChangesHold
      <3> QED
        BY <2>1, <2>4, <3>1, <3>2, AttemptsRest DEF AccountsInductive
    <2>6. CASE /\ row' = Changed(change[c].new)
               /\ wanted' = [password |-> change[c].new, by |-> "user"]
               /\ undone' = FALSE
      <3>1. Hash("scrypt", change[c].new) \in Hashes
            /\ Hash("scrypt", change[c].new).password = change[c].new
        BY <2>2 DEF Hash, Hashes
      <3>2. /\ row' \in [hash : Hashes, source : DefaultSources \cup {"other", "user_changed"}]
            /\ row'.hash.password = change[c].new /\ row'.source = "user_changed"
        BY <1>0, <2>6, <3>1 DEF AccountsTypeOK, Changed
      <3>3. /\ wanted' \in [password : Passwords, by : {"default", "user"}]
            /\ wanted'.password = change[c].new
        BY <2>2, <2>6
      <3>4. AccountsTypeOK'
        BY <1>0, <2>1, <2>3, <2>6, <3>2, <3>3 DEF AccountsTypeOK
      <3>5. DefaultKept' /\ ChangesHold'
        BY <3>2, <3>3 DEF DefaultKept, ChangesHold, DefaultSources
      <3> QED
        BY <2>1, <2>4, <3>4, <3>5, AttemptsRest DEF AccountsInductive
    <2> QED
      BY <1>8, <2>5, <2>6 DEF ChangePassword
  <1>9. CASE RestartPortal
    <2>1. /\ starts' = starts + 1 /\ usesRedis' \in BOOLEAN /\ memory' = Empty /\ attempts' = None
          /\ login' = [l \in Logins |-> IF l \in InFlight THEN Idle ELSE login[l]]
          /\ change' = [c \in Changes |-> IF change[c].at = "changing"
                                          THEN [change[c] EXCEPT !.at = "done"] ELSE change[c]]
          /\ steady' = IF usesRedis /\ usesRedis' THEN steady ELSE {}
          /\ UNCHANGED <<portalTime, redis, since, wanted, undone>>
      BY <1>9 DEF RestartPortal
    <2>2. /\ row' \in [hash : Hashes, source : DefaultSources \cup {"other", "user_changed"}]
          /\ DefaultKept' /\ ChangesHold'
      <3>1. CASE row' = row
        BY <1>0, <2>1, <3>1 DEF AccountsTypeOK, DefaultKept, ChangesHold
      <3>2. CASE /\ row.source \in DefaultSources
                 /\ row' = [hash |-> Hash("scrypt", AdminPassword), source |-> "default_admin"]
        <4>1. Hash("scrypt", AdminPassword) \in Hashes
              /\ Hash("scrypt", AdminPassword).password = AdminPassword
          BY AccountsAssumption DEF Hash, Hashes
        <4>2. /\ row' \in [hash : Hashes, source : DefaultSources \cup {"other", "user_changed"}]
              /\ row'.hash.password = AdminPassword
          BY <3>2, <4>1 DEF DefaultSources
        <4>3. wanted'.password = AdminPassword
          BY <1>0, <2>1, <3>2 DEF DefaultKept
        <4> QED
          BY <4>2, <4>3 DEF DefaultKept, ChangesHold
      <3> QED
        BY <1>9, <3>1, <3>2 DEF RestartPortal
    <2>3. Idle \in Login /\ Idle.at = "idle"
      BY DEF Idle, Login
    <2>4. /\ login' \in [Logins -> Login]
          /\ \A l \in Logins : login'[l] = login[l] \/ login'[l].at = "idle"
          /\ \A l \in Logins : HasSession(l) => login'[l] = login[l]
          /\ \A l \in Logins : login'[l].at \notin {"asked", "migrating", "seated"}
      BY <1>0, <2>1, <2>3 DEF AccountsTypeOK, InFlight, HasSession
    <2>5. /\ change' \in [Changes -> Change]
          /\ \A c \in Changes : change'[c].at # "changing"
      <3>1. ASSUME NEW c \in Changes PROVE change'[c] \in Change /\ change'[c].at # "changing"
        <4>1. change[c] \in Change
          BY <1>0 DEF AccountsTypeOK
        <4>2. PICK d : d = [change[c] EXCEPT !.at = "done"]
          OBVIOUS
        <4>3. d \in Change /\ d.at = "done"
          BY <4>1, <4>2 DEF Change
        <4>4. change'[c] = IF change[c].at = "changing" THEN d ELSE change[c]
          BY <2>1, <4>2
        <4> QED
          BY <4>1, <4>3, <4>4
      <3> QED
        BY <2>1, <3>1
    <2>6. DOMAIN memory' = {} /\ memory' \in [DOMAIN memory' -> Nat]
      BY <2>1 DEF Empty
    <2>7. AccountsTypeOK'
      <3>1. starts' \in Nat /\ steady' \subseteq Logins
        BY <1>0, <2>1 DEF AccountsTypeOK
      <3> QED
        BY <1>0, <2>1, <2>2, <2>4, <2>5, <2>6, <3>1 DEF AccountsTypeOK
    <2>8. HashesRead'
      BY <1>0, <2>4, <2>5 DEF HashesRead
    <2>9. SessionsSound'
      <3>1. Opened(redis) /\ SteadyKept /\ DOMAIN redis \subseteq Logins /\ steady \subseteq Logins
        BY <1>0 DEF SessionsSound, AccountsTypeOK
      <3>2. \A l \in Logins : HasSession(l) => HasSession(l)'
        BY <2>4 DEF HasSession
      <3>3. Opened(memory)' /\ Opened(redis)'
        BY <2>1, <2>4, <2>6, <3>1, <3>2 DEF Opened
      <3>4. CASE usesRedis /\ usesRedis'
        <4>1. StoreAsked' = StoreAsked /\ steady' = steady /\ portalTime' = portalTime
          BY <2>1, <3>4 DEF StoreAsked
        <4> QED
          BY <2>4, <3>1, <3>2, <3>3, <4>1 DEF SessionsSound, SteadyKept
      <3>5. CASE ~(usesRedis /\ usesRedis')
        BY <2>1, <3>3, <3>5 DEF SessionsSound, SteadyKept
      <3> QED
        BY <3>4, <3>5
    <2>10. SeatsLimited'
      <3>1. InFlight' = {} /\ Seated' = {}
        BY <2>4 DEF InFlight, Seated
      <3> QED
        BY <2>6, <3>1, FS_EmptySet, AccountsAssumption DEF SeatsLimited
    <2> QED
      BY <2>2, <2>7, <2>8, <2>9, <2>10 DEF AccountsInductive
  <1>10. CASE PassPortalTime
    <2>1. /\ portalTime' = portalTime + 1
          /\ UNCHANGED <<starts, usesRedis, row, memory, redis, attempts, login, change, since,
                         wanted, undone, steady>>
      BY <1>10 DEF PassPortalTime
    <2>2. portalTime' \in Nat /\ portalTime' >= portalTime
      BY <1>0, <2>1 DEF AccountsTypeOK
    <2>3. AccountsTypeOK'
      BY <1>0, <2>1, <2>2 DEF AccountsTypeOK
    <2>4. HashesRead' /\ DefaultKept' /\ ChangesHold'
      BY <1>0, <2>1 DEF HashesRead, DefaultKept, ChangesHold
    <2>5. SessionsSound'
      BY <2>1, <2>2, SessionsRest
    <2>6. InFlight' = InFlight /\ Seated' = Seated
      BY <2>1 DEF InFlight, Seated
    <2> QED
      BY <2>1, <2>3, <2>4, <2>5, <2>6, SeatsRest DEF AccountsInductive
  <1>11. CASE UNCHANGED portalVars
    <2>1. UNCHANGED <<portalTime, starts, usesRedis, row, memory, redis, attempts, login, change,
                      since, wanted, undone, steady>>
      BY <1>11 DEF portalVars
    <2>2. AccountsTypeOK'
      BY <1>0, <2>1 DEF AccountsTypeOK
    <2>3. HashesRead' /\ DefaultKept' /\ ChangesHold'
      BY <1>0, <2>1 DEF HashesRead, DefaultKept, ChangesHold
    <2> QED
      BY <2>1, <2>2, <2>3, AttemptsRest DEF AccountsInductive
  <1> QED
    BY <1>1, <1>2, <1>3, <1>4, <1>5, <1>6, <1>7, <1>8, <1>9, <1>10, <1>11, OpenStep, SignOutStep
       DEF AccountsNext

(* The accounts keep their types: hashes of passwords, sessions of attempts
   to sign in, in the process and in Redis. *)
THEOREM AccountsTypeCorrect == AccountsSpec => []AccountsTypeOK
  <1>1. AccountsInductive => AccountsTypeOK
    BY DEF AccountsInductive
  <1> QED
    BY <1>1, InitAccounts, NextAccounts, PTL DEF AccountsSpec

(* Through changes, restarts and attempts to sign in the portal's password is
   the one set last, but for an old hash that was moved over it. *)
THEOREM ChangesHoldAlways == AccountsSpec => []ChangesHold
  <1>1. AccountsInductive => ChangesHold
    BY DEF AccountsInductive
  <1> QED
    BY <1>1, InitAccounts, NextAccounts, PTL DEF AccountsSpec

(* A session that every store heard of is accepted until its logout or its
   end and never after its logout. *)
THEOREM SessionsHoldAlways == AccountsSpec => []SessionsHold
  <1>1. AccountsInductive => SessionsHold
    <2> SUFFICES ASSUME AccountsInductive, NEW s \in steady
                 PROVE  /\ login[s].at = "out" => ~Valid(s)
                        /\ login[s].at = "in" /\ login[s].opened + SessionTTL > portalTime =>
                              Valid(s)
      BY DEF SessionsHold
    <2>1. AccountsTypeOK /\ Opened(memory) /\ Opened(redis) /\ SteadyKept
      BY DEF AccountsInductive, SessionsSound
    <2>2. login[s].opened \in Nat /\ portalTime \in Nat /\ SessionTTL \in Nat
      BY <2>1, AccountsAssumption DEF AccountsTypeOK, Login
    <2>3. s \in DOMAIN StoreAsked => StoreAsked[s] = login[s].opened
      BY <2>1 DEF Opened, StoreAsked
    <2>4. Valid(s) <=> IF usesRedis THEN s \in DOMAIN StoreAsked /\ StoreAsked[s] + SessionTTL > portalTime
                       ELSE s \in DOMAIN StoreAsked /\ ~(portalTime - StoreAsked[s] > SessionTTL)
      BY DEF Valid, StoreAsked, Expired
    <2>5. login[s].at = "out" => s \notin DOMAIN StoreAsked
      BY <2>1 DEF SteadyKept
    <2>6. login[s].at = "in" /\ login[s].opened + SessionTTL > portalTime => s \in DOMAIN StoreAsked
      BY <2>1 DEF SteadyKept
    <2> QED
      BY <2>2, <2>3, <2>4, <2>5, <2>6
  <1> QED
    BY <1>1, InitAccounts, NextAccounts, PTL DEF AccountsSpec

(* The process keeps more sessions than its limit by at most the attempts to
   sign in that were under way beside one another. *)
THEOREM SessionsLimitedAlways == AccountsSpec => []SessionsLimited
  <1>1. AccountsInductive => SessionsLimited
    <2> SUFFICES ASSUME AccountsInductive PROVE SessionsLimited
      OBVIOUS
    <2>1. SeatsLimited /\ Seated \subseteq InFlight
      BY DEF AccountsInductive, Seated, InFlight
    <2>2. IsFiniteSet(Seated) /\ IsFiniteSet(DOMAIN memory)
      BY <2>1, FS_Subset DEF SeatsLimited
    <2>3. Cardinality(Seated) \in Nat /\ Cardinality(DOMAIN memory) \in Nat
      BY <2>2, FS_CardinalityType
    <2> QED
      BY <2>1, <2>3, AccountsAssumption DEF SeatsLimited, SessionsLimited
  <1> QED
    BY <1>1, InitAccounts, NextAccounts, PTL DEF AccountsSpec

-----------------------------------------------------------------------------
(* The limit on failed attempts *)

\* The first lockout and the rule of the next ones.
LEMMA DoubledIs ==
    /\ Doubled \in [Nat -> Nat \ {0}] /\ Doubled[0] = LockoutBase
    /\ \A n \in Nat : Doubled[n + 1] = 2 * Doubled[n]
  <1> DEFINE h == [n \in Nat |-> [x \in Nat \ {0} |-> 2 * x]]
  <1>1. LockoutBase \in Nat \ {0}
    BY AccountsAssumption
  <1>2. h \in [Nat -> [Nat \ {0} -> Nat \ {0}]] /\ \A n \in Nat, x \in Nat \ {0} : h[n][x] = 2 * x
    OBVIOUS
  <1> HIDE DEF h
  <1>3. PICK g : Follows(g, Nat \ {0}, LockoutBase, h)
    BY <1>1, <1>2, Recursion
  <1>4. g \in [Nat -> Nat \ {0}] /\ g[0] = LockoutBase
    BY <1>3 DEF Follows
  <1>5. g = [n \in Nat |-> IF n = 0 THEN LockoutBase ELSE 2 * g[n - 1]]
    <2>1. ASSUME NEW n \in Nat, n # 0 PROVE g[n] = 2 * g[n - 1]
      <3>1. n - 1 \in Nat /\ (n - 1) + 1 = n
        BY <2>1
      <3>2. g[(n - 1) + 1] = h[n - 1][g[n - 1]]
        BY <1>3, <3>1 DEF Follows
      <3> QED
        BY <1>2, <1>4, <3>1, <3>2
    <2> QED
      BY <1>4, <2>1
  <1>6. Doubled = [n \in Nat |-> IF n = 0 THEN LockoutBase ELSE 2 * Doubled[n - 1]]
    BY <1>5 DEF Doubled
  <1>7. Doubled[0] = LockoutBase
    BY <1>6, 0 \in Nat, Zenon
  <1>8. ASSUME NEW n \in Nat PROVE Doubled[n + 1] = 2 * Doubled[n]
    <2>1. n + 1 \in Nat /\ n + 1 # 0 /\ (n + 1) - 1 = n
      OBVIOUS
    <2>2. Doubled[n + 1] = IF n + 1 = 0 THEN LockoutBase ELSE 2 * Doubled[(n + 1) - 1]
      BY <1>6, <2>1, Zenon
    <2> QED
      BY <2>1, <2>2
  <1> DEFINE T == {n \in Nat : Doubled[n] \in Nat \ {0}}
  <1>9. Nat \subseteq T
    <2>1. 0 \in T
      BY <1>1, <1>7
    <2>2. ASSUME NEW n \in Nat, n \in T PROVE n + 1 \in T
      <3>1. Doubled[n + 1] \in Nat \ {0}
        BY <1>8, <2>2
      <3> QED
        BY <3>1
    <2> HIDE DEF T
    <2> QED
      BY <2>1, <2>2, Inducted
  <1>10. Doubled \in [Nat -> Nat \ {0}]
    <2>1. Doubled = [n \in Nat |-> Doubled[n]]
      BY <1>6, Zenon
    <2>2. \A n \in Nat : Doubled[n] \in Nat \ {0}
      BY <1>9
    <2> QED
      BY <2>1, <2>2
  <1> QED
    BY <1>7, <1>8, <1>10

\* A lockout takes time, and one for more failures at least as much.
LEMMA LockoutGrows ==
    ASSUME NEW n \in Nat
    PROVE  /\ Lockout(MaxAttempts + n) \in Nat \ {0}
           /\ \A m \in Nat : Lockout(MaxAttempts + n) <= Lockout(MaxAttempts + n + m)
  <1>0. MaxAttempts \in Nat /\ LockoutMax \in Nat \ {0}
    BY AccountsAssumption
  <1>1. ASSUME NEW k \in Nat
        PROVE  /\ Lockout(MaxAttempts + k) = Least(Doubled[k], LockoutMax)
               /\ Doubled[k] \in Nat \ {0} /\ Doubled[k + 1] = 2 * Doubled[k]
    <2>1. (MaxAttempts + k) - MaxAttempts = k
      BY <1>0
    <2> QED
      BY <2>1, DoubledIs DEF Lockout
  <1>2. Lockout(MaxAttempts + n) \in Nat \ {0}
    BY <1>0, <1>1 DEF Least
  <1> DEFINE T == {m \in Nat : Doubled[n] <= Doubled[n + m]}
  <1>3. Nat \subseteq T
    <2>1. 0 \in T
      BY <1>1
    <2>2. ASSUME NEW m \in Nat, m \in T PROVE m + 1 \in T
      <3>1. /\ n + m \in Nat /\ (n + m) + 1 = n + (m + 1) /\ m + 1 \in Nat
            /\ Doubled[n] <= Doubled[n + m]
        BY <2>2
      <3>2. Doubled[(n + m) + 1] = 2 * Doubled[n + m] /\ Doubled[n + m] \in Nat /\ Doubled[n] \in Nat
        BY <1>1, <3>1
      <3>3. Doubled[n] <= Doubled[n + (m + 1)]
        BY <3>1, <3>2
      <3> QED
        BY <3>1, <3>3
    <2> HIDE DEF T
    <2> QED
      BY <2>1, <2>2, Inducted
  <1>4. ASSUME NEW m \in Nat PROVE Lockout(MaxAttempts + n) <= Lockout(MaxAttempts + n + m)
    <2>1. Doubled[n] <= Doubled[n + m]
      BY <1>3
    <2>2. n + m \in Nat /\ MaxAttempts + n + m = MaxAttempts + (n + m)
      BY <1>0
    <2>3. /\ Lockout(MaxAttempts + (n + m)) = Least(Doubled[n + m], LockoutMax)
          /\ Lockout(MaxAttempts + n) = Least(Doubled[n], LockoutMax)
          /\ Doubled[n] \in Nat /\ Doubled[n + m] \in Nat
      BY <1>1, <2>2
    <2> QED
      BY <1>0, <2>1, <2>2, <2>3 DEF Least
  <1> QED
    BY <1>2, <1>4

\* Lockouts follow one another.
LEMMA LockedIs ==
    /\ Locked \in [Nat -> Nat] /\ Locked[0] = 0
    /\ \A n \in Nat : Locked[n + 1] = Locked[n] + Lockout(MaxAttempts + n)
    /\ \A n \in Nat : n <= Locked[n]
  <1> DEFINE step(n) == Lockout(MaxAttempts + n)
  <1>0. \A n \in Nat : step(n) \in Nat \ {0}
    BY LockoutGrows
  <1>m. MaxAttempts \in Nat
    BY AccountsAssumption
  <1>l. ASSUME NEW n \in Nat, n # 0
        PROVE  n - 1 \in Nat /\ (n - 1) + 1 = n /\ Lockout(MaxAttempts + n - 1) = step(n - 1)
    <2>1. MaxAttempts + n - 1 = MaxAttempts + (n - 1)
      BY <1>m
    <2> QED
      BY <1>l, <2>1
  <1> HIDE DEF step
  <1> DEFINE h == [n \in Nat |-> [x \in Nat |-> x + step(n)]]
  <1>2. h \in [Nat -> [Nat -> Nat]] /\ \A n \in Nat, x \in Nat : h[n][x] = x + step(n)
    <2>1. \A n \in Nat, x \in Nat : x + step(n) \in Nat
      BY <1>0
    <2> QED
      BY <2>1
  <1> HIDE DEF h
  <1>3. PICK g : Follows(g, Nat, 0, h)
    BY <1>2, 0 \in Nat, Recursion
  <1>4. g \in [Nat -> Nat] /\ g[0] = 0
    BY <1>3 DEF Follows
  <1>5. g = [n \in Nat |-> IF n = 0 THEN 0 ELSE g[n - 1] + Lockout(MaxAttempts + n - 1)]
    <2>1. ASSUME NEW n \in Nat, n # 0 PROVE g[n] = g[n - 1] + Lockout(MaxAttempts + n - 1)
      <3>1. n - 1 \in Nat /\ (n - 1) + 1 = n /\ Lockout(MaxAttempts + n - 1) = step(n - 1)
        BY <1>l, <2>1
      <3>2. g[(n - 1) + 1] = h[n - 1][g[n - 1]]
        BY <1>3, <3>1 DEF Follows
      <3>3. h[n - 1][g[n - 1]] = g[n - 1] + step(n - 1)
        BY <1>2, <1>4, <3>1
      <3> QED
        BY <3>1, <3>2, <3>3
    <2> QED
      BY <1>4, <2>1
  <1>6. Locked = [n \in Nat |-> IF n = 0 THEN 0
                                ELSE Locked[n - 1] + Lockout(MaxAttempts + n - 1)]
    BY <1>5 DEF Locked
  <1>7. Locked[0] = 0
    BY <1>6, 0 \in Nat, Zenon
  <1>8. ASSUME NEW n \in Nat PROVE Locked[n + 1] = Locked[n] + step(n)
    <2>1. n + 1 \in Nat /\ n + 1 # 0 /\ (n + 1) - 1 = n
      OBVIOUS
    <2>2. Locked[n + 1] = IF n + 1 = 0 THEN 0
                          ELSE Locked[(n + 1) - 1] + Lockout(MaxAttempts + (n + 1) - 1)
      BY <1>6, <2>1, Zenon
    <2>3. Lockout(MaxAttempts + (n + 1) - 1) = step((n + 1) - 1)
      BY <1>l, <2>1
    <2> QED
      BY <2>1, <2>2, <2>3
  <1> DEFINE T == {n \in Nat : Locked[n] \in Nat /\ n <= Locked[n]}
  <1>9. Nat \subseteq T
    <2>1. 0 \in T
      BY <1>7
    <2>2. ASSUME NEW n \in Nat, n \in T PROVE n + 1 \in T
      <3>1. Locked[n + 1] = Locked[n] + step(n) /\ step(n) \in Nat \ {0}
        BY <1>0, <1>8
      <3>2. Locked[n + 1] \in Nat /\ n + 1 <= Locked[n + 1]
        BY <2>2, <3>1
      <3> QED
        BY <3>2
    <2> HIDE DEF T
    <2> QED
      BY <2>1, <2>2, Inducted
  <1>10. Locked \in [Nat -> Nat]
    <2>1. Locked = [n \in Nat |-> Locked[n]]
      BY <1>6, Zenon
    <2>2. \A n \in Nat : Locked[n] \in Nat
      BY <1>9
    <2> QED
      BY <2>1, <2>2
  <1>11. \A n \in Nat : n <= Locked[n]
    BY <1>9
  <1> QED
    BY <1>7, <1>8, <1>10, <1>11 DEF step

\* Of the lockouts that end within a time there is a last one.
LEMMA LockoutsInIs ==
    ASSUME NEW x \in Nat
    PROVE  /\ LockoutsIn(x) \in Nat /\ Locked[LockoutsIn(x)] <= x
           /\ \A k \in Nat : Locked[k] <= x => k <= LockoutsIn(x)
  <1>0. \A k \in Nat : Locked[k] \in Nat /\ k <= Locked[k]
    BY LockedIs
  <1>1. \E n \in 0..x : Locked[n] <= x /\ \A m \in 0..x : Locked[m] <= x => m <= n
    <2> DEFINE R == {d \in 0..x : Locked[x - d] <= x}
    <2>1. PICK d \in R : \A e \in R : d <= e
      <3>1. x \in R
        <4>1. x - x = 0 /\ Locked[0] = 0
          BY LockedIs
        <4>2. x \in 0..x /\ Locked[x - x] <= x
          BY <4>1
        <4> QED
          BY <4>2
      <3>2. R \subseteq Nat
        OBVIOUS
      <3> HIDE DEF R
      <3> QED
        BY <3>1, <3>2, FirstOf
    <2>2. d \in 0..x /\ Locked[x - d] <= x
      OBVIOUS
    <2>3. ASSUME NEW m \in 0..x, Locked[m] <= x PROVE m <= x - d
      <3>1. x - m \in 0..x /\ x - (x - m) = m
        OBVIOUS
      <3>2. x - m \in R
        BY <2>3, <3>1
      <3>3. d <= x - m
        BY <2>1, <3>2
      <3> QED
        BY <2>2, <3>3
    <2>4. x - d \in 0..x
      BY <2>2
    <2> QED
      BY <2>2, <2>3, <2>4
  <1>2. /\ LockoutsIn(x) \in 0..x /\ Locked[LockoutsIn(x)] <= x
        /\ \A m \in 0..x : Locked[m] <= x => m <= LockoutsIn(x)
    BY <1>1 DEF LockoutsIn
  <1>3. ASSUME NEW k \in Nat, Locked[k] <= x PROVE k <= LockoutsIn(x)
    <2>1. k \in 0..x
      BY <1>0, <1>3
    <2> QED
      BY <1>2, <1>3, <2>1
  <1> QED
    BY <1>2, <1>3

\* In more time at least as many end.
LEMMA LockoutsGrow ==
    ASSUME NEW x \in Nat, NEW y \in Nat, x <= y
    PROVE  LockoutsIn(x) <= LockoutsIn(y)
  <1>1. LockoutsIn(x) \in Nat /\ Locked[LockoutsIn(x)] <= x
    BY LockoutsInIs
  <1>2. Locked[LockoutsIn(x)] \in Nat
    BY <1>1, LockedIs
  <1>3. Locked[LockoutsIn(x)] <= y
    BY <1>1, <1>2
  <1> QED
    BY <1>1, <1>3, LockoutsInIs

\* One more ends when the time of its lockout is over.
LEMMA OneMoreEnds ==
    ASSUME NEW x \in Nat, NEW y \in Nat, NEW n \in Nat, LockoutsIn(x) <= n,
           x + Lockout(MaxAttempts + n) <= y
    PROVE  LockoutsIn(x) + 1 <= LockoutsIn(y)
  <1> DEFINE k == LockoutsIn(x)
  <1>1. k \in Nat /\ Locked[k] <= x
    BY LockoutsInIs
  <1>2. Lockout(MaxAttempts + k) <= Lockout(MaxAttempts + n)
    <2>1. n - k \in Nat /\ MaxAttempts + k + (n - k) = MaxAttempts + n
      BY <1>1, AccountsAssumption
    <2> HIDE DEF k
    <2>2. Lockout(MaxAttempts + k) <= Lockout(MaxAttempts + k + (n - k))
      BY <1>1, <2>1, LockoutGrows
    <2> QED
      BY <2>1, <2>2
  <1> HIDE DEF k
  <1>3. /\ Locked[k + 1] = Locked[k] + Lockout(MaxAttempts + k) /\ k + 1 \in Nat
        /\ Locked[k] \in Nat
    BY <1>1, LockedIs
  <1>4. Lockout(MaxAttempts + k) \in Nat /\ Lockout(MaxAttempts + n) \in Nat
    BY <1>1, LockoutGrows
  <1>5. Locked[k + 1] <= y
    BY <1>1, <1>2, <1>3, <1>4
  <1>6. k + 1 <= LockoutsIn(y)
    BY <1>3, <1>5, LockoutsInIs
  <1> QED
    BY <1>6 DEF k

\* Attempts whose password is not judged yet.
Unjudged == {l \in Logins : login[l].at = "asked"}

\* The failures that may be counted within a time.
Allowed(elapsed) == MaxAttempts - 1 + MaxInFlight * (1 + LockoutsIn(elapsed))

\* Those that are counted, with those the attempts under way can add, are
\* within the limit, and those counted were when the last of them locked.
AttemptsSound ==
    attempts # None =>
        /\ since <= portalTime
        /\ attempts.until \in Nat
        /\ attempts.count + Cardinality(Unjudged) <= Allowed(portalTime - since)
        /\ attempts.count >= MaxAttempts =>
              \E last \in since..portalTime :
                 /\ attempts.until = last + Lockout(attempts.count)
                 /\ attempts.count <= Allowed(last - since)

\* The limit is a number that grows with the time.
LEMMA AllowedGrows ==
    ASSUME NEW x \in Nat, NEW y \in Nat, x <= y
    PROVE  /\ Allowed(x) \in Nat /\ Allowed(x) <= Allowed(y)
           /\ MaxAttempts - 1 + MaxInFlight <= Allowed(x)
  <1>1. LockoutsIn(x) \in Nat /\ LockoutsIn(y) \in Nat /\ LockoutsIn(x) <= LockoutsIn(y)
    BY LockoutsInIs, LockoutsGrow
  <1>2. MaxInFlight \in Nat /\ MaxAttempts \in Nat \ {0}
    BY AccountsAssumption
  <1>3. ASSUME NEW f \in Nat, NEW a \in Nat, NEW b \in Nat, a <= b
        PROVE  f * (1 + a) \in Nat /\ f * (1 + a) <= f * (1 + b) /\ f <= f * (1 + a)
    <2>1. \E d \in Nat : b = a + d
      <3>1. b - a \in Nat /\ b = a + (b - a)
        BY <1>3
      <3> QED
        BY <3>1
    <2>2. PICK d \in Nat : b = a + d
      BY <2>1
    <2>3. f * (1 + a) = f + f * a /\ f * (1 + b) = f + f * a + f * d
      BY <2>2
    <2>4. f * a \in Nat /\ f * d \in Nat
      OBVIOUS
    <2> QED
      BY <2>3, <2>4
  <1>4. /\ MaxInFlight * (1 + LockoutsIn(x)) \in Nat
        /\ MaxInFlight * (1 + LockoutsIn(x)) <= MaxInFlight * (1 + LockoutsIn(y))
        /\ MaxInFlight <= MaxInFlight * (1 + LockoutsIn(x))
    BY <1>1, <1>2, <1>3
  <1>5. MaxInFlight * (1 + LockoutsIn(y)) \in Nat
    BY <1>1, <1>2, <1>3
  <1> QED
    BY <1>2, <1>4, <1>5 DEF Allowed

\* Past a lockout there is room for all that may be under way.
LEMMA RoomPast ==
    ASSUME NEW x \in Nat, NEW y \in Nat, NEW count \in Nat, count >= MaxAttempts,
           count <= Allowed(x), x + Lockout(count) <= y, MaxInFlight > 0
    PROVE  count + MaxInFlight <= Allowed(y)
  <1> DEFINE n == count - MaxAttempts
  <1>1. MaxInFlight \in Nat \ {0} /\ MaxAttempts \in Nat \ {0}
    BY AccountsAssumption
  <1>2. n \in Nat /\ count = MaxAttempts + n
    BY <1>1
  <1> HIDE DEF n
  <1>3. Lockout(count) \in Nat
    BY <1>2, LockoutGrows
  <1>4. x <= y
    BY <1>3
  <1>5. LockoutsIn(x) \in Nat /\ LockoutsIn(y) \in Nat /\ LockoutsIn(x) <= LockoutsIn(y)
    BY <1>4, LockoutsInIs, LockoutsGrow
  <1>6. ASSUME NEW f \in Nat \ {0}, NEW a \in Nat, NEW b \in Nat, a <= b
        PROVE  /\ f * a \in Nat /\ a <= f * a /\ f * a <= f * b /\ f * b \in Nat
               /\ f * (1 + a) = f + f * a /\ f * (1 + b) = f + f * b
    <2>1. PICK d \in Nat : b = a + d
      <3>1. b - a \in Nat /\ b = a + (b - a)
        BY <1>6
      <3> QED
        BY <3>1
    <2>2. PICK e \in Nat : f = 1 + e
      <3>1. f - 1 \in Nat /\ f = 1 + (f - 1)
        OBVIOUS
      <3> QED
        BY <3>1
    <2>3. f * a = a + e * a /\ f * b = f * a + f * d
      BY <2>1, <2>2
    <2>4. e * a \in Nat /\ f * d \in Nat
      OBVIOUS
    <2>5. f * (1 + a) = f + f * a /\ f * (1 + b) = f + f * b
      OBVIOUS
    <2> QED
      BY <2>3, <2>4, <2>5
  <1>7. CASE LockoutsIn(x) <= n
    <2>1. LockoutsIn(x) + 1 <= LockoutsIn(y)
      BY <1>2, <1>7, OneMoreEnds
    <2>2. MaxInFlight * (1 + LockoutsIn(x)) <= MaxInFlight * LockoutsIn(y)
      BY <1>1, <1>5, <1>6, <2>1, LockoutsIn(x) + 1 \in Nat, 1 + LockoutsIn(x) = LockoutsIn(x) + 1
    <2>3. /\ MaxInFlight * (1 + LockoutsIn(y)) = MaxInFlight + MaxInFlight * LockoutsIn(y)
          /\ MaxInFlight * LockoutsIn(y) \in Nat
          /\ MaxInFlight * (1 + LockoutsIn(x)) = MaxInFlight + MaxInFlight * LockoutsIn(x)
          /\ MaxInFlight * LockoutsIn(x) \in Nat
      BY <1>1, <1>5, <1>6
    <2> QED
      BY <1>1, <2>2, <2>3 DEF Allowed
  <1>8. CASE n < LockoutsIn(x)
    <2>1. /\ LockoutsIn(y) <= MaxInFlight * LockoutsIn(y)
          /\ MaxInFlight * (1 + LockoutsIn(y)) = MaxInFlight + MaxInFlight * LockoutsIn(y)
          /\ MaxInFlight * LockoutsIn(y) \in Nat
      BY <1>1, <1>5, <1>6
    <2>2. count <= MaxAttempts - 1 + LockoutsIn(y)
      BY <1>1, <1>2, <1>5, <1>8
    <2> QED
      BY <1>1, <1>5, <2>1, <2>2 DEF Allowed
  <1> QED
    BY <1>2, <1>5, <1>7, <1>8

LEMMA InitAttempts == AccountsInit => AttemptsSound
  BY DEF AccountsInit, AttemptsSound

\* The attempts under way are within their bound, and so are those of them
\* that are not judged.
LEMMA FewUnjudged ==
    ASSUME SeatsLimited
    PROVE  /\ IsFiniteSet(Unjudged) /\ Cardinality(Unjudged) \in Nat
           /\ Cardinality(InFlight) \in Nat
           /\ Cardinality(Unjudged) <= Cardinality(InFlight)
           /\ Cardinality(Unjudged) <= MaxInFlight
  <1>1. Unjudged \subseteq InFlight
    BY DEF Unjudged, InFlight
  <1>2. /\ IsFiniteSet(Unjudged) /\ Cardinality(Unjudged) <= Cardinality(InFlight)
        /\ Cardinality(Unjudged) \in Nat /\ Cardinality(InFlight) \in Nat
    BY <1>1, FS_Subset, FS_CardinalityType DEF SeatsLimited
  <1> QED
    BY <1>2, AccountsAssumption DEF SeatsLimited

\* A judged attempt is one less, one that is let through is one more.
LEMMA UnjudgedChange ==
    ASSUME SeatsLimited, NEW l \in Logins, NEW rest, rest = Unjudged \ {l}
    PROVE  /\ IsFiniteSet(rest) /\ Cardinality(rest) \in Nat
           /\ l \in Unjudged => Cardinality(rest) + 1 = Cardinality(Unjudged)
           /\ IsFiniteSet(Unjudged \cup {l})
           /\ Cardinality(Unjudged \cup {l}) \in Nat
           /\ Cardinality(Unjudged \cup {l}) <= Cardinality(Unjudged) + 1
  <1>1. IsFiniteSet(Unjudged) /\ Cardinality(Unjudged) \in Nat
    BY FewUnjudged
  <1>2. /\ IsFiniteSet(Unjudged \ {l})
        /\ l \in Unjudged => Cardinality(Unjudged \ {l}) = Cardinality(Unjudged) - 1
    BY <1>1, FS_RemoveElement
  <1>3. /\ IsFiniteSet(Unjudged \cup {l})
        /\ Cardinality(Unjudged \cup {l}) \in {Cardinality(Unjudged), Cardinality(Unjudged) + 1}
    BY <1>1, FS_AddElement
  <1>4. Cardinality(Unjudged \ {l}) \in Nat
    BY <1>2, FS_CardinalityType
  <1> QED
    BY <1>1, <1>2, <1>3, <1>4

\* Time passes, and attempts are judged without being refused.
LEMMA AttemptsKeep ==
    ASSUME AccountsInductive, AttemptsSound, portalTime' \in Nat, portalTime' >= portalTime,
           Unjudged' \subseteq Unjudged, UNCHANGED since, attempts' \in {None, attempts}
    PROVE  AttemptsSound'
  <1> SUFFICES ASSUME attempts # None, attempts' = attempts PROVE AttemptsSound'
    BY DEF AttemptsSound
  <1>0. AccountsTypeOK /\ SeatsLimited
    BY DEF AccountsInductive
  <1>1. /\ since \in Nat /\ portalTime \in Nat /\ attempts.count \in Nat
        /\ since <= portalTime /\ attempts.until \in Nat
        /\ attempts.count + Cardinality(Unjudged) <= Allowed(portalTime - since)
    BY <1>0 DEF AccountsTypeOK, AttemptsSound
  <1>2. Cardinality(Unjudged') <= Cardinality(Unjudged) /\ Cardinality(Unjudged') \in Nat
        /\ Cardinality(Unjudged) \in Nat
    BY <1>0, FewUnjudged, FS_Subset, FS_CardinalityType
  <1>3. /\ Allowed(portalTime - since) <= Allowed(portalTime' - since)
        /\ Allowed(portalTime - since) \in Nat /\ Allowed(portalTime' - since) \in Nat
    <2>1. /\ portalTime - since \in Nat /\ portalTime' - since \in Nat
          /\ portalTime - since <= portalTime' - since
      <3>1. portalTime' \in Nat /\ portalTime <= portalTime'
        BY <1>1
      <3>2. ASSUME NEW x \in Nat, NEW y \in Nat, NEW z \in Nat, z <= x, x <= y
            PROVE  x - z \in Nat /\ y - z \in Nat /\ x - z <= y - z
        BY <3>2
      <3> QED
        BY <1>1, <3>1, <3>2
    <2> QED
      BY <2>1, AllowedGrows
  <1>4. attempts.count + Cardinality(Unjudged') <= Allowed(portalTime' - since)
    BY <1>1, <1>2, <1>3
  <1>5. attempts.count >= MaxAttempts =>
            \E last \in since..portalTime' :
               /\ attempts.until = last + Lockout(attempts.count)
               /\ attempts.count <= Allowed(last - since)
    BY <1>1 DEF AttemptsSound
  <1> QED
    BY <1>1, <1>4, <1>5 DEF AttemptsSound

\* An attempt is refused.
LEMMA RefusalKeeps ==
    ASSUME AccountsInductive, AttemptsSound, NEW l \in Logins, login[l].at = "asked", Refuse(l),
           UNCHANGED portalTime
    PROVE  AttemptsSound'
  <1>0. AccountsTypeOK /\ SeatsLimited
    BY DEF AccountsInductive
  <1>1. Unjudged' = Unjudged \ {l} /\ l \in Unjudged
    <2>1. Idle.at = "idle"
      BY DEF Idle
    <2>2. login'[l] = Idle /\ \A k \in Logins : k # l => login'[k] = login[k]
      BY <1>0 DEF Refuse, AccountsTypeOK
    <2> QED
      BY <2>1, <2>2 DEF Unjudged
  <1>2. /\ Cardinality(Unjudged') + 1 = Cardinality(Unjudged)
        /\ Cardinality(Unjudged) \in Nat /\ Cardinality(Unjudged') \in Nat
        /\ Cardinality(Unjudged) <= MaxInFlight
    BY <1>0, <1>1, FewUnjudged, UnjudgedChange
  <1>3. /\ MaxAttempts \in Nat /\ MaxAttempts > 1 /\ MaxInFlight \in Nat
        /\ portalTime \in Nat /\ since \in Nat
    BY <1>0, AccountsAssumption DEF AccountsTypeOK
  <1>4. CASE attempts = None
    <2>1. since' = portalTime /\ attempts' = [count |-> 1, until |-> 0]
      BY <1>4 DEF Refuse, Failed
    <2>2. MaxAttempts - 1 + MaxInFlight <= Allowed(portalTime - portalTime)
          /\ Allowed(portalTime - portalTime) \in Nat
      <3>1. portalTime - portalTime \in Nat
        BY <1>3
      <3> QED
        BY <3>1, AllowedGrows
    <2>3. 1 + Cardinality(Unjudged') <= Allowed(portalTime - portalTime)
      BY <1>2, <1>3, <2>2
    <2> QED
      BY <1>3, <2>1, <2>3 DEF AttemptsSound
  <1>5. CASE attempts # None
    <2> DEFINE n == attempts.count + 1
    <2>1. /\ since <= portalTime /\ attempts.until \in Nat /\ attempts.count \in Nat
          /\ attempts.count + Cardinality(Unjudged) <= Allowed(portalTime - since)
      BY <1>0, <1>5 DEF AccountsTypeOK, AttemptsSound
    <2>2. /\ since' = since /\ attempts'.count = n
          /\ attempts'.until = IF n >= MaxAttempts THEN portalTime + Lockout(n) ELSE attempts.until
      BY <1>5 DEF Refuse, Failed
    <2>3. n \in Nat /\ Allowed(portalTime - since) \in Nat
      <3>1. portalTime - since \in Nat
        BY <1>3, <2>1
      <3> QED
        BY <2>1, <3>1, AllowedGrows
    <2>4. n + Cardinality(Unjudged') <= Allowed(portalTime - since)
      BY <1>2, <2>1, <2>3
    <2> HIDE DEF n
    <2>5. CASE n >= MaxAttempts
      <3>1. Lockout(n) \in Nat
        <4>1. n - MaxAttempts \in Nat /\ n = MaxAttempts + (n - MaxAttempts)
          BY <1>3, <2>3, <2>5
        <4> QED
          BY <4>1, LockoutGrows
      <3>2. attempts'.until = portalTime + Lockout(n)
        BY <2>2, <2>5
      <3>3. portalTime \in since..portalTime /\ n <= Allowed(portalTime - since)
        BY <1>2, <1>3, <2>1, <2>3, <2>4
      <3> QED
        BY <1>3, <2>1, <2>2, <2>4, <3>1, <3>2, <3>3 DEF AttemptsSound
    <2>6. CASE n < MaxAttempts
      <3>1. attempts'.until = attempts.until
        BY <1>3, <2>2, <2>3, <2>6
      <3> QED
        BY <1>3, <2>1, <2>2, <2>3, <2>4, <2>6, <3>1 DEF AttemptsSound
    <2> QED
      BY <1>3, <2>3, <2>5, <2>6
  <1> QED
    BY <1>4, <1>5

\* An attempt is let through: no lockout is under way.
LEMMA SignInKeeps ==
    ASSUME AccountsInductive, AttemptsSound, NEW l \in Logins, NEW p \in Passwords, SignIn(l, p)
    PROVE  AttemptsSound'
  <1>0. AccountsTypeOK /\ SeatsLimited
    BY DEF AccountsInductive
  <1>1. /\ ~Blocked /\ Cardinality(InFlight) < MaxInFlight
        /\ UNCHANGED <<portalTime, attempts, since>>
    BY DEF SignIn
  <1> SUFFICES ASSUME attempts # None PROVE AttemptsSound'
    BY <1>1 DEF AttemptsSound
  <1>2. Unjudged' \subseteq Unjudged \cup {l}
    <2>1. \A k \in Logins : k # l => login'[k] = login[k]
      BY <1>0 DEF SignIn, AccountsTypeOK
    <2> QED
      BY <2>1 DEF Unjudged
  <1>3. /\ Cardinality(Unjudged') \in Nat /\ Cardinality(Unjudged') <= MaxInFlight
        /\ MaxInFlight \in Nat /\ MaxInFlight > 0
    <2>1. /\ IsFiniteSet(Unjudged \cup {l}) /\ Cardinality(Unjudged \cup {l}) \in Nat
          /\ Cardinality(Unjudged \cup {l}) <= Cardinality(Unjudged) + 1
      BY <1>0, UnjudgedChange
    <2>2. /\ Cardinality(Unjudged') \in Nat
          /\ Cardinality(Unjudged') <= Cardinality(Unjudged \cup {l})
      BY <1>2, <2>1, FS_Subset, FS_CardinalityType
    <2>3. /\ Cardinality(Unjudged) \in Nat /\ Cardinality(InFlight) \in Nat
          /\ Cardinality(Unjudged) <= Cardinality(InFlight)
      BY <1>0, FewUnjudged
    <2> QED
      BY <1>1, <2>1, <2>2, <2>3, AccountsAssumption
  <1>4. /\ since \in Nat /\ portalTime \in Nat /\ attempts.count \in Nat /\ MaxAttempts \in Nat
        /\ since <= portalTime /\ attempts.until \in Nat
    BY <1>0, AccountsAssumption DEF AccountsTypeOK, AttemptsSound
  <1>5. attempts.count + MaxInFlight <= Allowed(portalTime - since)
    <2>1. portalTime - since \in Nat
      BY <1>4
    <2>2. CASE attempts.count < MaxAttempts
      <3>1. /\ MaxAttempts - 1 + MaxInFlight <= Allowed(portalTime - since)
            /\ Allowed(portalTime - since) \in Nat
        BY <2>1, AllowedGrows
      <3> QED
        BY <1>3, <1>4, <2>2, <3>1
    <2>3. CASE attempts.count >= MaxAttempts
      <3>1. PICK last \in since..portalTime :
                    /\ attempts.until = last + Lockout(attempts.count)
                    /\ attempts.count <= Allowed(last - since)
        BY <2>3 DEF AttemptsSound
      <3>2. attempts.until <= portalTime
        BY <1>1, <1>4 DEF Blocked
      <3>3. Lockout(attempts.count) \in Nat
        <4>1. /\ attempts.count - MaxAttempts \in Nat
              /\ attempts.count = MaxAttempts + (attempts.count - MaxAttempts)
          BY <1>4, <2>3
        <4> QED
          BY <4>1, LockoutGrows
      <3>4. last - since \in Nat /\ (last - since) + Lockout(attempts.count) <= portalTime - since
        BY <1>4, <3>1, <3>2, <3>3
      <3> QED
        BY <1>3, <1>4, <2>1, <2>3, <3>1, <3>4, RoomPast
    <2> QED
      BY <1>4, <2>2, <2>3
  <1>6. attempts.count + Cardinality(Unjudged') <= Allowed(portalTime - since)
    <2>1. Allowed(portalTime - since) \in Nat
      <3>1. portalTime - since \in Nat
        BY <1>4
      <3> QED
        BY <3>1, AllowedGrows
    <2> QED
      BY <1>3, <1>4, <1>5, <2>1
  <1> QED
    BY <1>1, <1>4, <1>6 DEF AttemptsSound

LEMMA NextAttempts ==
    AccountsInductive /\ AttemptsSound /\ [AccountsNext]_portalVars => AttemptsSound'
  <1> SUFFICES ASSUME AccountsInductive, AttemptsSound, [AccountsNext]_portalVars
               PROVE  AttemptsSound'
    OBVIOUS
  <1>0. AccountsTypeOK
    BY DEF AccountsInductive
  <1>k. portalTime \in Nat /\ portalTime <= portalTime /\ login \in [Logins -> Login]
    BY <1>0 DEF AccountsTypeOK
  <1>n. ASSUME attempts' = None PROVE AttemptsSound'
    BY <1>n DEF AttemptsSound
  <1>q. ASSUME UNCHANGED <<portalTime, attempts, since>>,
               \A l \in Logins : login'[l].at = "asked" => login[l].at = "asked"
        PROVE  AttemptsSound'
    <2>1. Unjudged' \subseteq Unjudged
      BY <1>q DEF Unjudged
    <2> QED
      BY <1>k, <1>q, <2>1, AttemptsKeep
  <1>1. ASSUME NEW l \in Logins, ReadRow(l) PROVE AttemptsSound'
    <2>1. login[l].at = "asked" /\ UNCHANGED portalTime
      BY <1>1 DEF ReadRow
    <2>2. CASE Refuse(l)
      BY <2>1, <2>2, RefusalKeeps
    <2>3. CASE \E reached \in BOOLEAN : Seat(l, reached)
      BY <1>n, <2>3 DEF Seat
    <2>4. CASE /\ login' = [login EXCEPT ![l].at = "migrating", ![l].read = row.hash]
               /\ UNCHANGED <<attempts, since>>
      <3>1. \A k \in Logins : k # l => login'[k] = login[k]
        BY <1>k, <2>4
      <3> QED
        BY <1>q, <2>1, <2>4, <3>1
    <2> QED
      BY <1>1, <2>2, <2>3, <2>4 DEF ReadRow
  <1>2. ASSUME NEW l \in Logins, ReadFails(l) PROVE AttemptsSound'
    BY <1>2, RefusalKeeps DEF ReadFails
  <1>3. ASSUME NEW l \in Logins, MigrateHash(l) PROVE AttemptsSound'
    BY <1>3, <1>n DEF MigrateHash, Seat
  <1>4. ASSUME NEW l \in Logins, OpenSession(l) \/ SignOut(l) PROVE AttemptsSound'
    <2>1. UNCHANGED <<portalTime, attempts, since>>
      BY <1>4 DEF OpenSession, SignOut
    <2>2. \A k \in Logins : login'[k].at = "asked" => login[k].at = "asked"
      <3>1. \A k \in Logins : k # l => login'[k] = login[k]
        BY <1>k, <1>4 DEF OpenSession, SignOut
      <3>2. login'[l].at \in {"in", "out"}
        BY <1>k, <1>4 DEF OpenSession, SignOut, Login
      <3> QED
        BY <3>1, <3>2
    <2> QED
      BY <1>q, <2>1, <2>2
  <1>5. ASSUME NEW l \in Logins, DropSession(l) PROVE AttemptsSound'
    BY <1>5, <1>q DEF DropSession
  <1>6. ASSUME NEW c \in Changes, ChangePassword(c) PROVE AttemptsSound'
    BY <1>6, <1>q DEF ChangePassword
  <1>7. ASSUME NEW c \in Changes, NEW old \in Passwords, NEW new \in Passwords,
               AskChange(c, old, new)
        PROVE  AttemptsSound'
    BY <1>7, <1>q DEF AskChange
  <1>8. CASE RestartPortal
    BY <1>8, <1>n DEF RestartPortal
  <1>9. CASE CleanUp
    BY <1>9, <1>n, <1>q DEF CleanUp
  <1>10. CASE PassPortalTime
    <2>1. portalTime' \in Nat /\ portalTime' >= portalTime
      BY <1>k, <1>10 DEF PassPortalTime
    <2>2. UNCHANGED <<since, attempts>> /\ Unjudged' \subseteq Unjudged
      BY <1>10 DEF PassPortalTime, Unjudged
    <2> QED
      BY <2>1, <2>2, AttemptsKeep
  <1>11. CASE UNCHANGED portalVars
    BY <1>11, <1>q DEF portalVars
  <1> QED
    BY <1>1, <1>2, <1>3, <1>4, <1>5, <1>6, <1>7, <1>8, <1>9, <1>10, <1>11, SignInKeeps
       DEF AccountsNext

(* The process keeps more sessions than its limit, and counts more failed
   attempts than its limit and one for every lockout that ended, by at most
   the attempts to sign in that were under way beside one another. *)
THEOREM LimitsHoldAlways == AccountsSpec => []LimitsHold
  <1>1. AccountsInductive /\ AttemptsSound => AttemptsLimited
    <2> SUFFICES ASSUME AccountsInductive, AttemptsSound, attempts # None
                 PROVE  attempts.count <= Allowed(portalTime - since)
      BY DEF AttemptsLimited, Allowed
    <2>1. AccountsTypeOK /\ SeatsLimited
      BY DEF AccountsInductive
    <2>2. /\ attempts.count + Cardinality(Unjudged) <= Allowed(portalTime - since)
          /\ attempts.count \in Nat /\ portalTime - since \in Nat
      BY <2>1 DEF AttemptsSound, AccountsTypeOK
    <2>3. Cardinality(Unjudged) \in Nat /\ Allowed(portalTime - since) \in Nat
      BY <2>1, <2>2, FewUnjudged, AllowedGrows
    <2> QED
      BY <2>2, <2>3
  <1> QED
    BY <1>1, InitAccounts, NextAccounts, InitAttempts, NextAttempts, SessionsLimitedAlways, PTL
       DEF AccountsSpec, LimitsHold

-----------------------------------------------------------------------------
(* Sequences of sequences *)

\* Sequences one after the other.
LEMMA Concatenations ==
    ASSUME NEW X, NEW n \in Nat, NEW seqs \in [1..n -> Seq(X)]
    PROVE  \E f : f = [i \in 1..n |-> IF i = 1 THEN seqs[i] ELSE f[i - 1] \o seqs[i]]
  <1>1. \E h : /\ h \in [Nat -> [Seq(X) -> Seq(X)]]
               /\ \A k \in Nat, s \in Seq(X) : k + 1 \in 1..n => h[k][s] = s \o seqs[k + 1]
    <2> DEFINE h == [k \in Nat |-> [s \in Seq(X) |->
                        IF k + 1 \in 1..n THEN s \o seqs[k + 1] ELSE s]]
    <2>1. h \in [Nat -> [Seq(X) -> Seq(X)]]
      OBVIOUS
    <2>2. \A k \in Nat, s \in Seq(X) : k + 1 \in 1..n => h[k][s] = s \o seqs[k + 1]
      OBVIOUS
    <2> HIDE DEF h
    <2> QED
      BY <2>1, <2>2
  <1>2. PICK h : /\ h \in [Nat -> [Seq(X) -> Seq(X)]]
                 /\ \A k \in Nat, s \in Seq(X) : k + 1 \in 1..n => h[k][s] = s \o seqs[k + 1]
    BY <1>1
  <1>3. \E g \in [Nat -> Seq(X)] : g[0] = <<>> /\ \A k \in Nat : g[k + 1] = h[k][g[k]]
    <2>1. <<>> \in Seq(X)
      OBVIOUS
    <2>2. h \in [Nat -> [Seq(X) -> Seq(X)]]
      BY <1>2
    <2>3. PICK g : Follows(g, Seq(X), <<>>, h)
      BY <2>1, <2>2, Recursion
    <2> QED
      BY <2>3 DEF Follows
  <1>4. PICK g \in [Nat -> Seq(X)] : g[0] = <<>> /\ \A k \in Nat : g[k + 1] = h[k][g[k]]
    BY <1>3
  <1>5. ASSUME NEW k \in Nat, k + 1 \in 1..n PROVE g[k + 1] = g[k] \o seqs[k + 1]
    <2>1. g[k] \in Seq(X) /\ g[k + 1] = h[k][g[k]]
      BY <1>4
    <2> QED
      BY <1>2, <1>5, <2>1
  <1>6. ASSUME NEW i \in 1..n
        PROVE  g[i] = IF i = 1 THEN seqs[i] ELSE g[i - 1] \o seqs[i]
    <2>1. i - 1 \in Nat /\ (i - 1) + 1 = i
      OBVIOUS
    <2>2. g[i] = g[i - 1] \o seqs[i]
      BY <1>5, <2>1
    <2>3. i = 1 => g[i] = seqs[i]
      <3>1. <<>> \o seqs[i] = seqs[i]
        OBVIOUS
      <3>2. i = 1 => g[i - 1] = <<>>
        BY <1>4
      <3> QED
        BY <2>2, <3>1, <3>2
    <2> QED
      BY <2>2, <2>3
  <1>7. \E f : f = [i \in 1..n |-> g[i]]
    OBVIOUS
  <1>8. PICK f : f = [i \in 1..n |-> g[i]]
    BY <1>7
  <1>9. ASSUME NEW i \in 1..n
        PROVE  g[i] = IF i = 1 THEN seqs[i] ELSE f[i - 1] \o seqs[i]
    <2>1. CASE i = 1
      BY <1>6, <2>1
    <2>2. CASE i # 1
      <3>1. i - 1 \in 1..n
        BY <2>2
      <3>2. f[i - 1] = g[i - 1]
        BY <1>8, <3>1
      <3> QED
        BY <1>6, <2>2, <3>2
    <2> QED
      BY <2>1, <2>2
  <1> QED
    BY <1>8, <1>9

\* A sequence of sequences is flattened one after the other.
LEMMA Flattened ==
    ASSUME NEW X, NEW seqs \in Seq(Seq(X)), seqs # <<>>
    PROVE  \E f : /\ DOMAIN f = 1..Len(seqs) /\ f[1] = seqs[1]
                  /\ FlattenSeq(seqs) = f[Len(seqs)]
                  /\ \A i \in 1..Len(seqs) : i > 1 => f[i] = f[i - 1] \o seqs[i]
  <1> DEFINE n == Len(seqs)
             flatten == CHOOSE f : f = [i \in 1..n |->
                            IF i = 1 THEN seqs[i] ELSE f[i - 1] \o seqs[i]]
  <1>1. n \in Nat /\ n > 0 /\ seqs \in [1..n -> Seq(X)]
    OBVIOUS
  <1>2. FlattenSeq(seqs) = flatten[n]
    BY <1>1 DEF FlattenSeq, flatten, n
  <1> HIDE DEF n
  <1>3. \E f : f = [i \in 1..n |-> IF i = 1 THEN seqs[i] ELSE f[i - 1] \o seqs[i]]
    <2> HIDE DEF flatten
    <2> QED
      BY <1>1, Concatenations
  <1>4. flatten = [i \in 1..n |-> IF i = 1 THEN seqs[i] ELSE flatten[i - 1] \o seqs[i]]
    BY <1>3
  <1> HIDE DEF flatten
  <1>5. DOMAIN flatten = 1..n /\ flatten[1] = seqs[1]
    BY <1>1, <1>4
  <1>6. \A i \in 1..n : i > 1 => flatten[i] = flatten[i - 1] \o seqs[i]
    <2> SUFFICES ASSUME NEW i \in 1..n, i > 1 PROVE flatten[i] = flatten[i - 1] \o seqs[i]
      OBVIOUS
    <2>1. flatten[i] = IF i = 1 THEN seqs[i] ELSE flatten[i - 1] \o seqs[i]
      BY <1>4, Zenon
    <2>2. i # 1
      BY <1>1
    <2> QED
      BY <2>1, <2>2
  <1> QED
    BY <1>2, <1>5, <1>6 DEF n

-----------------------------------------------------------------------------
(* The conversation memory *)

Spill == [by : Nat, array : Arrays, saved : BOOLEAN, cut : Seq(Nat)]

HermesTypeOK ==
    /\ array \in [Arrays -> Seq(Nat)] /\ current \in Arrays \cup {NoArray}
    /\ posted \in 0..MaxEntries /\ saving \subseteq 1..posted
    /\ spills \subseteq Spill /\ IsFiniteSet(spills) /\ Cardinality(spills) <= MaxSpills
    /\ rows \in [Entries -> Nat]
    /\ hydrating \in [at : {"done", "reading", "read"}, entries : Seq(Nat)]
    /\ before \in 0..posted /\ cleared \subseteq 1..posted

\* The entry is one of those posted last, when so many were posted.
Recent(e, many) == many - e < SummaryThreshold

\* Entries in the order they were posted; one that was posted lately is there once.
InOrder(entries, many) ==
    /\ \A i \in DOMAIN entries : entries[i] \in 1..many
    /\ \A i, j \in DOMAIN entries : i < j =>
          entries[i] <= entries[j] /\ (Recent(entries[j], many) => entries[i] # entries[j])

InUse == ({current} \ {NoArray}) \cup {s.array : s \in spills}

\* What was posted lately has one row at most, and is in no cut.
SavedOnce ==
    /\ \A e \in Entries : Recent(e, posted) /\ rows[e] > 0 => rows[e] = 1 /\ e \notin saving
    /\ \A e \in Entries : e > posted => rows[e] = 0
    /\ \A s \in spills : \A e \in ToSet(s.cut) : e \in ToSet(array[s.array]) /\ ~Recent(e, posted)

\* Arrays hold what was posted since the start, until the map was filled.
ArraysInOrder ==
    /\ \A a \in InUse : InOrder(array[a], posted) /\ \A e \in ToSet(array[a]) : e > before
    /\ InOrder(hydrating.entries, posted)

\* Who was posted lately and was not run over is in the map, or has a row that
\* the start has not passed by.
LatelyKept ==
    \A e \in (1..posted) \ (cleared \cup overrun \cup lost) :
        Recent(e, posted) => \/ e \in ToSet(Memory)
                     \/ /\ e <= before /\ rows[e] > 0
                        /\ hydrating.at = "read" => e \in ToSet(hydrating.entries)

ClearTakes ==
    /\ clearing # "deleting" => \A e \in cleared : rows[e] > 0 => e \in late
    /\ cleared \cap (ToSet(Memory) \cup saving \cup ToSet(hydrating.entries)) \subseteq late
    /\ \A s \in spills : cleared \cap ToSet(array[s.array]) \subseteq late

HermesInductive ==
    HermesTypeOK /\ SavedOnce /\ ArraysInOrder /\ LatelyKept /\ ClearTakes

\* The rows of the entries up to n, in their order.
RowsUpTo(s, n) ==
    /\ s \in Seq(Nat)
    /\ \A i \in DOMAIN s : s[i] \in 1..n /\ rows[s[i]] > 0
    /\ \A e \in 1..n : rows[e] > 0 => \E i \in DOMAIN s : s[i] = e
    /\ \A i, j \in DOMAIN s : i < j => s[i] <= s[j] /\ (s[i] = s[j] => rows[s[j]] > 1)

\* The rows of one more entry come after those of the entries before it.
LEMMA NextRows ==
    ASSUME rows \in [Entries -> Nat], NEW n \in Entries, NEW s, RowsUpTo(s, n - 1)
    PROVE  RowsUpTo(s \o [i \in 1..rows[n] |-> n], n)
  <1> DEFINE k == rows[n]
             t == [i \in 1..k |-> n]
             all == s \o t
             m == Len(s)
  <1>1. n \in Nat /\ n > 0 /\ k \in Nat
    BY MemoryAssumption DEF Entries
  <1> HIDE DEF k
  <1>2. t \in Seq(Nat) /\ Len(t) = k /\ \A i \in 1..k : t[i] = n
    BY <1>1
  <1>3. s \in Seq(Nat) /\ m \in Nat
    BY DEF RowsUpTo
  <1> HIDE DEF t
  <1>4. /\ all \in Seq(Nat) /\ DOMAIN all = 1..(m + k)
        /\ \A i \in 1..m : all[i] = s[i]
        /\ \A i \in 1..(m + k) : i > m => all[i] = n
    BY <1>1, <1>2, <1>3
  <1> HIDE DEF all
  <1>5. DOMAIN s = 1..m
    BY <1>3
  <1> HIDE DEF m
  <1>6. ASSUME NEW i \in DOMAIN all PROVE all[i] \in 1..n /\ rows[all[i]] > 0
    <2>1. CASE i <= m
      <3>1. s[i] \in 1..(n - 1) /\ rows[s[i]] > 0
        BY <1>3, <1>4, <1>5, <2>1 DEF RowsUpTo
      <3> QED
        BY <1>1, <1>3, <1>4, <2>1, <3>1
    <2>2. CASE i > m
      BY <1>1, <1>3, <1>4, <2>2 DEF k
    <2> QED
      BY <1>1, <1>3, <1>4, <2>1, <2>2
  <1>7. ASSUME NEW e \in 1..n, rows[e] > 0 PROVE \E i \in DOMAIN all : all[i] = e
    <2>1. CASE e = n
      <3>1. m + 1 \in 1..(m + k) /\ m + 1 > m
        BY <1>1, <1>3, <1>7, <2>1 DEF k
      <3> QED
        BY <1>4, <2>1, <3>1
    <2>2. CASE e # n
      <3>1. e \in 1..(n - 1)
        BY <1>1, <2>2
      <3>2. PICK i \in DOMAIN s : s[i] = e
        BY <1>7, <3>1 DEF RowsUpTo
      <3>3. i \in 1..(m + k) /\ i \in 1..m
        BY <1>1, <1>3, <1>5
      <3> QED
        BY <1>4, <3>2, <3>3
    <2> QED
      BY <2>1, <2>2
  <1>8. ASSUME NEW i \in DOMAIN all, NEW j \in DOMAIN all, i < j
        PROVE  all[i] <= all[j] /\ (all[i] = all[j] => rows[all[j]] > 1)
    <2>1. CASE j <= m
      <3>1. i \in DOMAIN s /\ j \in DOMAIN s /\ all[i] = s[i] /\ all[j] = s[j]
        BY <1>1, <1>3, <1>4, <1>5, <1>8, <2>1
      <3> QED
        BY <1>8, <3>1 DEF RowsUpTo
    <2>2. CASE j > m /\ i <= m
      <3>1. i \in DOMAIN s /\ all[i] = s[i] /\ all[j] = n
        BY <1>1, <1>3, <1>4, <1>5, <2>2
      <3>2. s[i] \in 1..(n - 1)
        BY <3>1 DEF RowsUpTo
      <3> QED
        BY <1>1, <3>1, <3>2
    <2>3. CASE j > m /\ i > m
      <3>1. all[i] = n /\ all[j] = n /\ k > 1
        BY <1>1, <1>3, <1>4, <1>8, <2>3
      <3> QED
        BY <1>1, <3>1 DEF k
    <2> QED
      BY <1>1, <1>3, <1>4, <2>1, <2>2, <2>3
  <1>9. RowsUpTo(all, n)
    BY <1>4, <1>6, <1>7, <1>8 DEF RowsUpTo
  <1> QED
    BY <1>9 DEF all, t, k

AllRows == FlattenSeq([e \in Entries |-> [i \in 1..rows[e] |-> e]])

\* What the database has is the rows of all entries in their order.
LEMMA RowsFlattened ==
    ASSUME rows \in [Entries -> Nat]
    PROVE  RowsUpTo(AllRows, MaxEntries)
  <1> DEFINE seqs == [e \in Entries |-> [i \in 1..rows[e] |-> e]]
  <1>1. MaxEntries \in Nat
    BY MemoryAssumption
  <1>2. /\ \A e \in Entries : seqs[e] \in Seq(Nat) /\ seqs[e] = [i \in 1..rows[e] |-> e]
        /\ seqs \in Seq(Seq(Nat)) /\ Len(seqs) = MaxEntries
    BY <1>1 DEF Entries
  <1> HIDE DEF seqs
  <1>3. RowsUpTo(<<>>, 0)
    BY DEF RowsUpTo
  <1>4. CASE MaxEntries = 0
    <2>1. seqs = <<>>
      BY <1>2, <1>4
    <2>2. FlattenSeq(seqs) = <<>>
      BY <2>1 DEF FlattenSeq
    <2> QED
      BY <1>3, <1>4, <2>2 DEF AllRows, seqs
  <1>5. CASE MaxEntries > 0
    <2>1. seqs # <<>>
      BY <1>2, <1>5
    <2>2. PICK f : /\ DOMAIN f = 1..Len(seqs) /\ f[1] = seqs[1]
                   /\ FlattenSeq(seqs) = f[Len(seqs)]
                   /\ \A i \in 1..Len(seqs) : i > 1 => f[i] = f[i - 1] \o seqs[i]
      BY <1>2, <2>1, Flattened
    <2>3. RowsUpTo(f[1], 1)
      <3>1. 1 \in Entries /\ 1 - 1 = 0
        BY <1>1, <1>5 DEF Entries
      <3>2. RowsUpTo(<<>> \o seqs[1], 1)
        BY <1>2, <1>3, <3>1, NextRows
      <3>3. <<>> \o seqs[1] = seqs[1]
        BY <1>2, <3>1
      <3> QED
        BY <2>2, <3>2, <3>3
    <2>4. ASSUME NEW i \in Entries, i > 1, RowsUpTo(f[i - 1], i - 1) PROVE RowsUpTo(f[i], i)
      <3>1. f[i] = f[i - 1] \o seqs[i]
        BY <1>2, <2>2, <2>4 DEF Entries
      <3>2. RowsUpTo(f[i - 1] \o [j \in 1..rows[i] |-> i], i)
        BY <2>4, NextRows
      <3> QED
        BY <1>2, <3>1, <3>2
    <2>5. \A i \in Entries : RowsUpTo(f[i], i)
      <3> DEFINE T == {i \in Entries : ~RowsUpTo(f[i], i)}
      <3>1. T \subseteq Nat
        BY <1>1 DEF Entries
      <3>2. CASE T # {}
        <4>1. PICK x \in T : \A y \in T : x <= y
          <5> HIDE DEF T
          <5> QED
            BY <3>1, <3>2, FirstOf
        <4>2. x \in Entries /\ x # 1 /\ ~RowsUpTo(f[x], x)
          BY <2>3
        <4>3. x > 1 /\ x - 1 \in Entries /\ x - 1 < x
          BY <1>1, <4>2 DEF Entries
        <4>4. x - 1 \notin T
          BY <1>1, <4>1, <4>3 DEF Entries
        <4> QED
          BY <2>4, <4>2, <4>3, <4>4
      <3> QED
        BY <3>2
    <2>6. MaxEntries \in Entries
      BY <1>1, <1>5 DEF Entries
    <2> QED
      BY <1>2, <2>2, <2>5, <2>6 DEF AllRows, seqs
  <1> QED
    BY <1>1, <1>4, <1>5

\* All rows are in order, and tell which entries have one.
LEMMA RowsInOrder ==
    ASSUME HermesTypeOK, SavedOnce
    PROVE  /\ AllRows \in Seq(Nat) /\ InOrder(AllRows, posted)
           /\ \A e \in Entries : e \in ToSet(AllRows) <=> rows[e] > 0
           /\ ToSet(AllRows) \subseteq Entries
  <1>1. RowsUpTo(AllRows, MaxEntries) /\ posted \in Nat /\ MaxEntries \in Nat
    BY RowsFlattened, MemoryAssumption DEF HermesTypeOK
  <1> DEFINE all == AllRows
  <1> HIDE DEF all
  <1>2. /\ all \in Seq(Nat)
        /\ \A i \in DOMAIN all : all[i] \in Entries /\ rows[all[i]] > 0
        /\ \A e \in Entries : rows[e] > 0 => \E i \in DOMAIN all : all[i] = e
        /\ \A i, j \in DOMAIN all : i < j => all[i] <= all[j] /\ (all[i] = all[j] => rows[all[j]] > 1)
    BY <1>1 DEF RowsUpTo, Entries, all
  <1>3. \A i \in DOMAIN all : all[i] \in 1..posted
    BY <1>1, <1>2 DEF SavedOnce, Entries
  <1>4. \A i \in DOMAIN all : Recent(all[i], posted) => rows[all[i]] = 1
    BY <1>2 DEF SavedOnce
  <1>5. InOrder(all, posted)
    BY <1>2, <1>3, <1>4 DEF InOrder
  <1> QED
    BY <1>2, <1>5 DEF ToSet, all

\* Places in a sequence without its head.
LEMMA Shifted ==
    ASSUME NEW l \in Nat, NEW d \in Nat
    PROVE  /\ \A i \in 1..(l - d) : i \in Nat /\ i + d \in 1..l
           /\ \A i \in 1..l : i > d => i - d \in 1..(l - d) /\ (i - d) + d = i
  OBVIOUS

\* One step of a climb.
LEMMA OneMore ==
    ASSUME NEW a \in Nat, NEW b \in Nat, NEW c \in Nat, NEW i \in Nat, NEW j \in Nat,
           a >= c + (j - 1 - i), a <= b, a # b
    PROVE  b >= c + (j - i)
  OBVIOUS

\* Entries posted lately climb by one at least, so none is far from the end.
LEMMA Climbs ==
    ASSUME NEW q \in Seq(Nat), NEW many \in Nat, InOrder(q, many),
           NEW i \in DOMAIN q, Recent(q[i], many)
    PROVE  /\ \A j \in DOMAIN q : j >= i => q[j] >= q[i] + (j - i)
           /\ Len(q) - i <= many - q[i]
  <1>1. SummaryThreshold \in Nat /\ Len(q) \in Nat /\ DOMAIN q = 1..Len(q) /\ i \in 1..Len(q)
    BY MemoryAssumption
  <1>2. \A j \in DOMAIN q : q[j] \in 1..many
    BY DEF InOrder
  <1>3. ASSUME NEW j \in DOMAIN q, j > i, q[j - 1] >= q[i] + (j - 1 - i)
        PROVE  q[j] >= q[i] + (j - i)
    <2>1. j - 1 \in DOMAIN q /\ j - 1 < j /\ j \in Nat
      BY <1>1, <1>3
    <2>2. Recent(q[j], many) /\ q[j - 1] <= q[j]
      <3>1. q[j - 1] <= q[j] /\ q[i] <= q[j]
        BY <1>3, <2>1 DEF InOrder
      <3> QED
        BY <1>1, <1>2, <3>1 DEF Recent
    <2>3. q[j - 1] # q[j]
      BY <2>1, <2>2 DEF InOrder
    <2>4. q[j] \in Nat /\ q[j - 1] \in Nat /\ q[i] \in Nat /\ i \in Nat
      BY <1>1, <1>2, <2>1
    <2> QED
      BY <1>3, <2>1, <2>2, <2>3, <2>4, OneMore
  <1> DEFINE T == {j \in DOMAIN q : j >= i /\ ~(q[j] >= q[i] + (j - i))}
  <1>4. T = {}
    <2> SUFFICES ASSUME T # {} PROVE FALSE
      OBVIOUS
    <2>1. T \subseteq Nat
      BY <1>1
    <2>2. PICK x \in T : \A y \in T : x <= y
      <3> HIDE DEF T
      <3> QED
        BY <2>1, FirstOf
    <2>3. x \in DOMAIN q /\ x >= i /\ ~(q[x] >= q[i] + (x - i))
      OBVIOUS
    <2>4. x > i
      BY <1>1, <1>2, <2>3
    <2>5. x - 1 \in DOMAIN q /\ x - 1 >= i /\ x - 1 < x
      BY <1>1, <2>3, <2>4
    <2>6. q[x - 1] >= q[i] + (x - 1 - i)
      BY <2>2, <2>5
    <2> QED
      BY <1>3, <2>3, <2>4, <2>6
  <1>5. \A j \in DOMAIN q : j >= i => q[j] >= q[i] + (j - i)
    BY <1>4
  <1>6. q[Len(q)] >= q[i] + (Len(q) - i) /\ q[Len(q)] \in 1..many
    BY <1>1, <1>2, <1>5
  <1> QED
    BY <1>1, <1>2, <1>5, <1>6

\* The newest entries of a sequence.
LEMMA NewestHas ==
    ASSUME NEW q \in Seq(Nat), NEW n \in Nat
    PROVE  \E d \in Nat :
              /\ d <= Len(q) /\ Len(q) - d <= n /\ (d > 0 => Len(q) - d = n)
              /\ NewestOf(q, n) \in Seq(Nat) /\ Len(NewestOf(q, n)) = Len(q) - d
              /\ \A i \in 1..(Len(q) - d) : NewestOf(q, n)[i] = q[i + d]
  <1> DEFINE d == IF Len(q) > n THEN Len(q) - n ELSE 0
             first == IF Len(q) > n THEN Len(q) - n + 1 ELSE 1
  <1>1. Len(q) \in Nat /\ d \in Nat /\ first = d + 1 /\ first \in Nat /\ d <= Len(q)
    OBVIOUS
  <1>2. Len(q) - d <= n /\ (d > 0 => Len(q) - d = n)
    OBVIOUS
  <1>3. NewestOf(q, n) = SubSeq(q, first, Len(q))
    BY DEF NewestOf
  <1> HIDE DEF d, first
  <1>4. /\ SubSeq(q, first, Len(q)) \in Seq(Nat)
        /\ Len(SubSeq(q, first, Len(q))) = Len(q) - d
        /\ \A i \in 1..(Len(q) - d) : SubSeq(q, first, Len(q))[i] = q[i + d]
    BY <1>1
  <1> QED
    BY <1>1, <1>2, <1>3, <1>4

\* The newest entries of a sequence in order are in order, and have what was posted lately.
LEMMA NewestInOrder ==
    ASSUME NEW q \in Seq(Nat), NEW n \in Nat, NEW many \in Nat, InOrder(q, many)
    PROVE  /\ NewestOf(q, n) \in Seq(Nat) /\ InOrder(NewestOf(q, n), many)
           /\ ToSet(NewestOf(q, n)) \subseteq ToSet(q)
           /\ \A e \in ToSet(q) : Recent(e, many) /\ many - e < n => e \in ToSet(NewestOf(q, n))
  <1> DEFINE new == NewestOf(q, n)
  <1>1. PICK d \in Nat : /\ d <= Len(q) /\ Len(q) - d <= n /\ (d > 0 => Len(q) - d = n)
                         /\ new \in Seq(Nat) /\ Len(new) = Len(q) - d
                         /\ \A i \in 1..(Len(q) - d) : new[i] = q[i + d]
    BY NewestHas
  <1> HIDE DEF new
  <1>2. DOMAIN new = 1..(Len(q) - d) /\ DOMAIN q = 1..Len(q) /\ Len(q) \in Nat
    BY <1>1
  <1>3. \A i \in DOMAIN new : i \in Nat /\ i + d \in DOMAIN q /\ new[i] = q[i + d]
    <2> SUFFICES ASSUME NEW i \in DOMAIN new PROVE i \in Nat /\ i + d \in DOMAIN q /\ new[i] = q[i + d]
      OBVIOUS
    <2>1. i \in 1..(Len(q) - d)
      BY <1>2
    <2>2. i \in Nat /\ i + d \in 1..Len(q)
      BY <1>2, <2>1, Shifted
    <2> QED
      BY <1>1, <1>2, <2>1, <2>2
  <1>4. InOrder(new, many)
    <2>1. \A i \in DOMAIN new : new[i] \in 1..many
      BY <1>3 DEF InOrder
    <2>2. ASSUME NEW i \in DOMAIN new, NEW j \in DOMAIN new, i < j
          PROVE  new[i] <= new[j] /\ (Recent(new[j], many) => new[i] # new[j])
      <3>1. i + d < j + d
        BY <1>1, <1>2, <2>2
      <3> QED
        BY <1>3, <3>1 DEF InOrder
    <2> QED
      BY <2>1, <2>2 DEF InOrder
  <1>5. ToSet(new) \subseteq ToSet(q)
    BY <1>3 DEF ToSet
  <1>6. ASSUME NEW i \in DOMAIN q, Recent(q[i], many), many - q[i] < n PROVE q[i] \in ToSet(new)
    <2>1. Len(q) - i <= many - q[i]
      BY <1>6, Climbs
    <2>2. q[i] \in Nat /\ i \in Nat /\ i > 0 /\ i <= Len(q)
      BY <1>2
    <2>3. i > d
      <3>1. Len(q) - i < n
        BY <1>2, <1>6, <2>1, <2>2
      <3>2. CASE d = 0
        BY <2>2, <3>2
      <3>3. CASE d > 0
        BY <1>1, <1>2, <2>2, <3>1, <3>3
      <3> QED
        BY <1>1, <3>2, <3>3
    <2>4. i - d \in DOMAIN new /\ (i - d) + d = i
      BY <1>2, <2>3, Shifted
    <2>5. new[i - d] = q[i]
      BY <1>3, <2>4
    <2> QED
      BY <2>4, <2>5 DEF ToSet
  <1> QED
    BY <1>1, <1>4, <1>5, <1>6 DEF ToSet, new

\* The array of the map.
LEMMA MemoryIs ==
    ASSUME HermesTypeOK, ArraysInOrder
    PROVE  /\ Memory \in Seq(Nat) /\ InOrder(Memory, posted)
           /\ \A e \in ToSet(Memory) : e > before /\ e \in 1..posted
           /\ current # NoArray => current \in Arrays /\ Memory = array[current]
           /\ current = NoArray => Memory = <<>>
  <1>1. CASE current = NoArray
    <2>1. Memory = <<>> /\ ToSet(<<>>) = {}
      BY <1>1 DEF Memory, ToSet
    <2> QED
      BY <1>1, <2>1 DEF InOrder
  <1>2. CASE current # NoArray
    <2>1. current \in Arrays /\ current \in InUse /\ Memory = array[current]
      BY <1>2 DEF HermesTypeOK, InUse, Memory
    <2>2. \A e \in ToSet(Memory) : e > before /\ InOrder(Memory, posted)
      BY <2>1 DEF ArraysInOrder
    <2>3. Memory \in Seq(Nat) /\ InOrder(Memory, posted)
      BY <2>1 DEF HermesTypeOK, ArraysInOrder
    <2>4. \A e \in ToSet(Memory) : e \in 1..posted
      BY <2>3 DEF ToSet, InOrder
    <2> QED
      BY <1>2, <2>1, <2>2, <2>3, <2>4
  <1> QED
    BY <1>1, <1>2

\* There is a name that nothing refers to.
LEMMA FreshIs ==
    ASSUME HermesTypeOK
    PROVE  FreshArray \in Arrays /\ FreshArray # current /\ \A s \in spills : s.array # FreshArray
  <1> DEFINE held == {s.array : s \in spills}
             used == held \cup {current}
             f == [s \in spills |-> s.array]
  <1>1. IsFiniteSet(spills) /\ Cardinality(spills) <= MaxSpills /\ MaxSpills \in Nat
        /\ IsFiniteSet(Arrays) /\ Cardinality(Arrays) > MaxSpills + 1
    BY MemoryAssumption DEF HermesTypeOK
  <1>2. f \in Surjection(spills, held)
    BY DEF Surjection
  <1> HIDE DEF f, held
  <1>3. IsFiniteSet(held) /\ Cardinality(held) <= Cardinality(spills)
    BY <1>1, <1>2, FS_Surjection
  <1>4. Cardinality(held) \in Nat /\ Cardinality(spills) \in Nat
    BY <1>1, <1>3, FS_CardinalityType
  <1>5. IsFiniteSet(used) /\ Cardinality(used) \in Nat /\ Cardinality(used) <= Cardinality(held) + 1
    BY <1>3, <1>4, FS_AddElement
  <1> HIDE DEF used
  <1>6. \E a \in Arrays : a \notin used
    <2> SUFFICES ASSUME Arrays \subseteq used PROVE FALSE
      OBVIOUS
    <2>1. Cardinality(Arrays) <= Cardinality(used)
      BY <1>5, FS_Subset
    <2>2. Cardinality(Arrays) \in Nat
      BY <1>1, FS_CardinalityType
    <2> QED
      BY <1>1, <1>3, <1>4, <1>5, <2>1, <2>2
  <1>7. \E a \in Arrays : a # current /\ \A s \in spills : s.array # a
    BY <1>6 DEF used, held
  <1> QED
    BY <1>7 DEF FreshArray

\* A longer conversation leaves an order as it is.
LEMMA StillInOrder ==
    ASSUME NEW q \in Seq(Nat), NEW many \in Nat, InOrder(q, many)
    PROVE  InOrder(q, many + 1)
  <1>1. \A i \in DOMAIN q : q[i] \in 1..many /\ q[i] \in Nat
    BY DEF InOrder
  <1>2. \A e \in Nat : Recent(e, many + 1) => Recent(e, many)
    BY MemoryAssumption DEF Recent
  <1>3. \A i \in DOMAIN q : q[i] \in 1..(many + 1)
    BY <1>1
  <1> QED
    BY <1>1, <1>2, <1>3 DEF InOrder

\* An entry that is posted comes last.
LEMMA OneMoreInOrder ==
    ASSUME NEW q \in Seq(Nat), NEW many \in Nat, InOrder(q, many)
    PROVE  /\ Append(q, many + 1) \in Seq(Nat) /\ InOrder(Append(q, many + 1), many + 1)
           /\ ToSet(Append(q, many + 1)) = ToSet(q) \cup {many + 1}
           /\ Len(Append(q, many + 1)) = Len(q) + 1
  <1> DEFINE next == Append(q, many + 1)
  <1>1. /\ next \in Seq(Nat) /\ Len(next) = Len(q) + 1 /\ next[Len(q) + 1] = many + 1
        /\ \A i \in 1..Len(q) : next[i] = q[i]
    OBVIOUS
  <1> HIDE DEF next
  <1>2. DOMAIN next = 1..(Len(q) + 1) /\ DOMAIN q = 1..Len(q) /\ Len(q) \in Nat
    BY <1>1
  <1>3. \A i \in DOMAIN next : i \in DOMAIN q \/ i = Len(q) + 1
    BY <1>2
  <1>4. \A i \in DOMAIN q : i \in DOMAIN next /\ next[i] = q[i] /\ q[i] \in 1..many
    BY <1>1, <1>2 DEF InOrder
  <1>5. InOrder(q, many + 1)
    BY StillInOrder
  <1>6. ASSUME NEW i \in DOMAIN next PROVE next[i] \in 1..(many + 1)
    <2>1. CASE i \in DOMAIN q
      <3>1. next[i] \in 1..many
        BY <1>4, <2>1
      <3> QED
        BY <3>1
    <2>2. CASE i = Len(q) + 1
      BY <1>1, <2>2
    <2> QED
      BY <1>3, <2>1, <2>2
  <1>7. ASSUME NEW i \in DOMAIN next, NEW j \in DOMAIN next, i < j
        PROVE  next[i] <= next[j] /\ (Recent(next[j], many + 1) => next[i] # next[j])
    <2>1. i \in DOMAIN q
      BY <1>2, <1>7
    <2>2. CASE j \in DOMAIN q
      BY <1>4, <1>5, <1>7, <2>1, <2>2 DEF InOrder
    <2>3. CASE j = Len(q) + 1
      <3>1. next[j] = many + 1 /\ next[i] \in 1..many
        BY <1>1, <1>4, <2>1, <2>3
      <3> QED
        BY <3>1
    <2> QED
      BY <1>3, <2>2, <2>3
  <1>8. ToSet(next) = ToSet(q) \cup {many + 1}
    <2>1. \A i \in DOMAIN next : next[i] \in ToSet(q) \cup {many + 1}
      BY <1>1, <1>3, <1>4 DEF ToSet
    <2>2. \A i \in DOMAIN q : q[i] \in ToSet(next)
      BY <1>4 DEF ToSet
    <2>3. many + 1 \in ToSet(next)
      <3>1. Len(q) + 1 \in DOMAIN next
        BY <1>2
      <3> QED
        BY <1>1, <3>1 DEF ToSet
    <2> QED
      BY <2>1, <2>2, <2>3 DEF ToSet
  <1> QED
    BY <1>1, <1>6, <1>7, <1>8 DEF InOrder, next

\* What a cut takes off the head of an array was not posted lately.
LEMMA HeadIsOld ==
    ASSUME NEW q \in Seq(Nat), NEW many \in Nat, InOrder(q, many), Len(q) >= SummaryThreshold
    PROVE  /\ SubSeq(q, 1, Len(q) - SummaryThreshold) \in Seq(Nat)
           /\ \A e \in ToSet(SubSeq(q, 1, Len(q) - SummaryThreshold)) :
                 e \in ToSet(q) /\ ~Recent(e, many)
  <1> DEFINE n == Len(q) - SummaryThreshold
             head == SubSeq(q, 1, n)
  <1>1. n \in Nat /\ n <= Len(q) /\ Len(q) \in Nat /\ SummaryThreshold \in Nat
    BY MemoryAssumption
  <1>2. n + SummaryThreshold = Len(q)
    BY <1>1
  <1> HIDE DEF n
  <1>3. head \in Seq(Nat) /\ DOMAIN head = 1..n /\ \A i \in 1..n : head[i] = q[i]
    BY <1>1
  <1> HIDE DEF head
  <1>4. ASSUME NEW i \in 1..n PROVE q[i] \in ToSet(q) /\ ~Recent(q[i], many)
    <2>1. i \in DOMAIN q /\ i \in Nat
      BY <1>1
    <2>2. ASSUME Recent(q[i], many) PROVE FALSE
      <3>1. Len(q) - i <= many - q[i]
        BY <2>1, <2>2, Climbs
      <3>2. many - q[i] < SummaryThreshold /\ q[i] \in Nat
        BY <2>1, <2>2 DEF Recent
      <3> QED
        BY <1>1, <1>2, <2>1, <3>1, <3>2
    <2> QED
      BY <2>1, <2>2 DEF ToSet
  <1> QED
    BY <1>3, <1>4 DEF ToSet, head, n

\* Posting leaves the order, and its cut takes nothing that was posted lately.
LEMMA PostKeeps ==
    ASSUME HermesInductive, PostMemory
    PROVE  HermesInductive'
  <1> DEFINE e == posted + 1
             a == IF current = NoArray THEN FreshArray ELSE current
             entries == Append(Memory, e)
             new == [by |-> e, array |-> a, saved |-> FALSE,
                     cut |-> SubSeq(entries, 1, Len(entries) - SummaryThreshold)]
  <1>1. HermesTypeOK /\ SavedOnce /\ ArraysInOrder /\ LatelyKept /\ ClearTakes
    BY DEF HermesInductive
  <1>2. /\ posted' = e /\ saving' = saving \cup {e} /\ array' = [array EXCEPT ![a] = entries]
        /\ UNCHANGED <<rows, clearing, hydrating, before, cleared, late, overrun, lost>>
    BY DEF PostMemory
  <1>3. /\ Len(entries) > MemoryLimit => /\ Cardinality(spills) < MaxSpills
                                         /\ spills' = spills \cup {new} /\ current' = current
        /\ ~(Len(entries) > MemoryLimit) => current' = a /\ spills' = spills
    BY DEF PostMemory
  <1>4. /\ posted \in Nat /\ MaxEntries \in Nat /\ e \in Entries /\ e \in Nat /\ e = posted + 1
        /\ e \in 1..e /\ \A x \in 1..posted : x \in 1..e /\ x # e
        /\ MemoryLimit \in Nat /\ SummaryThreshold \in Nat /\ SummaryThreshold > 0
        /\ SummaryThreshold <= MemoryLimit
    BY <1>1, MemoryAssumption DEF HermesTypeOK, Entries, PostMemory
  <1>5. /\ a \in Arrays /\ a # NoArray /\ (current # NoArray => a = current)
        /\ current = NoArray => Memory = <<>> /\ \A s \in spills : s.array # a
        /\ current # NoArray => Memory = array[a]
    BY <1>1, FreshIs, MemoryIs, MemoryAssumption
  <1>6. /\ Memory \in Seq(Nat) /\ InOrder(Memory, posted)
        /\ \A x \in ToSet(Memory) : x > before /\ x \in 1..posted
    BY <1>1, MemoryIs
  <1>7. /\ entries \in Seq(Nat) /\ InOrder(entries, e) /\ Len(entries) = Len(Memory) + 1
        /\ ToSet(entries) = ToSet(Memory) \cup {e}
    BY <1>4, <1>6, OneMoreInOrder
  <1>8. current' = a
    <2>1. CASE Len(entries) > MemoryLimit
      <3>1. Memory # <<>>
        BY <1>4, <1>6, <1>7, <2>1
      <3> QED
        BY <1>3, <1>5, <2>1, <3>1
    <2> QED
      BY <1>3, <2>1
  <1> DEFINE Cut(s) == /\ s \in Spill /\ s.array = a
                       /\ \A x \in ToSet(s.cut) : x \in ToSet(entries) /\ ~Recent(x, e)
  <1>9. /\ spills' = spills \/ (spills' = spills \cup {new} /\ Cut(new))
        /\ IsFiniteSet(spills') /\ Cardinality(spills') <= MaxSpills
    <2>1. CASE Len(entries) > MemoryLimit
      <3>1. Len(entries) \in Nat /\ Len(entries) >= SummaryThreshold
        BY <1>4, <1>7, <2>1
      <3>2. /\ new.cut \in Seq(Nat)
            /\ \A x \in ToSet(new.cut) : x \in ToSet(entries) /\ ~Recent(x, e)
        <4> HIDE DEF entries, e
        <4> QED
          BY <1>4, <1>7, <3>1, HeadIsOld
      <3>3. Cut(new)
        <4>1. new.array = a /\ new.by = e /\ new.saved = FALSE
          OBVIOUS
        <4>2. new = [by |-> new.by, array |-> new.array, saved |-> new.saved, cut |-> new.cut]
          OBVIOUS
        <4> HIDE DEF new, a, e
        <4> QED
          BY <1>4, <1>5, <3>2, <4>1, <4>2 DEF Spill
      <3>4. spills' = spills \cup {new} /\ Cardinality(spills) < MaxSpills
        BY <1>3, <2>1
      <3>5. IsFiniteSet(spills') /\ Cardinality(spills') <= MaxSpills
        <4>1. IsFiniteSet(spills) /\ Cardinality(spills) \in Nat /\ MaxSpills \in Nat
          BY <1>1, MemoryAssumption, FS_CardinalityType DEF HermesTypeOK
        <4> HIDE DEF new
        <4> QED
          BY <3>4, <4>1, FS_AddElement
      <3> QED
        BY <3>3, <3>4, <3>5
    <2>2. CASE ~(Len(entries) > MemoryLimit)
      BY <1>1, <1>3, <2>2 DEF HermesTypeOK
    <2> QED
      BY <2>1, <2>2
  <1>10. \A s \in spills' : s \in spills \/ Cut(s)
    <2> HIDE DEF Cut, new
    <2> QED
      BY <1>9
  <1>11. /\ array' \in [Arrays -> Seq(Nat)] /\ array'[a] = entries
         /\ \A b \in Arrays : b # a => array'[b] = array[b]
    <2> HIDE DEF entries, a
    <2> QED
      BY <1>1, <1>2, <1>5, <1>7 DEF HermesTypeOK
  <1>12. Memory' = entries
    <2> HIDE DEF entries, a
    <2> QED
      BY <1>5, <1>8, <1>11 DEF Memory
  <1> HIDE DEF a, entries, new
  <1>13. ASSUME NEW s \in spills
         PROVE  /\ s \in Spill /\ s.array \in Arrays /\ s.array \in InUse
                /\ ToSet(array[s.array]) \subseteq ToSet(array'[s.array])
                /\ ToSet(array'[s.array]) \subseteq ToSet(array[s.array]) \cup {e}
    <2>1. s \in Spill /\ s.array \in Arrays /\ s.array \in InUse
      BY <1>1 DEF HermesTypeOK, Spill, InUse
    <2>2. CASE s.array = a
      <3>1. array[a] = Memory /\ array'[a] = entries
        BY <1>5, <1>11, <2>2
      <3> QED
        BY <1>7, <2>1, <2>2, <3>1
    <2>3. CASE s.array # a
      BY <1>11, <2>1, <2>3
    <2> QED
      BY <2>1, <2>2, <2>3
  <1>14. \A x \in Nat : Recent(x, e) => Recent(x, posted)
    BY <1>4 DEF Recent
  <1>15. HermesTypeOK'
    <2>1. spills' \subseteq Spill
      BY <1>10, <1>13
    <2>2. posted' \in 0..MaxEntries /\ saving' \subseteq 1..posted' /\ before' \in 0..posted'
          /\ cleared' \subseteq 1..posted'
      BY <1>1, <1>2, <1>4 DEF HermesTypeOK, PostMemory
    <2> QED
      BY <1>1, <1>2, <1>5, <1>8, <1>9, <1>11, <2>1, <2>2 DEF HermesTypeOK
  <1>16. SavedOnce'
    <2>1. ASSUME NEW x \in Entries, Recent(x, posted'), rows'[x] > 0
          PROVE  rows'[x] = 1 /\ x \notin saving'
      <3>1. x # e /\ x \in Nat /\ Recent(x, posted)
        BY <1>1, <1>2, <1>4, <1>14, <2>1 DEF SavedOnce, Entries
      <3> QED
        BY <1>1, <1>2, <2>1, <3>1 DEF SavedOnce
    <2>2. \A x \in Entries : x > posted' => rows'[x] = 0
      BY <1>1, <1>2, <1>4 DEF SavedOnce, Entries
    <2>3. ASSUME NEW s \in spills', NEW x \in ToSet(s.cut)
          PROVE  x \in ToSet(array'[s.array]) /\ ~Recent(x, posted')
      <3>1. CASE s \in spills
        <4>1. x \in ToSet(array[s.array]) /\ ~Recent(x, posted)
          BY <1>1, <2>3, <3>1 DEF SavedOnce
        <4>2. array[s.array] \in Seq(Nat)
          BY <1>1, <1>13, <3>1 DEF HermesTypeOK
        <4>3. x \in Nat
          BY <4>1, <4>2 DEF ToSet
        <4> QED
          BY <1>2, <1>13, <1>14, <3>1, <4>1, <4>3
      <3>2. CASE Cut(s)
        BY <1>2, <1>11, <2>3, <3>2
      <3> QED
        BY <1>10, <2>3, <3>1, <3>2
    <2> QED
      BY <2>1, <2>2, <2>3 DEF SavedOnce
  <1>17. ArraysInOrder'
    <2>1. ASSUME NEW b \in InUse'
          PROVE  InOrder(array'[b], posted') /\ \A x \in ToSet(array'[b]) : x > before'
      <3>1. CASE b = a
        BY <1>1, <1>2, <1>4, <1>6, <1>7, <1>11, <3>1 DEF HermesTypeOK
      <3>2. CASE b # a
        <4>1. b \in InUse /\ b \in Arrays
          BY <1>8, <1>10, <1>13, <2>1, <3>2 DEF InUse
        <4>2. array'[b] = array[b] /\ array[b] \in Seq(Nat)
          BY <1>1, <1>11, <3>2, <4>1 DEF HermesTypeOK
        <4>3. InOrder(array[b], posted) /\ \A x \in ToSet(array[b]) : x > before
          BY <1>1, <4>1 DEF ArraysInOrder
        <4>4. InOrder(array[b], posted + 1)
          BY <1>4, <4>2, <4>3, StillInOrder
        <4> QED
          BY <1>2, <4>2, <4>3, <4>4
      <3> QED
        BY <3>1, <3>2
    <2>2. InOrder(hydrating'.entries, posted')
      <3>1. hydrating.entries \in Seq(Nat) /\ InOrder(hydrating.entries, posted)
        BY <1>1 DEF HermesTypeOK, ArraysInOrder
      <3>2. InOrder(hydrating.entries, posted + 1)
        BY <1>4, <3>1, StillInOrder
      <3> QED
        BY <1>2, <3>2
    <2> QED
      BY <2>1, <2>2 DEF ArraysInOrder
  <1>18. LatelyKept'
    <2> SUFFICES ASSUME NEW x \in (1..posted') \ (cleared' \cup overrun' \cup lost'),
                        Recent(x, posted')
                 PROVE  \/ x \in ToSet(Memory')
                        \/ /\ x <= before' /\ rows'[x] > 0
                           /\ hydrating'.at = "read" => x \in ToSet(hydrating'.entries)
      BY DEF LatelyKept
    <2>1. CASE x = e
      BY <1>7, <1>12, <2>1
    <2>2. CASE x # e
      <3>1. x \in (1..posted) \ (cleared \cup overrun \cup lost) /\ Recent(x, posted)
        BY <1>2, <1>4, <1>14, <2>2
      <3> QED
        BY <1>1, <1>2, <1>7, <1>12, <3>1 DEF LatelyKept
    <2> QED
      BY <2>1, <2>2
  <1>19. ClearTakes'
    <2>1. e \notin cleared
      BY <1>1, <1>4 DEF HermesTypeOK
    <2>2. cleared' \cap (ToSet(Memory') \cup saving' \cup ToSet(hydrating'.entries)) \subseteq late'
      BY <1>1, <1>2, <1>7, <1>12, <2>1 DEF ClearTakes
    <2>3. ASSUME NEW s \in spills' PROVE cleared' \cap ToSet(array'[s.array]) \subseteq late'
      <3>1. CASE s \in spills
        BY <1>1, <1>2, <1>13, <2>1, <3>1 DEF ClearTakes
      <3>2. CASE Cut(s)
        <4>1. array'[s.array] = entries
          BY <1>11, <3>2
        <4> QED
          BY <1>1, <1>2, <1>7, <2>1, <4>1 DEF ClearTakes
      <3> QED
        BY <1>10, <2>3, <3>1, <3>2
    <2> QED
      BY <1>1, <1>2, <2>2, <2>3 DEF ClearTakes
  <1> QED
    BY <1>15, <1>16, <1>17, <1>18, <1>19 DEF HermesInductive

\* Actions that leave the map, its arrays and what was posted alone.
LEMMA SaveKeeps ==
    ASSUME HermesInductive, NEW x \in Entries, SaveEntry(x)
    PROVE  HermesInductive'
  <1>1. HermesTypeOK /\ SavedOnce /\ ArraysInOrder /\ LatelyKept /\ ClearTakes
    BY DEF HermesInductive
  <1>2. /\ x \in saving /\ saving' = saving \ {x}
        /\ UNCHANGED <<array, current, posted, spills, clearing, hydrating, before, cleared,
                       late, overrun, lost>>
    BY DEF SaveEntry
  <1>3. /\ rows' \in [Entries -> Nat] /\ \A e \in Entries : e # x => rows'[e] = rows[e]
        /\ rows'[x] = rows[x] \/ rows'[x] = rows[x] + 1
    <2>1. rows \in [Entries -> Nat] /\ (rows' = rows \/ rows' = [rows EXCEPT ![x] = rows[x] + 1])
      BY <1>1 DEF HermesTypeOK, SaveEntry
    <2>2. CASE rows' = rows
      BY <2>1, <2>2
    <2>3. CASE rows' = [rows EXCEPT ![x] = rows[x] + 1]
      <3>1. rows[x] + 1 \in Nat
        BY <2>1
      <3> QED
        BY <2>1, <2>3, <3>1
    <2> QED
      BY <2>1, <2>2, <2>3
  <1>4. rows[x] \in Nat /\ x \in 1..posted /\ x \in Nat /\ posted \in Nat
    BY <1>1, <1>2, MemoryAssumption DEF HermesTypeOK
  <1>5. Memory' = Memory
    BY <1>2 DEF Memory
  <1>6. HermesTypeOK'
    BY <1>1, <1>2, <1>3 DEF HermesTypeOK
  <1>7. SavedOnce'
    <2>1. ASSUME NEW e \in Entries, Recent(e, posted'), rows'[e] > 0
          PROVE  rows'[e] = 1 /\ e \notin saving'
      <3>1. CASE e = x
        <4>1. rows[x] = 0
          <5>1. ~(rows[x] > 0)
            BY <1>1, <1>2, <2>1, <3>1 DEF SavedOnce
          <5> QED
            BY <1>4, <5>1
        <4> QED
          BY <1>2, <1>3, <2>1, <3>1, <4>1
      <3>2. CASE e # x
        BY <1>1, <1>2, <1>3, <2>1, <3>2 DEF SavedOnce
      <3> QED
        BY <3>1, <3>2
    <2>2. ASSUME NEW e \in Entries, e > posted' PROVE rows'[e] = 0
      <3>1. e # x
        BY <1>2, <1>4, <2>2
      <3> QED
        BY <1>1, <1>2, <1>3, <2>2, <3>1 DEF SavedOnce
    <2>3. \A s \in spills' : \A e \in ToSet(s.cut) :
             e \in ToSet(array'[s.array]) /\ ~Recent(e, posted')
      BY <1>1, <1>2 DEF SavedOnce
    <2> QED
      BY <2>1, <2>2, <2>3 DEF SavedOnce
  <1>8. ArraysInOrder'
    BY <1>1, <1>2 DEF ArraysInOrder, InUse
  <1>9. LatelyKept'
    <2>1. ASSUME NEW e \in 1..posted, rows[e] > 0 PROVE rows'[e] > 0
      <3>1. e \in Entries
        BY <1>1, <1>4, MemoryAssumption DEF HermesTypeOK, Entries
      <3> QED
        BY <1>1, <1>3, <1>4, <2>1, <3>1
    <2> QED
      BY <1>1, <1>2, <1>5, <2>1 DEF LatelyKept
  <1>10. ClearTakes'
    <2>1. ASSUME clearing' # "deleting", NEW e \in cleared', rows'[e] > 0 PROVE e \in late'
      <3>1. CASE e = x
        BY <1>1, <1>2, <2>1, <3>1 DEF ClearTakes
      <3>2. CASE e # x
        <4>1. e \in Entries
          BY <1>1, <1>2, MemoryAssumption DEF HermesTypeOK, Entries
        <4> QED
          BY <1>1, <1>2, <1>3, <2>1, <3>2, <4>1 DEF ClearTakes
      <3> QED
        BY <3>1, <3>2
    <2>2. cleared' \cap (ToSet(Memory') \cup saving' \cup ToSet(hydrating'.entries)) \subseteq late'
      BY <1>1, <1>2, <1>5 DEF ClearTakes
    <2>3. \A s \in spills' : cleared' \cap ToSet(array'[s.array]) \subseteq late'
      BY <1>1, <1>2 DEF ClearTakes
    <2> QED
      BY <2>1, <2>2, <2>3 DEF ClearTakes
  <1> QED
    BY <1>6, <1>7, <1>8, <1>9, <1>10 DEF HermesInductive

\* The rows of a cut are of entries not posted lately.
LEMMA SaveCutKeeps ==
    ASSUME HermesInductive, NEW s \in spills, SaveCut(s)
    PROVE  HermesInductive'
  <1> DEFINE next == [s EXCEPT !.saved = TRUE]
  <1>1. HermesTypeOK /\ SavedOnce /\ ArraysInOrder /\ LatelyKept /\ ClearTakes
    BY DEF HermesInductive
  <1>2. /\ spills' = (spills \ {s}) \cup {next}
        /\ UNCHANGED <<array, current, posted, saving, clearing, hydrating, before, cleared,
                       late, overrun, lost>>
    BY DEF SaveCut
  <1>3. /\ s \in Spill /\ next \in Spill /\ next.array = s.array /\ next.cut = s.cut
        /\ s.cut \in Seq(Nat) /\ s.array \in Arrays
    BY <1>1 DEF HermesTypeOK, Spill
  <1> HIDE DEF next
  <1>4. posted \in Nat /\ Entries \subseteq Nat /\ 1..posted \subseteq Entries
    BY <1>1, MemoryAssumption DEF HermesTypeOK, Entries
  <1>5. PICK n \in 0..Len(s.cut) :
           rows' = [e \in Entries |-> rows[e] + Cardinality({i \in 1..n : s.cut[i] = e})]
    BY DEF SaveCut
  <1>6. \A e \in Entries : /\ rows'[e] \in Nat /\ rows'[e] >= rows[e]
                           /\ e \notin ToSet(s.cut) => rows'[e] = rows[e]
    <2> SUFFICES ASSUME NEW e \in Entries
                 PROVE  /\ rows'[e] \in Nat /\ rows'[e] >= rows[e]
                        /\ e \notin ToSet(s.cut) => rows'[e] = rows[e]
      OBVIOUS
    <2> DEFINE places == {i \in 1..n : s.cut[i] = e}
    <2>1. n \in Nat /\ \A i \in 1..n : i \in DOMAIN s.cut
      BY <1>3
    <2>2. rows'[e] = rows[e] + Cardinality(places) /\ rows[e] \in Nat
      BY <1>1, <1>5 DEF HermesTypeOK
    <2>3. IsFiniteSet(places)
      <3>1. IsFiniteSet(1..n)
        BY <2>1, FS_Interval
      <3>2. places \subseteq 1..n
        OBVIOUS
      <3> HIDE DEF places
      <3> QED
        BY <3>1, <3>2, FS_Subset
    <2>4. Cardinality(places) \in Nat
      <3> HIDE DEF places
      <3> QED
        BY <2>3, FS_CardinalityType
    <2>5. e \notin ToSet(s.cut) => places = {}
      BY <2>1 DEF ToSet
    <2>6. e \notin ToSet(s.cut) => Cardinality(places) = 0
      BY <2>5, FS_EmptySet
    <2> HIDE DEF places
    <2> QED
      BY <2>2, <2>4, <2>6
  <1>7. rows' \in [Entries -> Nat]
    BY <1>5, <1>6
  <1>8. \A e \in ToSet(s.cut) : ~Recent(e, posted) /\ (e \in cleared => e \in late)
    BY <1>1 DEF SavedOnce, ClearTakes
  <1>9. Memory' = Memory
    BY <1>2 DEF Memory
  <1>10. \A t \in spills' : t \in spills \/ t = next
    BY <1>2
  <1>11. HermesTypeOK'
    <2>1. IsFiniteSet(spills') /\ Cardinality(spills') <= MaxSpills
      <3>1. IsFiniteSet(spills) /\ Cardinality(spills) \in Nat /\ MaxSpills \in Nat
        BY <1>1, MemoryAssumption, FS_CardinalityType DEF HermesTypeOK
      <3>2. /\ IsFiniteSet(spills \ {s}) /\ Cardinality(spills \ {s}) = Cardinality(spills) - 1
            /\ Cardinality(spills \ {s}) \in Nat
        BY <3>1, FS_RemoveElement, FS_CardinalityType
      <3>3. IsFiniteSet(spills') /\ Cardinality(spills') <= Cardinality(spills \ {s}) + 1
            /\ Cardinality(spills') \in Nat
        <4> DEFINE others == spills \ {s}
        <4>1. IsFiniteSet(others) /\ Cardinality(others) \in Nat /\ spills' = others \cup {next}
          BY <1>2, <3>2
        <4> HIDE DEF others
        <4>2. IsFiniteSet(spills') /\ (\/ Cardinality(spills') = Cardinality(others)
                                       \/ Cardinality(spills') = Cardinality(others) + 1)
          BY <4>1, FS_AddElement
        <4> QED
          BY <4>1, <4>2 DEF others
      <3> QED
        BY <1>1, <3>1, <3>2, <3>3 DEF HermesTypeOK
    <2>2. spills' \subseteq Spill
      BY <1>1, <1>3, <1>10 DEF HermesTypeOK
    <2> QED
      BY <1>1, <1>2, <1>7, <2>1, <2>2 DEF HermesTypeOK
  <1>12. SavedOnce'
    <2>1. ASSUME NEW e \in Entries, Recent(e, posted'), rows'[e] > 0
          PROVE  rows'[e] = 1 /\ e \notin saving'
      <3>1. rows'[e] = rows[e]
        BY <1>2, <1>6, <1>8, <2>1
      <3> QED
        BY <1>1, <1>2, <2>1, <3>1 DEF SavedOnce
    <2>2. ASSUME NEW e \in Entries, e > posted' PROVE rows'[e] = 0
      <3>1. ~(e \in ToSet(s.cut))
        <4>1. ASSUME e \in ToSet(s.cut) PROVE FALSE
          <5>1. e \in ToSet(array[s.array]) /\ InOrder(array[s.array], posted)
            BY <1>1, <4>1 DEF SavedOnce, ArraysInOrder, InUse
          <5>2. e \in 1..posted
            BY <5>1 DEF InOrder, ToSet
          <5> QED
            BY <1>2, <1>4, <2>2, <5>2
        <4> QED
          BY <4>1
      <3> QED
        BY <1>1, <1>2, <1>6, <2>2, <3>1 DEF SavedOnce
    <2>3. \A t \in spills' : \A e \in ToSet(t.cut) :
             e \in ToSet(array'[t.array]) /\ ~Recent(e, posted')
      BY <1>1, <1>2, <1>3, <1>10 DEF SavedOnce
    <2> QED
      BY <2>1, <2>2, <2>3 DEF SavedOnce
  <1>13. ArraysInOrder'
    <2>1. InUse' \subseteq InUse
      BY <1>2, <1>3, <1>10 DEF InUse
    <2> QED
      BY <1>1, <1>2, <2>1 DEF ArraysInOrder
  <1>14. LatelyKept'
    <2>1. ASSUME NEW e \in 1..posted, rows[e] > 0 PROVE rows'[e] > 0
      <3>1. e \in Entries
        BY <1>4
      <3>2. rows[e] \in Nat /\ rows'[e] \in Nat /\ rows'[e] >= rows[e]
        BY <1>1, <1>6, <3>1 DEF HermesTypeOK
      <3> QED
        BY <2>1, <3>2
    <2> QED
      BY <1>1, <1>2, <1>9, <2>1 DEF LatelyKept
  <1>15. ClearTakes'
    <2>1. ASSUME clearing' # "deleting", NEW e \in cleared', rows'[e] > 0 PROVE e \in late'
      <3>1. e \in Entries
        BY <1>1, <1>2, <1>4 DEF HermesTypeOK
      <3> QED
        BY <1>1, <1>2, <1>6, <1>8, <2>1, <3>1 DEF ClearTakes
    <2>2. cleared' \cap (ToSet(Memory') \cup saving' \cup ToSet(hydrating'.entries)) \subseteq late'
      BY <1>1, <1>2, <1>9 DEF ClearTakes
    <2>3. \A t \in spills' : cleared' \cap ToSet(array'[t.array]) \subseteq late'
      BY <1>1, <1>2, <1>3, <1>10 DEF ClearTakes
    <2> QED
      BY <2>1, <2>2, <2>3 DEF ClearTakes
  <1> QED
    BY <1>11, <1>12, <1>13, <1>14, <1>15 DEF HermesInductive

\* What a cut leaves has what was posted lately and its array had.
LEMMA CutKeeps ==
    ASSUME HermesInductive, NEW s \in spills, CutMemory(s)
    PROVE  HermesInductive'
  <1> DEFINE a == FreshArray
             kept == Kept(s)
  <1>1. HermesTypeOK /\ SavedOnce /\ ArraysInOrder /\ LatelyKept /\ ClearTakes
    BY DEF HermesInductive
  <1>2. /\ spills' = spills \ {s} /\ array' = [array EXCEPT ![a] = kept] /\ current' = a
        /\ overrun' = IF current = s.array THEN overrun
                      ELSE overrun \cup (ToSet(Memory) \ ToSet(kept))
        /\ UNCHANGED <<posted, saving, rows, clearing, hydrating, before, cleared, late, lost>>
    BY DEF CutMemory
  <1>3. a \in Arrays /\ \A t \in spills : t.array # a
    BY <1>1, FreshIs
  <1>4. s.array \in Arrays /\ s.array \in InUse /\ array[s.array] \in Seq(Nat)
    BY <1>1 DEF HermesTypeOK, Spill, InUse
  <1>5. posted \in Nat /\ SummaryThreshold \in Nat
    BY <1>1, MemoryAssumption DEF HermesTypeOK
  <1>6. /\ kept \in Seq(Nat) /\ InOrder(kept, posted) /\ ToSet(kept) \subseteq ToSet(array[s.array])
        /\ \A e \in ToSet(array[s.array]) : Recent(e, posted) => e \in ToSet(kept)
    <2>1. InOrder(array[s.array], posted)
      BY <1>1, <1>4 DEF ArraysInOrder
    <2> QED
      BY <1>4, <1>5, <2>1, NewestInOrder DEF Kept, Recent
  <1> HIDE DEF a, kept
  <1>7. /\ array' \in [Arrays -> Seq(Nat)] /\ array'[a] = kept
        /\ \A b \in Arrays : b # a => array'[b] = array[b]
    BY <1>1, <1>2, <1>3, <1>6 DEF HermesTypeOK
  <1>8. Memory' = kept
    BY <1>2, <1>3, <1>7, MemoryAssumption DEF Memory
  <1>9. \A t \in spills' : t \in spills /\ t.array \in Arrays /\ array'[t.array] = array[t.array]
    BY <1>1, <1>2, <1>3, <1>7 DEF HermesTypeOK, Spill
  <1>10. HermesTypeOK'
    <2>1. IsFiniteSet(spills') /\ Cardinality(spills') <= MaxSpills
      <3>1. IsFiniteSet(spills) /\ Cardinality(spills) \in Nat /\ MaxSpills \in Nat
        BY <1>1, MemoryAssumption, FS_CardinalityType DEF HermesTypeOK
      <3>2. IsFiniteSet(spills \ {s}) /\ Cardinality(spills \ {s}) = Cardinality(spills) - 1
        BY <3>1, FS_RemoveElement
      <3> QED
        BY <1>1, <1>2, <3>1, <3>2 DEF HermesTypeOK
    <2>2. spills' \subseteq Spill
      BY <1>1, <1>2 DEF HermesTypeOK
    <2> QED
      BY <1>1, <1>2, <1>3, <1>7, <2>1, <2>2 DEF HermesTypeOK
  <1>11. SavedOnce'
    BY <1>1, <1>2, <1>9 DEF SavedOnce
  <1>12. ArraysInOrder'
    <2>1. ASSUME NEW b \in InUse'
          PROVE  InOrder(array'[b], posted') /\ \A e \in ToSet(array'[b]) : e > before'
      <3>1. CASE b = a
        BY <1>1, <1>2, <1>4, <1>6, <1>7, <3>1 DEF ArraysInOrder
      <3>2. CASE b # a
        <4>1. b \in InUse /\ array'[b] = array[b]
          BY <1>2, <1>9, <2>1, <3>2 DEF InUse
        <4> QED
          BY <1>1, <1>2, <4>1 DEF ArraysInOrder
      <3> QED
        BY <3>1, <3>2
    <2>2. InOrder(hydrating'.entries, posted')
      BY <1>1, <1>2 DEF ArraysInOrder
    <2> QED
      BY <2>1, <2>2 DEF ArraysInOrder
  <1>13. LatelyKept'
    <2> SUFFICES ASSUME NEW e \in (1..posted') \ (cleared' \cup overrun' \cup lost'),
                        Recent(e, posted')
                 PROVE  \/ e \in ToSet(Memory')
                        \/ /\ e <= before' /\ rows'[e] > 0
                           /\ hydrating'.at = "read" => e \in ToSet(hydrating'.entries)
      BY DEF LatelyKept
    <2>1. e \in (1..posted) \ (cleared \cup overrun \cup lost) /\ Recent(e, posted)
      BY <1>2
    <2>2. CASE e \in ToSet(Memory)
      <3>1. CASE current = s.array
        <4>1. Memory = array[s.array]
          BY <1>1, <1>4, <3>1, MemoryAssumption DEF Memory
        <4> QED
          BY <1>6, <1>8, <2>1, <2>2, <4>1
      <3>2. CASE current # s.array
        BY <1>2, <1>8, <2>2, <3>2
      <3> QED
        BY <3>1, <3>2
    <2>3. CASE e \notin ToSet(Memory)
      BY <1>1, <1>2, <2>1, <2>3 DEF LatelyKept
    <2> QED
      BY <2>2, <2>3
  <1>14. ClearTakes'
    <2>1. cleared \cap ToSet(kept) \subseteq late
      BY <1>1, <1>6 DEF ClearTakes
    <2>2. cleared' \cap (ToSet(Memory') \cup saving' \cup ToSet(hydrating'.entries)) \subseteq late'
      BY <1>1, <1>2, <1>8, <2>1 DEF ClearTakes
    <2>3. \A t \in spills' : cleared' \cap ToSet(array'[t.array]) \subseteq late'
      BY <1>1, <1>2, <1>9 DEF ClearTakes
    <2> QED
      BY <1>1, <1>2, <2>2, <2>3 DEF ClearTakes
  <1> QED
    BY <1>10, <1>11, <1>12, <1>13, <1>14 DEF HermesInductive

\* A clear takes what was posted before it, or the entry was held by something under way.
LEMMA ClearsKeep ==
    ASSUME HermesInductive, AskClear \/ ClearMap \/ DeleteRows
    PROVE  HermesInductive'
  <1>1. HermesTypeOK /\ SavedOnce /\ ArraysInOrder /\ LatelyKept /\ ClearTakes
    BY DEF HermesInductive
  <1>2. CASE AskClear
    <2>1. /\ clearing # "deleting"
          /\ UNCHANGED <<array, current, posted, saving, spills, rows, hydrating, before, cleared,
                         late, overrun, lost>>
      BY <1>2 DEF AskClear
    <2>2. Memory' = Memory /\ InUse' = InUse
      BY <2>1 DEF Memory, InUse
    <2> QED
      BY <1>1, <2>1, <2>2
         DEF HermesInductive, HermesTypeOK, SavedOnce, ArraysInOrder, LatelyKept, ClearTakes
  <1>3. CASE ClearMap
    <2> DEFINE held == UNION {ToSet(array[s.array]) : s \in spills}
    <2>1. /\ clearing' = "deleting" /\ current' = NoArray /\ cleared' = 1..posted
          /\ UNCHANGED <<array, posted, saving, spills, rows, hydrating, before, overrun, lost>>
      BY <1>3 DEF ClearMap
    <2>6. late' = saving \cup held \cup ToSet(hydrating.entries)
      BY <1>3 DEF ClearMap
    <2>2. Memory' = <<>> /\ ToSet(<<>>) = {} /\ InUse' \subseteq InUse
      BY <2>1 DEF Memory, ToSet, InUse
    <2>3. HermesTypeOK' /\ SavedOnce'
      BY <1>1, <2>1 DEF HermesTypeOK, SavedOnce
    <2>4. ArraysInOrder' /\ LatelyKept'
      BY <1>1, <2>1, <2>2 DEF ArraysInOrder, LatelyKept
    <2>5. ClearTakes'
      <3>1. \A s \in spills : ToSet(array[s.array]) \subseteq held
        OBVIOUS
      <3>2. /\ saving \subseteq late' /\ ToSet(hydrating.entries) \subseteq late'
            /\ \A s \in spills : ToSet(array[s.array]) \subseteq late'
        <4> HIDE DEF held
        <4> QED
          BY <2>6, <3>1
      <3>3. cleared' \cap (ToSet(Memory') \cup saving' \cup ToSet(hydrating'.entries)) \subseteq late'
        BY <2>1, <2>2, <3>2
      <3>4. \A s \in spills' : cleared' \cap ToSet(array'[s.array]) \subseteq late'
        BY <2>1, <3>2
      <3> QED
        BY <2>1, <3>3, <3>4 DEF ClearTakes
    <2> QED
      BY <2>3, <2>4, <2>5 DEF HermesInductive
  <1>4. CASE DeleteRows
    <2>1. /\ clearing = "deleting"
          /\ UNCHANGED <<array, current, posted, saving, spills, hydrating, before, cleared, lost>>
          /\ \/ /\ rows' = [e \in Entries |-> 0] /\ late' = late
                /\ overrun' = overrun \cup {e \in Entries : rows[e] > 0 /\ e \notin cleared}
             \/ late' = cleared /\ rows' = rows /\ overrun' = overrun
      BY <1>4 DEF DeleteRows
    <2>2. Memory' = Memory /\ InUse' = InUse
      BY <2>1 DEF Memory, InUse
    <2>3. CASE late' = cleared /\ rows' = rows /\ overrun' = overrun
      <3>1. HermesTypeOK' /\ SavedOnce' /\ ArraysInOrder' /\ LatelyKept'
        BY <1>1, <2>1, <2>2, <2>3 DEF HermesTypeOK, SavedOnce, ArraysInOrder, LatelyKept
      <3>2. ClearTakes'
        BY <2>1, <2>3 DEF ClearTakes
      <3> QED
        BY <3>1, <3>2 DEF HermesInductive
    <2>4. CASE /\ rows' = [e \in Entries |-> 0] /\ late' = late
               /\ overrun' = overrun \cup {e \in Entries : rows[e] > 0 /\ e \notin cleared}
      <3>1. \A e \in Entries : rows'[e] = 0
        BY <2>4
      <3>2. 1..posted \subseteq Entries
        BY <1>1, MemoryAssumption DEF HermesTypeOK, Entries
      <3>3. HermesTypeOK'
        BY <1>1, <2>1, <2>4 DEF HermesTypeOK
      <3>4. SavedOnce'
        <4>1. \A e \in Entries : ~(rows'[e] > 0)
          BY <3>1
        <4> QED
          BY <1>1, <2>1, <3>1, <4>1 DEF SavedOnce
      <3>5. ArraysInOrder'
        BY <1>1, <2>1, <2>2 DEF ArraysInOrder
      <3>6. LatelyKept'
        BY <1>1, <2>1, <2>2, <2>4, <3>2 DEF LatelyKept
      <3>7. ClearTakes'
        <4>1. \A e \in cleared' : ~(rows'[e] > 0)
          BY <1>1, <2>1, <3>1, <3>2 DEF HermesTypeOK
        <4> QED
          BY <1>1, <2>1, <2>2, <2>4, <4>1 DEF ClearTakes
      <3> QED
        BY <3>3, <3>4, <3>5, <3>6, <3>7 DEF HermesInductive
    <2> QED
      BY <2>1, <2>3, <2>4
  <1> QED
    BY <1>2, <1>3, <1>4

\* A start has what the database had to read.
LEMMA StartKeeps ==
    ASSUME HermesInductive, RestartHermes
    PROVE  HermesInductive'
  <1>1. HermesTypeOK /\ SavedOnce /\ ArraysInOrder /\ LatelyKept /\ ClearTakes
    BY DEF HermesInductive
  <1>2. /\ current' = NoArray /\ saving' = {} /\ spills' = {} /\ clearing' = "none"
        /\ hydrating' = [at |-> "reading", entries |-> <<>>] /\ before' = posted
        /\ late' = IF clearing = "deleting" THEN cleared ELSE late
        /\ lost' = lost \cup {e \in 1..posted : rows[e] = 0}
        /\ UNCHANGED <<posted, rows, cleared, overrun>>
        /\ array' \in [Arrays -> Seq(Nat)]
    BY DEF RestartHermes
  <1>3. Memory' = <<>> /\ ToSet(<<>>) = {} /\ InUse' = {} /\ InOrder(<<>>, posted)
    BY <1>2 DEF Memory, ToSet, InUse, InOrder
  <1>4. posted \in Nat /\ MaxSpills \in Nat /\ IsFiniteSet({}) /\ Cardinality({}) = 0
    BY <1>1, MemoryAssumption, FS_EmptySet DEF HermesTypeOK
  <1>5. hydrating'.at = "reading" /\ hydrating'.entries = <<>>
        /\ hydrating' \in [at : {"done", "reading", "read"}, entries : Seq(Nat)]
    BY <1>2
  <1>6. HermesTypeOK'
    BY <1>1, <1>2, <1>4, <1>5 DEF HermesTypeOK
  <1>7. SavedOnce'
    BY <1>1, <1>2 DEF SavedOnce
  <1>8. ArraysInOrder'
    BY <1>2, <1>3, <1>5 DEF ArraysInOrder
  <1>9. LatelyKept'
    <2> SUFFICES ASSUME NEW e \in (1..posted') \ (cleared' \cup overrun' \cup lost')
                 PROVE  /\ e <= before' /\ rows'[e] > 0
                        /\ hydrating'.at = "read" => e \in ToSet(hydrating'.entries)
      BY DEF LatelyKept
    <2>1. e \in 1..posted /\ rows[e] # 0 /\ e <= posted
      BY <1>2, <1>4
    <2>2. rows[e] \in Nat
      BY <1>1, <2>1, MemoryAssumption DEF HermesTypeOK, Entries
    <2> QED
      BY <1>2, <1>5, <2>1, <2>2
  <1>10. ClearTakes'
    BY <1>1, <1>2, <1>3, <1>5 DEF ClearTakes
  <1> QED
    BY <1>6, <1>7, <1>8, <1>9, <1>10 DEF HermesInductive

\* What the start reads has all that was posted lately and has a row.
LEMMA ReadKeeps ==
    ASSUME HermesInductive, ReadSession
    PROVE  HermesInductive'
  <1> DEFINE read == NewestRows(MemoryLimit)
  <1>1. HermesTypeOK /\ SavedOnce /\ ArraysInOrder /\ LatelyKept /\ ClearTakes
    BY DEF HermesInductive
  <1>2. /\ UNCHANGED <<array, current, posted, saving, spills, rows, clearing, before, cleared,
                       overrun, lost>>
        /\ \/ hydrating' = NotHydrating /\ late' = late
           \/ /\ hydrating' = [at |-> "read", entries |-> read]
              /\ late' = late \cup IF clearing = "deleting" THEN ToSet(hydrating'.entries) ELSE {}
    BY DEF ReadSession
  <1>3. Memory' = Memory /\ InUse' = InUse
    BY <1>2 DEF Memory, InUse
  <1>4. SavedOnce'
    BY <1>1, <1>2 DEF SavedOnce
  <1>5. CASE hydrating' = NotHydrating /\ late' = late
    <2>1. /\ hydrating'.at = "done" /\ hydrating'.entries = <<>> /\ ToSet(<<>>) = {}
          /\ hydrating' \in [at : {"done", "reading", "read"}, entries : Seq(Nat)]
          /\ InOrder(<<>>, posted)
      BY <1>5 DEF NotHydrating, ToSet, InOrder
    <2>2. HermesTypeOK' /\ ArraysInOrder' /\ LatelyKept'
      BY <1>1, <1>2, <1>3, <2>1 DEF HermesTypeOK, ArraysInOrder, LatelyKept
    <2>3. ClearTakes'
      BY <1>1, <1>2, <1>3, <1>5, <2>1 DEF ClearTakes
    <2> QED
      BY <1>4, <2>2, <2>3 DEF HermesInductive
  <1>6. CASE /\ hydrating' = [at |-> "read", entries |-> read]
             /\ late' = late \cup IF clearing = "deleting" THEN ToSet(hydrating'.entries) ELSE {}
    <2>1. /\ AllRows \in Seq(Nat) /\ InOrder(AllRows, posted) /\ ToSet(AllRows) \subseteq Entries
          /\ \A e \in Entries : e \in ToSet(AllRows) <=> rows[e] > 0
      BY <1>1, RowsInOrder
    <2>2. read = NewestOf(AllRows, MemoryLimit)
      BY DEF NewestRows, AllRows
    <2>3. /\ posted \in Nat /\ MemoryLimit \in Nat /\ SummaryThreshold \in Nat
          /\ SummaryThreshold <= MemoryLimit /\ 1..posted \subseteq Entries
      BY <1>1, MemoryAssumption DEF HermesTypeOK, Entries
    <2> HIDE DEF read
    <2>4. /\ read \in Seq(Nat) /\ InOrder(read, posted) /\ ToSet(read) \subseteq ToSet(AllRows)
          /\ \A e \in ToSet(AllRows) : Recent(e, posted) /\ posted - e < MemoryLimit => e \in ToSet(read)
      BY <2>1, <2>2, <2>3, NewestInOrder
    <2>5. \A e \in 1..posted : Recent(e, posted) /\ rows[e] > 0 => e \in ToSet(read)
      BY <2>1, <2>3, <2>4 DEF Recent
    <2>6. hydrating'.at = "read" /\ hydrating'.entries = read
          /\ hydrating' \in [at : {"done", "reading", "read"}, entries : Seq(Nat)]
      BY <1>6, <2>4
    <2>7. HermesTypeOK'
      BY <1>1, <1>2, <2>6 DEF HermesTypeOK
    <2>8. ArraysInOrder'
      BY <1>1, <1>2, <1>3, <2>4, <2>6 DEF ArraysInOrder
    <2>9. LatelyKept'
      BY <1>1, <1>2, <1>3, <2>5, <2>6 DEF LatelyKept
    <2>10. ClearTakes'
      <3>1. cleared \cap ToSet(read) \subseteq late'
        <4>1. CASE clearing = "deleting"
          BY <1>6, <2>6, <4>1
        <4>2. CASE clearing # "deleting"
          BY <1>1, <1>6, <2>1, <2>4, <4>2 DEF ClearTakes
        <4> QED
          BY <4>1, <4>2
      <3>2. late \subseteq late'
        BY <1>6
      <3>3. cleared' \cap (ToSet(Memory') \cup saving' \cup ToSet(hydrating'.entries)) \subseteq late'
        BY <1>1, <1>2, <1>3, <2>6, <3>1, <3>2 DEF ClearTakes
      <3>4. \A s \in spills' : cleared' \cap ToSet(array'[s.array]) \subseteq late'
        BY <1>1, <1>2, <3>2 DEF ClearTakes
      <3>5. clearing' # "deleting" => \A e \in cleared' : rows'[e] > 0 => e \in late'
        BY <1>1, <1>2, <3>2 DEF ClearTakes
      <3> QED
        BY <3>3, <3>4, <3>5 DEF ClearTakes
    <2> QED
      BY <1>4, <2>7, <2>8, <2>9, <2>10 DEF HermesInductive
  <1> QED
    BY <1>2, <1>5, <1>6

\* What the start read replaces the map, and runs over what it does not have.
LEMMA FillKeeps ==
    ASSUME HermesInductive, FillMap
    PROVE  HermesInductive'
  <1> DEFINE a == FreshArray
             read == hydrating.entries
  <1>1. HermesTypeOK /\ SavedOnce /\ ArraysInOrder /\ LatelyKept /\ ClearTakes
    BY DEF HermesInductive
  <1>2. /\ hydrating.at = "read" /\ hydrating' = NotHydrating
        /\ UNCHANGED <<posted, saving, spills, rows, clearing, cleared, late, lost>>
    BY DEF FillMap
  <1>3. /\ hydrating'.at = "done" /\ hydrating'.entries = <<>> /\ ToSet(<<>>) = {}
        /\ hydrating' \in [at : {"done", "reading", "read"}, entries : Seq(Nat)]
        /\ InOrder(<<>>, posted)
    BY <1>2 DEF NotHydrating, ToSet, InOrder
  <1>4. CASE read = <<>>
    <2>1. UNCHANGED <<array, current, before, overrun>>
      BY <1>4 DEF FillMap
    <2>2. Memory' = Memory /\ InUse' = InUse
      BY <1>2, <2>1 DEF Memory, InUse
    <2>3. HermesTypeOK' /\ SavedOnce' /\ ArraysInOrder'
      BY <1>1, <1>2, <1>3, <2>1, <2>2 DEF HermesTypeOK, SavedOnce, ArraysInOrder
    <2>4. LatelyKept'
      BY <1>1, <1>2, <1>3, <2>1, <2>2 DEF LatelyKept
    <2>5. ClearTakes'
      BY <1>1, <1>2, <1>3, <2>1, <2>2 DEF ClearTakes
    <2> QED
      BY <2>3, <2>4, <2>5 DEF HermesInductive
  <1>5. CASE read # <<>>
    <2>1. /\ array' = [array EXCEPT ![a] = read] /\ current' = a /\ before' = 0
          /\ overrun' = overrun \cup (ToSet(Memory) \ ToSet(read))
      BY <1>5 DEF FillMap
    <2>2. a \in Arrays /\ \A t \in spills : t.array # a
      BY <1>1, FreshIs
    <2>3. read \in Seq(Nat) /\ InOrder(read, posted) /\ posted \in Nat
      BY <1>1, MemoryAssumption DEF HermesTypeOK, ArraysInOrder
    <2> HIDE DEF a
    <2>4. /\ array' \in [Arrays -> Seq(Nat)] /\ array'[a] = read
          /\ \A b \in Arrays : b # a => array'[b] = array[b]
      BY <1>1, <2>1, <2>2, <2>3 DEF HermesTypeOK
    <2>5. Memory' = read
      BY <2>1, <2>2, <2>4, MemoryAssumption DEF Memory
    <2>6. \A t \in spills' : t \in spills /\ t.array \in Arrays /\ array'[t.array] = array[t.array]
      BY <1>1, <1>2, <2>2, <2>4 DEF HermesTypeOK, Spill
    <2>7. HermesTypeOK'
      BY <1>1, <1>2, <1>3, <2>1, <2>2, <2>3, <2>4 DEF HermesTypeOK
    <2>8. SavedOnce'
      BY <1>1, <1>2, <2>6 DEF SavedOnce
    <2>9. ArraysInOrder'
      <3>1. ASSUME NEW b \in InUse'
            PROVE  InOrder(array'[b], posted') /\ \A e \in ToSet(array'[b]) : e > before'
        <4>1. InOrder(array'[b], posted)
          <5>1. CASE b = a
            BY <2>3, <2>4, <5>1
          <5>2. CASE b # a
            <6>1. b \in InUse /\ array'[b] = array[b]
              BY <1>2, <2>1, <2>6, <3>1, <5>2 DEF InUse
            <6> QED
              BY <1>1, <6>1 DEF ArraysInOrder
          <5> QED
            BY <5>1, <5>2
        <4>2. \A e \in ToSet(array'[b]) : e \in 1..posted
          BY <4>1 DEF InOrder, ToSet
        <4> QED
          BY <1>2, <2>1, <2>3, <4>1, <4>2
      <3>2. InOrder(hydrating'.entries, posted')
        BY <1>2, <1>3
      <3> QED
        BY <3>1, <3>2 DEF ArraysInOrder
    <2>10. LatelyKept'
      <3> SUFFICES ASSUME NEW e \in (1..posted') \ (cleared' \cup overrun' \cup lost'),
                          Recent(e, posted')
                   PROVE  e \in ToSet(Memory')
        BY DEF LatelyKept
      <3>1. e \in (1..posted) \ (cleared \cup overrun \cup lost) /\ Recent(e, posted)
        BY <1>2, <2>1
      <3>2. e \in ToSet(Memory) \/ e \in ToSet(read)
        BY <1>1, <1>2, <3>1 DEF LatelyKept
      <3> QED
        BY <2>1, <2>5, <3>2
    <2>11. ClearTakes'
      <3>1. cleared' \cap (ToSet(Memory') \cup saving' \cup ToSet(hydrating'.entries)) \subseteq late'
        BY <1>1, <1>2, <1>3, <2>5 DEF ClearTakes
      <3>2. \A t \in spills' : cleared' \cap ToSet(array'[t.array]) \subseteq late'
        BY <1>1, <1>2, <2>6 DEF ClearTakes
      <3> QED
        BY <1>1, <1>2, <3>1, <3>2 DEF ClearTakes
    <2> QED
      BY <2>7, <2>8, <2>9, <2>10, <2>11 DEF HermesInductive
  <1> QED
    BY <1>4, <1>5

\* Where an entry stands that is near the end of two sequences, one after the other.
LEMMA NewestOfBoth ==
    ASSUME NEW q \in Seq(Nat), NEW r \in Seq(Nat), NEW n \in Nat
    PROVE  /\ \A i \in DOMAIN r : Len(r) - i < n => r[i] \in ToSet(NewestOf(q \o r, n))
           /\ \A i \in DOMAIN q : Len(q) + Len(r) - i < n => q[i] \in ToSet(NewestOf(q \o r, n))
  <1> DEFINE both == q \o r
             new == NewestOf(both, n)
  <1>1. /\ both \in Seq(Nat) /\ Len(both) = Len(q) + Len(r) /\ Len(q) \in Nat /\ Len(r) \in Nat
        /\ DOMAIN q = 1..Len(q) /\ DOMAIN r = 1..Len(r)
    OBVIOUS
  <1>2. /\ \A i \in 1..Len(q) : both[i] = q[i]
        /\ \A i \in 1..Len(r) : both[Len(q) + i] = r[i]
    OBVIOUS
  <1> HIDE DEF both
  <1>3. PICK d \in Nat : /\ d <= Len(both) /\ Len(both) - d <= n /\ (d > 0 => Len(both) - d = n)
                         /\ new \in Seq(Nat) /\ Len(new) = Len(both) - d
                         /\ \A i \in 1..(Len(both) - d) : new[i] = both[i + d]
    BY <1>1, NewestHas
  <1> HIDE DEF new
  <1>4. ASSUME NEW i \in 1..Len(both), Len(both) - i < n PROVE both[i] \in ToSet(new)
    <2>1. Len(both) \in Nat
      BY <1>1
    <2>2. i > d
      BY <1>3, <1>4, <2>1
    <2>3. i - d \in 1..(Len(both) - d) /\ (i - d) + d = i
      BY <2>1, <2>2, Shifted
    <2>4. new[i - d] = both[i] /\ i - d \in DOMAIN new
      BY <1>3, <2>3
    <2> QED
      BY <2>4 DEF ToSet
  <1>5. ASSUME NEW i \in 1..Len(r), Len(r) - i < n PROVE r[i] \in ToSet(new)
    <2>1. Len(q) + i \in 1..Len(both) /\ Len(both) - (Len(q) + i) < n
      BY <1>1, <1>5
    <2> QED
      BY <1>2, <1>4, <2>1
  <1>6. ASSUME NEW i \in 1..Len(q), Len(q) + Len(r) - i < n PROVE q[i] \in ToSet(new)
    <2>1. i \in 1..Len(both) /\ Len(both) - i < n
      BY <1>1, <1>6
    <2> QED
      BY <1>2, <1>4, <2>1
  <1> QED
    BY <1>1, <1>5, <1>6 DEF new, both

\* The entries posted lately are among the last of the rows and the map.
LEMMA LatelyRecalled ==
    ASSUME HermesInductive
    PROVE  RecentRecalled
  <1>1. HermesTypeOK /\ SavedOnce /\ ArraysInOrder /\ LatelyKept
    BY DEF HermesInductive
  <1>2. posted \in Nat /\ before \in 0..posted /\ MemoryLimit \in Nat /\ 1..posted \subseteq Entries
    BY <1>1, MemoryAssumption DEF HermesTypeOK, Entries
  <1>3. /\ Memory \in Seq(Nat) /\ InOrder(Memory, posted)
        /\ \A e \in ToSet(Memory) : e > before /\ e \in 1..posted
    BY <1>1, MemoryIs
  <1> SUFFICES ASSUME NEW e \in (1..posted) \ (cleared \cup overrun \cup lost),
                      NEW limit \in 1..MemoryLimit, Recent(e, posted),
                      posted - e + (IF e > before THEN 0 ELSE posted - before) < limit
               PROVE  e \in ToSet(Recall(limit))
    BY DEF RecentRecalled, Recent
  <1> DEFINE read == NewestRows(limit)
  <1>4. e \in Nat /\ limit \in Nat /\ posted - e < limit
    BY <1>2
  <1>5. /\ AllRows \in Seq(Nat) /\ InOrder(AllRows, posted)
        /\ \A x \in Entries : x \in ToSet(AllRows) <=> rows[x] > 0
    BY <1>1, RowsInOrder
  <1>6. read = NewestOf(AllRows, limit)
    BY DEF NewestRows, AllRows
  <1>7. Recall(limit) = NewestOf(read \o Memory, limit)
    BY DEF Recall
  <1> HIDE DEF read
  <1>8. /\ read \in Seq(Nat) /\ InOrder(read, posted)
        /\ \A x \in ToSet(AllRows) : Recent(x, posted) /\ posted - x < limit => x \in ToSet(read)
    BY <1>2, <1>4, <1>5, <1>6, NewestInOrder
  <1>9. CASE e \in ToSet(Memory)
    <2>1. PICK i \in DOMAIN Memory : Memory[i] = e
      BY <1>9 DEF ToSet
    <2>2. Len(Memory) - i <= posted - e
      BY <1>2, <1>3, <2>1, Climbs
    <2>3. Len(Memory) \in Nat /\ i \in 1..Len(Memory)
      BY <1>3
    <2>4. Len(Memory) - i < limit
      BY <1>2, <1>4, <2>2, <2>3
    <2> QED
      BY <1>3, <1>4, <1>7, <1>8, <2>1, <2>4, NewestOfBoth
  <1>10. CASE e \notin ToSet(Memory)
    <2>1. e <= before /\ rows[e] > 0
      BY <1>1, <1>10 DEF LatelyKept
    <2>2. e \in ToSet(read)
      BY <1>2, <1>4, <1>5, <1>8, <2>1
    <2>3. PICK i \in DOMAIN read : read[i] = e
      BY <2>2 DEF ToSet
    <2>4. Len(read) - i <= posted - e
      BY <1>2, <1>8, <2>3, Climbs
    <2>5. Len(read) \in Nat /\ i \in 1..Len(read) /\ Len(Memory) \in Nat
      BY <1>3, <1>8
    <2>6. Len(Memory) <= posted - before
      <3>1. CASE Len(Memory) = 0
        BY <1>2, <3>1
      <3>2. CASE Len(Memory) > 0
        <4>1. 1 \in DOMAIN Memory
          BY <1>3, <2>5, <3>2
        <4>2. Memory[1] > before /\ Memory[1] \in 1..posted
          BY <1>3, <4>1 DEF ToSet
        <4>3. Recent(Memory[1], posted)
          <5>1. posted - e < SummaryThreshold /\ SummaryThreshold \in Nat
            BY MemoryAssumption DEF Recent
          <5>2. posted - Memory[1] < SummaryThreshold
            BY <1>2, <1>4, <2>1, <4>2, <5>1
          <5> QED
            BY <5>2 DEF Recent
        <4>4. Len(Memory) - 1 <= posted - Memory[1]
          BY <1>2, <1>3, <4>1, <4>3, Climbs
        <4> QED
          BY <1>2, <2>5, <4>2, <4>4
      <3> QED
        BY <2>5, <3>1, <3>2
    <2>7. posted - e + (posted - before) < limit
      BY <1>2, <1>4, <2>1
    <2>8. Len(read) + Len(Memory) - i < limit
      BY <1>2, <1>4, <2>4, <2>5, <2>6, <2>7
    <2> QED
      BY <1>3, <1>4, <1>7, <1>8, <2>3, <2>8, NewestOfBoth
  <1> QED
    BY <1>9, <1>10

\* At first there is nothing.
LEMMA HermesStarts ==
    ASSUME HermesInit
    PROVE  HermesInductive
  <1>1. /\ Memory = <<>> /\ InUse = {} /\ ToSet(<<>>) = {} /\ InOrder(<<>>, 0)
        /\ hydrating.entries = <<>> /\ hydrating.at = "done"
        /\ hydrating \in [at : {"done", "reading", "read"}, entries : Seq(Nat)]
    BY DEF HermesInit, Memory, InUse, ToSet, InOrder, NotHydrating
  <1>2. {MaxEntries, MaxSpills} \subseteq Nat /\ IsFiniteSet({}) /\ Cardinality({}) = 0
    BY MemoryAssumption, FS_EmptySet
  <1>3. HermesTypeOK
    BY <1>1, <1>2 DEF HermesInit, HermesTypeOK, Entries
  <1>4. SavedOnce /\ LatelyKept /\ ArraysInOrder /\ ClearTakes
    BY <1>1, <1>2 DEF HermesInit, SavedOnce, LatelyKept, ArraysInOrder, ClearTakes
  <1> QED
    BY <1>3, <1>4 DEF HermesInductive

\* Every step keeps the invariant.
LEMMA HermesKeeps ==
    ASSUME HermesInductive, [HermesNext]_hermesVars
    PROVE  HermesInductive'
  <1>1. CASE UNCHANGED hermesVars
    <2>1. Memory' = Memory /\ InUse' = InUse
      BY <1>1 DEF hermesVars, Memory, InUse
    <2> QED
      BY <1>1, <2>1 DEF hermesVars, HermesInductive, HermesTypeOK, SavedOnce, ArraysInOrder,
                        LatelyKept, ClearTakes
  <1>2. ASSUME NEW s \in spills, SaveCut(s) \/ CutMemory(s) PROVE HermesInductive'
    BY <1>2, SaveCutKeeps, CutKeeps
  <1> QED
    BY <1>1, <1>2, PostKeeps, SaveKeeps, ClearsKeep, StartKeeps, ReadKeeps, FillKeeps
       DEF HermesNext

\* The conversation memory is kept: a recall has the entries posted last, and a
\* clear that was answered left nothing of what was posted before it.
THEOREM MemoryKeptAlways == HermesSpec => []MemoryKept
  <1>1. HermesInductive => MemoryKept
    <2> SUFFICES ASSUME HermesInductive PROVE MemoryKept
      OBVIOUS
    <2>1. ClearedIsGone
      BY DEF ClearedIsGone, HermesInductive, ClearTakes
    <2> QED
      BY <2>1, LatelyRecalled DEF MemoryKept
  <1> QED
    BY <1>1, HermesStarts, HermesKeeps, PTL DEF HermesSpec

-----------------------------------------------------------------------------
(* Sequences gone through in turn *)

\* What there is after each element, from the beginning to the end.
Turns(after, R, step, elements, start, end) ==
    /\ after \in [0..Len(elements) -> R]
    /\ after[0] = start /\ after[Len(elements)] = end
    /\ \A i \in 1..Len(elements) : after[i] = step[elements[i]][after[i - 1]]

\* What is made in turn is made step by step.
LEMMA InTurnIs ==
    ASSUME NEW A, NEW R, NEW step \in [A -> [R -> R]], NEW elements \in Seq(A), NEW start \in R
    PROVE  /\ InTurn(step, elements, start) \in R
           /\ \E after : Turns(after, R, step, elements, start, InTurn(step, elements, start))
  <1> DEFINE n == Len(elements)
             h == [k \in Nat |-> [x \in R |->
                      IF k + 1 \in 1..n THEN step[elements[k + 1]][x] ELSE x]]
  <1>1. n \in Nat /\ \A i \in 1..n : elements[i] \in A
    OBVIOUS
  <1>2. h \in [Nat -> [R -> R]]
        /\ \A k \in Nat, x \in R : k + 1 \in 1..n => h[k][x] = step[elements[k + 1]][x]
    BY <1>1
  <1> HIDE DEF h
  <1>3. PICK g : Follows(g, R, start, h)
    BY <1>2, Recursion
  <1>4. g \in [Nat -> R] /\ g[0] = start
    BY <1>3 DEF Follows
  <1>5. \E f : f = [i \in 0..Len(elements) |->
                      IF i = 0 THEN start ELSE step[elements[i]][f[i - 1]]]
    <2>1. \E f : f = [i \in 0..n |-> g[i]]
      OBVIOUS
    <2>2. PICK f : f = [i \in 0..n |-> g[i]]
      BY <2>1
    <2>3. ASSUME NEW i \in 0..n
          PROVE  g[i] = IF i = 0 THEN start ELSE step[elements[i]][f[i - 1]]
      <3>1. CASE i = 0
        BY <1>4, <3>1
      <3>2. CASE i # 0
        <4>1. i - 1 \in Nat /\ (i - 1) + 1 = i /\ i \in 1..n /\ i - 1 \in 0..n
          BY <3>2
        <4>2. g[(i - 1) + 1] = h[i - 1][g[i - 1]]
          BY <1>3, <4>1 DEF Follows
        <4>3. h[i - 1][g[i - 1]] = step[elements[i]][g[i - 1]]
          BY <1>2, <1>4, <4>1
        <4>4. f[i - 1] = g[i - 1]
          BY <2>2, <4>1
        <4> QED
          BY <3>2, <4>1, <4>2, <4>3, <4>4
      <3> QED
        BY <3>1, <3>2
    <2> QED
      BY <2>2, <2>3
  <1> DEFINE F == CHOOSE f : f = [i \in 0..Len(elements) |->
                                    IF i = 0 THEN start ELSE step[elements[i]][f[i - 1]]]
  <1>6. F = [i \in 0..Len(elements) |-> IF i = 0 THEN start ELSE step[elements[i]][F[i - 1]]]
    BY <1>5
  <1>7. InTurn(step, elements, start) = F[Len(elements)]
    BY DEF InTurn
  <1> HIDE DEF F
  <1>8. ASSUME NEW i \in 0..n
        PROVE  F[i] = IF i = 0 THEN start ELSE step[elements[i]][F[i - 1]]
    BY <1>6, <1>8, Zenon DEF n
  <1>9. F[0] = start
    <2>1. 0 \in 0..n
      BY <1>1
    <2> QED
      BY <1>8, <2>1
  <1> DEFINE T == {i \in Nat : i <= n => F[i] \in R}
  <1>10. Nat \subseteq T
    <2>1. 0 \in T
      BY <1>9
    <2>2. ASSUME NEW i \in Nat, i \in T PROVE i + 1 \in T
      <3> SUFFICES ASSUME i + 1 <= n PROVE F[i + 1] \in R
        OBVIOUS
      <3>1. i + 1 \in 0..n /\ i + 1 # 0 /\ (i + 1) - 1 = i /\ i <= n /\ i + 1 \in 1..n
        BY <1>1
      <3>2. F[i] \in R
        BY <2>2, <3>1
      <3>3. F[i + 1] = step[elements[i + 1]][F[i]]
        BY <1>8, <3>1
      <3>4. elements[i + 1] \in A
        BY <1>1, <3>1
      <3> QED
        BY <3>2, <3>3, <3>4
    <2> HIDE DEF T
    <2> QED
      BY <2>1, <2>2, Inducted
  <1>11. F \in [0..n -> R]
    <2>1. \A i \in 0..n : F[i] \in R
      BY <1>10
    <2>2. F = [i \in 0..n |-> F[i]]
      BY <1>6, Zenon DEF n
    <2> QED
      BY <2>1, <2>2
  <1>12. \A i \in 1..n : F[i] = step[elements[i]][F[i - 1]]
    <2>1. \A i \in 1..n : i \in 0..n /\ i # 0
      OBVIOUS
    <2> QED
      BY <1>8, <2>1
  <1>13. Turns(F, R, step, elements, start, InTurn(step, elements, start))
    BY <1>7, <1>9, <1>11, <1>12 DEF Turns
  <1>14. F[Len(elements)] \in R
    BY <1>1, <1>11
  <1> QED
    BY <1>7, <1>13, <1>14

\* The elements of a sequence are as many as it is long if it has none twice.
LEMMA DistinctElements ==
    ASSUME NEW X, NEW s \in Seq(X)
    PROVE  /\ IsFiniteSet(ToSet(s)) /\ Cardinality(ToSet(s)) \in Nat
           /\ Cardinality(ToSet(s)) <= Len(s)
           /\ IsInjective(s) <=> Cardinality(ToSet(s)) = Len(s)
  <1> DEFINE D == 1..Len(s)
             T == ToSet(s)
  <1>1. Len(s) \in Nat /\ DOMAIN s = D /\ s \in [D -> T]
    BY DEF ToSet
  <1>2. s \in Surjection(D, T)
    BY <1>1 DEF Surjection, ToSet
  <1>3. s \in Injection(D, T) <=> IsInjective(s)
    BY <1>1 DEF Injection
  <1>4. IsFiniteSet(D) /\ Cardinality(D) = Len(s)
    BY <1>1, FS_Interval
  <1> HIDE DEF D, T
  <1>5. /\ IsFiniteSet(T) /\ Cardinality(T) <= Cardinality(D)
        /\ Cardinality(T) = Cardinality(D) <=> s \in Injection(D, T)
    BY <1>2, <1>4, FS_Surjection
  <1>6. Cardinality(T) \in Nat
    BY <1>5, FS_CardinalityType
  <1> QED
    BY <1>3, <1>4, <1>5, <1>6 DEF T

-----------------------------------------------------------------------------
(* Task graphs *)

\* A task as it may be written.
GraphTask ==
    [name : TaskNames, deps : Seq(TaskNames \cup {Missing}), status : TaskStatuses]

GraphDocuments == Seq(GraphTask)

\* A document whose structure both validators accept.
Structured(doc) == doc \in GraphDocuments /\ StructureAccepted(doc)

DepsOf(doc, name) == ToSet(Named(doc, name).deps)

\* The names of a document are as many as its tasks if no two have one.
LEMMA DocumentNames ==
    ASSUME NEW doc \in GraphDocuments
    PROVE  /\ NamesListed(doc) \in Seq(TaskNames) /\ Len(NamesListed(doc)) = Len(doc)
           /\ \A i \in 1..Len(doc) : NamesListed(doc)[i] = doc[i].name
           /\ ToSet(NamesListed(doc)) = TaskNamesOf(doc)
           /\ TaskNamesOf(doc) \subseteq TaskNames /\ IsFiniteSet(TaskNamesOf(doc))
           /\ Cardinality(TaskNamesOf(doc)) \in Nat
           /\ Cardinality(TaskNamesOf(doc)) <= Len(doc)
           /\ ~RepeatsName(doc) <=> \A i, j \in DOMAIN doc : doc[i].name = doc[j].name => i = j
  <1> DEFINE names == NamesListed(doc)
  <1>1. /\ doc \in Seq(GraphTask) /\ Len(doc) \in Nat /\ DOMAIN doc = 1..Len(doc)
        /\ \A i \in 1..Len(doc) : doc[i] \in GraphTask /\ doc[i].name \in TaskNames
    <2>1. doc \in Seq(GraphTask)
      BY DEF GraphDocuments
    <2>2. \A task \in GraphTask : task.name \in TaskNames
      BY DEF GraphTask
    <2> QED
      BY <2>1, <2>2
  <1>2. names = [i \in 1..Len(doc) |-> doc[i].name]
    BY <1>1 DEF NamesListed
  <1> HIDE DEF names
  <1>3. names \in Seq(TaskNames) /\ Len(names) = Len(doc) /\ DOMAIN names = 1..Len(doc)
    BY <1>1, <1>2
  <1>4. \A i \in 1..Len(doc) : names[i] = doc[i].name
    BY <1>2
  <1>5. ToSet(names) = TaskNamesOf(doc)
    BY <1>1, <1>3, <1>4 DEF ToSet, TaskNamesOf
  <1>6. /\ IsFiniteSet(ToSet(names)) /\ Cardinality(ToSet(names)) \in Nat
        /\ Cardinality(ToSet(names)) <= Len(names)
        /\ IsInjective(names) <=> Cardinality(ToSet(names)) = Len(names)
    BY <1>3, DistinctElements
  <1>7. IsInjective(names) <=> \A i, j \in DOMAIN doc : doc[i].name = doc[j].name => i = j
    BY <1>1, <1>3, <1>4 DEF IsInjective
  <1>8. ~RepeatsName(doc) <=> Cardinality(ToSet(names)) = Len(names)
    BY <1>1, <1>3, <1>5, <1>6 DEF RepeatsName
  <1>9. TaskNamesOf(doc) \subseteq TaskNames
    BY <1>1 DEF TaskNamesOf, ToSet
  <1> QED
    BY <1>3, <1>4, <1>5, <1>6, <1>7, <1>8, <1>9 DEF names

\* Where no name is twice, a name's task is the one that has it.
LEMMA OnlyNamed ==
    ASSUME NEW doc \in GraphDocuments, ~RepeatsName(doc)
    PROVE  /\ \A i \in DOMAIN doc : Named(doc, doc[i].name) = doc[i]
           /\ \A task \in ToSet(doc) : Named(doc, task.name) = task /\ task \in GraphTask
           /\ \A name \in TaskNamesOf(doc) :
                 Named(doc, name) \in ToSet(doc) /\ Named(doc, name).name = name
  <1>1. /\ Len(doc) \in Nat /\ DOMAIN doc = 1..Len(doc)
        /\ \A i \in 1..Len(doc) : doc[i] \in GraphTask
    BY DEF GraphDocuments
  <1>2. \A i, j \in DOMAIN doc : doc[i].name = doc[j].name => i = j
    BY DocumentNames
  <1>3. ASSUME NEW i \in DOMAIN doc PROVE Named(doc, doc[i].name) = doc[i]
    <2>1. {j \in DOMAIN doc : doc[j].name = doc[i].name} = {i}
      BY <1>2
    <2>2. Max({i}) = i
      BY <1>1 DEF Max
    <2> QED
      BY <2>1, <2>2 DEF Named
  <1>4. \A task \in ToSet(doc) : Named(doc, task.name) = task /\ task \in GraphTask
    BY <1>1, <1>3 DEF ToSet
  <1>5. \A name \in TaskNamesOf(doc) :
           Named(doc, name) \in ToSet(doc) /\ Named(doc, name).name = name
    BY <1>4 DEF TaskNamesOf
  <1> QED
    BY <1>3, <1>4, <1>5

\* The dependencies of a structured document are other tasks of it, each once.
LEMMA StructureIs ==
    ASSUME NEW doc, Structured(doc)
    PROVE  \A name \in TaskNamesOf(doc) :
              /\ Named(doc, name).deps \in Seq(TaskNamesOf(doc))
              /\ IsInjective(Named(doc, name).deps)
              /\ DepsOf(doc, name) \subseteq TaskNamesOf(doc) \ {name}
              /\ IsFiniteSet(DepsOf(doc, name))
  <1> SUFFICES ASSUME NEW name \in TaskNamesOf(doc)
               PROVE  /\ Named(doc, name).deps \in Seq(TaskNamesOf(doc))
                      /\ IsInjective(Named(doc, name).deps)
                      /\ DepsOf(doc, name) \subseteq TaskNamesOf(doc) \ {name}
                      /\ IsFiniteSet(DepsOf(doc, name))
    OBVIOUS
  <1>1. doc \in GraphDocuments /\ ~RepeatsName(doc)
        /\ \A task \in ToSet(doc) : ~WrongDependency(doc, task)
    BY DEF Structured, StructureAccepted
  <1> DEFINE task == Named(doc, name)
  <1>2. task \in ToSet(doc) /\ task \in GraphTask /\ task.name = name
    BY <1>1, OnlyNamed
  <1>3. /\ ToSet(task.deps) \subseteq TaskNamesOf(doc) /\ name \notin ToSet(task.deps)
        /\ IsInjective(task.deps)
    BY <1>1, <1>2 DEF WrongDependency
  <1>4. task.deps \in Seq(TaskNames \cup {Missing})
    BY <1>2 DEF GraphTask
  <1> HIDE DEF task
  <1>5. task.deps \in Seq(TaskNamesOf(doc))
    <2>1. \A i \in 1..Len(task.deps) : task.deps[i] \in TaskNamesOf(doc)
      BY <1>3, <1>4 DEF ToSet
    <2> QED
      BY <1>4, <2>1
  <1>6. IsFiniteSet(ToSet(task.deps))
    BY <1>4, DistinctElements
  <1> QED
    BY <1>3, <1>5, <1>6 DEF DepsOf, task

\* What a dependency may name.
AllNames == TaskNames \cup {Missing}

\* What visits from any name in any search.
Visitors == [AllNames -> [Searches -> Searches]]

\* A visit makes a search of a search.
LEMMA VisitTyped ==
    ASSUME NEW doc, Structured(doc), NEW below \in Visitors, NEW name \in AllNames,
           NEW search \in Searches
    PROVE  Visit(doc, name, search, below) \in Searches
  <1>1. CASE name \in search.visiting
    BY <1>1 DEF Visit, Searches
  <1>2. CASE name \notin search.visiting /\ (name \in search.visited \/ name \notin TaskNamesOf(doc))
    BY <1>2 DEF Visit
  <1>3. CASE name \notin search.visiting /\ name \notin search.visited /\ name \in TaskNamesOf(doc)
    <2> DEFINE entered == [search EXCEPT !.visiting = @ \cup {name}]
               deps == Named(doc, name).deps
               left == InTurn(below, deps, entered)
    <2>1. TaskNamesOf(doc) \subseteq TaskNames
      BY DocumentNames DEF Structured
    <2>2. deps \in Seq(TaskNamesOf(doc))
      BY <1>3, StructureIs
    <2>3. deps \in Seq(AllNames)
      <3> HIDE DEF deps
      <3> QED
        BY <2>1, <2>2 DEF AllNames
    <2>4. entered \in Searches
      BY <1>3, <2>1 DEF Searches
    <2>5. left \in Searches
      <3> HIDE DEF entered, deps
      <3>1. below \in [AllNames -> [Searches -> Searches]]
        BY DEF Visitors
      <3> QED
        BY <2>3, <2>4, <3>1, InTurnIs
    <2>6. Visit(doc, name, search, below)
             = [left EXCEPT !.visiting = @ \ {name}, !.visited = @ \cup {name}]
      BY <1>3 DEF Visit
    <2> HIDE DEF left
    <2> QED
      BY <1>3, <2>1, <2>5, <2>6 DEF Searches
  <1> QED
    BY <1>1, <1>2, <1>3

\* Visits go on by their rule, one deeper at a time.
LEMMA VisitsIs ==
    ASSUME NEW doc, Structured(doc)
    PROVE  \E visits \in [Nat -> Visitors] :
              /\ Visits(doc) = visits[Len(doc) + 1]
              /\ \A depth \in Nat, name \in AllNames, search \in Searches :
                    visits[depth + 1][name][search] = Visit(doc, name, search, visits[depth])
  <1> DEFINE still == [name \in AllNames |-> [search \in Searches |-> search]]
             deeper(b) == [name \in AllNames |-> [search \in Searches |->
                              Visit(doc, name, search, b)]]
             h == [n \in Nat |-> [b \in Visitors |-> deeper(b)]]
  <1>1. still \in Visitors /\ \A b \in Visitors : deeper(b) \in Visitors
    BY VisitTyped DEF Visitors
  <1>2. h \in [Nat -> [Visitors -> Visitors]]
        /\ \A n \in Nat, b \in Visitors : h[n][b] = deeper(b)
    <2> HIDE DEF deeper
    <2> QED
      BY <1>1
  <1>3. PICK g : Follows(g, Visitors, still, h)
    <2> HIDE DEF h, still
    <2> QED
      BY <1>1, <1>2, Recursion
  <1> HIDE DEF h
  <1>4. g \in [Nat -> Visitors] /\ g[0] = still
    BY <1>3 DEF Follows
  <1>5. \A n \in Nat : g[n + 1] = deeper(g[n])
    <2> HIDE DEF deeper
    <2> QED
      BY <1>2, <1>3, <1>4 DEF Follows
  <1> DEFINE rule(f, depth) ==
                 [name \in TaskNames \cup {Missing} |-> [search \in Searches |->
                     IF depth = 0 THEN search ELSE Visit(doc, name, search, f[depth - 1])]]
  <1>6. ASSUME NEW f PROVE rule(f, 0) = still
    BY DEF AllNames
  <1>7. ASSUME NEW f, NEW depth \in Nat PROVE rule(f, depth + 1) = deeper(f[depth])
    <2>1. depth + 1 # 0 /\ (depth + 1) - 1 = depth
      OBVIOUS
    <2> QED
      BY <2>1 DEF AllNames
  <1> HIDE DEF still, deeper
  <1>8. \E f : f = [depth \in Nat |-> rule(f, depth)]
    <2>1. ASSUME NEW depth \in Nat PROVE g[depth] = rule(g, depth)
      <3>1. CASE depth = 0
        <4> HIDE DEF rule
        <4> QED
          BY <1>4, <1>6, <3>1
      <3>2. CASE depth # 0
        <4>1. depth - 1 \in Nat /\ (depth - 1) + 1 = depth
          BY <3>2
        <4> HIDE DEF rule
        <4>2. g[(depth - 1) + 1] = deeper(g[depth - 1])
              /\ rule(g, (depth - 1) + 1) = deeper(g[depth - 1])
          BY <1>5, <1>7, <4>1
        <4> QED
          BY <4>1, <4>2
      <3> QED
        BY <3>1, <3>2
    <2> HIDE DEF rule
    <2>2. g = [depth \in Nat |-> rule(g, depth)]
      BY <1>4, <2>1
    <2> QED
      BY <2>2
  <1> DEFINE F == CHOOSE f : f = [depth \in Nat |-> rule(f, depth)]
  <1>9. F = [depth \in Nat |-> rule(F, depth)]
    <2> HIDE DEF rule
    <2> QED
      BY <1>8
  <1>10. Visits(doc) = F[Len(doc) + 1]
    BY DEF Visits
  <1> HIDE DEF F, rule
  <1>11. \A depth \in Nat : F[depth] = rule(F, depth)
    BY <1>9, Zenon
  <1>12. F[0] = still /\ \A depth \in Nat : F[depth + 1] = deeper(F[depth])
    BY <1>6, <1>7, <1>11
  <1> DEFINE T == {depth \in Nat : F[depth] \in Visitors}
  <1>13. Nat \subseteq T
    <2>1. 0 \in T
      BY <1>1, <1>12
    <2>2. ASSUME NEW n \in Nat, n \in T PROVE n + 1 \in T
      BY <1>1, <1>12, <2>2
    <2> HIDE DEF T
    <2> QED
      BY <2>1, <2>2, Inducted
  <1>14. F \in [Nat -> Visitors]
    <2>1. \A n \in Nat : F[n] \in Visitors
      BY <1>13
    <2>2. F = [n \in Nat |-> F[n]]
      BY <1>9, Zenon
    <2> QED
      BY <2>1, <2>2
  <1>15. \A depth \in Nat, name \in AllNames, search \in Searches :
             F[depth + 1][name][search] = Visit(doc, name, search, F[depth])
    <2> SUFFICES ASSUME NEW depth \in Nat, NEW name \in AllNames, NEW search \in Searches
                 PROVE  F[depth + 1][name][search] = Visit(doc, name, search, F[depth])
      OBVIOUS
    <2>1. F[depth + 1] = [m \in AllNames |-> [s \in Searches |-> Visit(doc, m, s, F[depth])]]
      BY <1>12 DEF deeper
    <2>2. F[depth + 1][name] = [s \in Searches |-> Visit(doc, name, s, F[depth])]
      BY <2>1
    <2> QED
      BY <2>2
  <1> QED
    BY <1>10, <1>14, <1>15

\* Each of some tasks waits for one of them.
Waiting(doc, some) == \A name \in some : DepsOf(doc, name) \cap some # {}

\* What is done needs nothing that is not, and none of it waits for itself.
Clean(doc, done) ==
    /\ \A name \in done : DepsOf(doc, name) \subseteq done
    /\ \A some \in SUBSET done : Waiting(doc, some) => some = {}

\* From everything on a path dependencies lead on to a task.
Leads(doc, path, name) ==
    \A from \in path :
        \E some \in SUBSET path :
            from \in some /\ \A m \in some : DepsOf(doc, m) \cap (some \cup {name}) # {}

\* A deadlock, in these words.
LEMMA DeadlockedIs ==
    ASSUME NEW doc
    PROVE  Deadlocked(doc) <=> \E some \in SUBSET TaskNamesOf(doc) :
                                  some # {} /\ Waiting(doc, some)
  <1>1. \A some : some \in (SUBSET TaskNamesOf(doc)) \ {{}}
                    <=> some \in SUBSET TaskNamesOf(doc) /\ some # {}
    OBVIOUS
  <1>2. \A some : Waiting(doc, some)
                    <=> \A name \in some : ToSet(Named(doc, name).deps) \cap some # {}
    BY Zenon DEF Waiting, DepsOf
  <1> QED
    BY <1>1, <1>2, Zenon DEF Deadlocked

\* A path that comes back to itself is a deadlock.
LEMMA PathCloses ==
    ASSUME NEW doc, NEW path \in SUBSET TaskNamesOf(doc), NEW name \in path,
           Leads(doc, path, name)
    PROVE  Deadlocked(doc)
  <1>1. PICK some \in SUBSET path :
           name \in some /\ \A m \in some : DepsOf(doc, m) \cap (some \cup {name}) # {}
    BY DEF Leads
  <1>2. some \cup {name} = some
    BY <1>1
  <1> QED
    BY <1>1, <1>2, DeadlockedIs DEF Waiting

\* A path goes on to what its last task depends on.
LEMMA PathGoesOn ==
    ASSUME NEW doc, NEW path, NEW name, Leads(doc, path, name), NEW dep \in DepsOf(doc, name)
    PROVE  Leads(doc, path \cup {name}, dep)
  <1> SUFFICES ASSUME NEW from \in path \cup {name}
               PROVE  \E some \in SUBSET (path \cup {name}) :
                         /\ from \in some
                         /\ \A m \in some : DepsOf(doc, m) \cap (some \cup {dep}) # {}
    BY DEF Leads
  <1>1. CASE from = name
    <2>1. {name} \in SUBSET (path \cup {name}) /\ from \in {name}
      BY <1>1
    <2>2. \A m \in {name} : DepsOf(doc, m) \cap ({name} \cup {dep}) # {}
      OBVIOUS
    <2> QED
      BY <2>1, <2>2
  <1>2. CASE from \in path
    <2>1. PICK some \in SUBSET path :
             from \in some /\ \A m \in some : DepsOf(doc, m) \cap (some \cup {name}) # {}
      BY <1>2 DEF Leads
    <2> DEFINE more == some \cup {name}
    <2>2. more \in SUBSET (path \cup {name}) /\ from \in more
      BY <2>1
    <2>3. ASSUME NEW m \in more PROVE DepsOf(doc, m) \cap (more \cup {dep}) # {}
      <3>1. CASE m \in some
        BY <2>1, <3>1
      <3>2. CASE m = name
        BY <3>2
      <3> QED
        BY <3>1, <3>2
    <2> QED
      BY <2>2, <2>3
  <1> QED
    BY <1>1, <1>2

\* What needs only what is done is done next.
LEMMA CleanGrows ==
    ASSUME NEW doc, NEW done, Clean(doc, done), NEW name, name \notin done,
           DepsOf(doc, name) \subseteq done
    PROVE  Clean(doc, done \cup {name})
  <1>1. \A m \in done \cup {name} : DepsOf(doc, m) \subseteq done \cup {name}
    BY DEF Clean
  <1>2. ASSUME NEW some \in SUBSET (done \cup {name}), Waiting(doc, some) PROVE some = {}
    <2> DEFINE rest == some \ {name}
    <2>1. rest \in SUBSET done
      OBVIOUS
    <2>2. ASSUME NEW m \in rest PROVE DepsOf(doc, m) \cap rest # {}
      <3>1. m \in done /\ DepsOf(doc, m) \subseteq done
        BY <2>1 DEF Clean
      <3>2. DepsOf(doc, m) \cap some # {}
        BY <1>2 DEF Waiting
      <3> QED
        BY <3>1, <3>2
    <2>3. rest = {}
      <3> HIDE DEF rest
      <3> QED
        BY <2>1, <2>2 DEF Clean, Waiting
    <2>4. name \notin some
      BY <1>2, <2>3 DEF Waiting
    <2> QED
      BY <2>3, <2>4
  <1> QED
    BY <1>1, <1>2 DEF Clean

-----------------------------------------------------------------------------
(* The search for cycles *)

\* The tasks that were left are clean as long as no cycle was found.
SearchGood(doc, s) ==
    /\ s.visiting \subseteq TaskNamesOf(doc) /\ s.visited \subseteq TaskNamesOf(doc)
    /\ s.visiting \cap s.visited = {}
    /\ s.cycle => Deadlocked(doc)
    /\ ~s.cycle => Clean(doc, s.visited)

\* A search that went on is where it was.
Searched(doc, s, r) ==
    /\ r \in Searches /\ SearchGood(doc, r)
    /\ r.visiting = s.visiting /\ s.visited \subseteq r.visited
    /\ s.cycle => r.cycle

\* Visits that find a cycle or leave the task, where the path is as long as it
\* may be for them.
Finds(doc, visit, depth) ==
    \A name \in TaskNamesOf(doc), s \in Searches :
        /\ SearchGood(doc, s) /\ Leads(doc, s.visiting, name)
        /\ Cardinality(TaskNamesOf(doc) \ s.visiting) < depth
        => /\ Searched(doc, s, visit[name][s])
           /\ visit[name][s].cycle \/ name \in visit[name][s].visited

\* So do visits one after the other.
LEMMA TurnsFind ==
    ASSUME NEW doc, NEW visit \in Visitors, NEW depth \in Nat, Finds(doc, visit, depth),
           NEW elements \in Seq(TaskNamesOf(doc)), NEW s \in Searches, SearchGood(doc, s),
           TaskNamesOf(doc) \subseteq AllNames,
           \A i \in 1..Len(elements) : Leads(doc, s.visiting, elements[i]),
           Cardinality(TaskNamesOf(doc) \ s.visiting) < depth
    PROVE  /\ Searched(doc, s, InTurn(visit, elements, s))
           /\ \/ InTurn(visit, elements, s).cycle
              \/ ToSet(elements) \subseteq InTurn(visit, elements, s).visited
  <1> DEFINE end == InTurn(visit, elements, s)
  <1>1. elements \in Seq(AllNames) /\ visit \in [AllNames -> [Searches -> Searches]]
        /\ Len(elements) \in Nat /\ \A i \in 1..Len(elements) : elements[i] \in TaskNamesOf(doc)
    BY DEF Visitors
  <1>2. PICK after : Turns(after, Searches, visit, elements, s, end)
    <2> HIDE DEF end
    <2>1. \E after : Turns(after, Searches, visit, elements, s, InTurn(visit, elements, s))
      BY <1>1, InTurnIs
    <2> QED
      BY <2>1 DEF end
  <1> HIDE DEF end
  <1>3. /\ after \in [0..Len(elements) -> Searches] /\ after[0] = s /\ after[Len(elements)] = end
        /\ \A i \in 1..Len(elements) : after[i] = visit[elements[i]][after[i - 1]]
    BY <1>2 DEF Turns
  <1> DEFINE holds(i) == /\ Searched(doc, s, after[i])
                         /\ \/ after[i].cycle
                            \/ \A j \in 1..i : elements[j] \in after[i].visited
             T == {i \in Nat : i <= Len(elements) => holds(i)}
  <1>4. Nat \subseteq T
    <2>1. 0 \in T
      BY <1>3 DEF Searched
    <2>2. ASSUME NEW i \in Nat, i \in T PROVE i + 1 \in T
      <3> SUFFICES ASSUME i + 1 <= Len(elements) PROVE holds(i + 1)
        OBVIOUS
      <3>1. i + 1 \in 1..Len(elements) /\ (i + 1) - 1 = i /\ i \in 0..Len(elements)
        BY <1>1
      <3>2. holds(i) /\ after[i] \in Searches
        BY <1>3, <2>2, <3>1
      <3>3. after[i + 1] = visit[elements[i + 1]][after[i]] /\ elements[i + 1] \in TaskNamesOf(doc)
        BY <1>1, <1>3, <3>1
      <3>4. after[i].visiting = s.visiting /\ SearchGood(doc, after[i])
        BY <3>2 DEF Searched
      <3>5. Leads(doc, after[i].visiting, elements[i + 1])
            /\ Cardinality(TaskNamesOf(doc) \ after[i].visiting) < depth
        BY <3>1, <3>4
      <3>6. /\ Searched(doc, after[i], after[i + 1])
            /\ after[i + 1].cycle \/ elements[i + 1] \in after[i + 1].visited
        BY <3>2, <3>3, <3>4, <3>5 DEF Finds
      <3>7. Searched(doc, s, after[i + 1])
        BY <3>2, <3>6 DEF Searched
      <3>8. after[i + 1].cycle \/ \A j \in 1..(i + 1) : elements[j] \in after[i + 1].visited
        <4> SUFFICES ASSUME ~after[i + 1].cycle, NEW j \in 1..(i + 1)
                     PROVE  elements[j] \in after[i + 1].visited
          OBVIOUS
        <4>1. CASE j = i + 1
          BY <3>6, <4>1
        <4>2. CASE j # i + 1
          <5>1. j \in 1..i
            BY <4>2
          <5>2. ~after[i].cycle /\ after[i].visited \subseteq after[i + 1].visited
            BY <3>6 DEF Searched
          <5> QED
            BY <3>2, <5>1, <5>2
        <4> QED
          BY <4>1, <4>2
      <3> QED
        BY <3>7, <3>8
    <2> HIDE DEF T
    <2> QED
      BY <2>1, <2>2, Inducted
  <1>5. holds(Len(elements))
    <2>1. Len(elements) \in T
      BY <1>1, <1>4
    <2> QED
      BY <1>1, <2>1
  <1>6. Searched(doc, s, end) /\ (end.cycle \/ ToSet(elements) \subseteq end.visited)
    BY <1>3, <1>5 DEF ToSet
  <1> QED
    BY <1>6 DEF end

\* What is on the path was not left, and the rest of the names are fewer.
LEMMA OneLessLeft ==
    ASSUME NEW N, IsFiniteSet(N), NEW path \in SUBSET N, NEW name \in N, name \notin path
    PROVE  /\ Cardinality(N \ path) \in Nat
           /\ Cardinality(N \ (path \cup {name})) = Cardinality(N \ path) - 1
  <1>1. IsFiniteSet(N \ path)
    BY FS_Difference
  <1>2. N \ (path \cup {name}) = (N \ path) \ {name} /\ name \in N \ path
    OBVIOUS
  <1>3. Cardinality((N \ path) \ {name}) = Cardinality(N \ path) - 1
    BY <1>1, <1>2, FS_RemoveElement
  <1>4. Cardinality(N \ path) \in Nat
    BY <1>1, FS_CardinalityType
  <1> QED
    BY <1>2, <1>3, <1>4

\* A visit finds what visits below it find of the dependencies.
LEMMA VisitFinds ==
    ASSUME NEW doc, Structured(doc), NEW depth \in Nat, NEW below \in Visitors,
           Finds(doc, below, depth),
           NEW name \in TaskNamesOf(doc), NEW s \in Searches, SearchGood(doc, s),
           Leads(doc, s.visiting, name), Cardinality(TaskNamesOf(doc) \ s.visiting) < depth + 1
    PROVE  /\ Searched(doc, s, Visit(doc, name, s, below))
           /\ \/ Visit(doc, name, s, below).cycle
              \/ name \in Visit(doc, name, s, below).visited
  <1> DEFINE N == TaskNamesOf(doc)
             r == Visit(doc, name, s, below)
  <1>1. /\ N \subseteq TaskNames /\ IsFiniteSet(N) /\ N \subseteq AllNames
        /\ name \in AllNames
    BY DocumentNames DEF Structured, AllNames
  <1>2. r \in Searches
    BY <1>1, VisitTyped
  <1>3. /\ s.visiting \in SUBSET N /\ s.visited \in SUBSET N /\ s.visiting \cap s.visited = {}
        /\ s.cycle => Deadlocked(doc)
        /\ ~s.cycle => Clean(doc, s.visited)
    BY DEF SearchGood
  <1>4. CASE name \in s.visiting
    <2>1. r = [s EXCEPT !.cycle = TRUE]
      BY <1>4 DEF Visit
    <2>2. r.visiting = s.visiting /\ r.visited = s.visited /\ r.cycle = TRUE
      BY <2>1 DEF Searches
    <2>3. Deadlocked(doc)
      BY <1>3, <1>4, PathCloses
    <2> HIDE DEF r
    <2> QED
      BY <1>2, <1>3, <2>2, <2>3 DEF Searched, SearchGood, r
  <1>5. CASE name \notin s.visiting /\ name \in s.visited
    <2>1. r = s
      BY <1>5 DEF Visit
    <2> QED
      BY <1>5, <2>1 DEF Searched
  <1>6. CASE name \notin s.visiting /\ name \notin s.visited
    <2> DEFINE entered == [s EXCEPT !.visiting = @ \cup {name}]
               deps    == Named(doc, name).deps
               left    == InTurn(below, deps, entered)
    <2>1. r = [left EXCEPT !.visiting = @ \ {name}, !.visited = @ \cup {name}]
      BY <1>6 DEF Visit
    <2>2. /\ entered \in Searches /\ entered.visiting = s.visiting \cup {name}
          /\ entered.visited = s.visited /\ entered.cycle = s.cycle
      BY <1>1 DEF Searches
    <2>3. deps \in Seq(N) /\ DepsOf(doc, name) \subseteq N \ {name}
      BY StructureIs
    <2>4. DepsOf(doc, name) = ToSet(deps)
      BY DEF DepsOf
    <2> HIDE DEF entered, deps, r
    <2>5. SearchGood(doc, entered)
      BY <1>3, <1>6, <2>2 DEF SearchGood
    <2>6. Cardinality(N \ entered.visiting) < depth
      <3>1. /\ Cardinality(N \ s.visiting) \in Nat
            /\ Cardinality(N \ (s.visiting \cup {name})) = Cardinality(N \ s.visiting) - 1
        <4> HIDE DEF N
        <4> QED
          BY <1>1, <1>3, <1>6, OneLessLeft DEF N
      <3> QED
        BY <2>2, <3>1
    <2>7. \A i \in 1..Len(deps) : Leads(doc, entered.visiting, deps[i])
      <3> SUFFICES ASSUME NEW i \in 1..Len(deps) PROVE Leads(doc, entered.visiting, deps[i])
        OBVIOUS
      <3>1. deps[i] \in DepsOf(doc, name)
        BY <2>3, <2>4 DEF ToSet
      <3> QED
        BY <2>2, <3>1, PathGoesOn
    <2>8. /\ Searched(doc, entered, left)
          /\ left.cycle \/ ToSet(deps) \subseteq left.visited
      BY <1>1, <2>2, <2>3, <2>5, <2>6, <2>7, TurnsFind
    <2> HIDE DEF left
    <2>9. /\ left \in Searches /\ left.visiting = s.visiting \cup {name}
          /\ s.visited \subseteq left.visited /\ (s.cycle => left.cycle)
          /\ left.visited \subseteq N /\ name \notin left.visited
          /\ s.visiting \cap left.visited = {}
          /\ left.cycle => Deadlocked(doc)
          /\ ~left.cycle => Clean(doc, left.visited)
      BY <2>2, <2>8 DEF Searched, SearchGood
    <2>10. /\ r.visiting = (s.visiting \cup {name}) \ {name}
           /\ r.visited = left.visited \cup {name} /\ r.cycle = left.cycle
      BY <2>1, <2>9 DEF Searches
    <2>11. r.visiting = s.visiting
      BY <1>6, <2>10
    <2>12. ~r.cycle => Clean(doc, r.visited)
      BY <2>4, <2>8, <2>9, <2>10, CleanGrows
    <2>13. SearchGood(doc, r)
      BY <1>3, <1>6, <2>9, <2>10, <2>11, <2>12 DEF SearchGood
    <2>14. s.visited \subseteq r.visited /\ name \in r.visited /\ (s.cycle => r.cycle)
      BY <2>9, <2>10
    <2>15. Searched(doc, s, r) /\ name \in r.visited
      BY <1>2, <2>11, <2>13, <2>14, Zenon DEF Searched, r
    <2> QED
      BY <2>15 DEF r
  <1> QED
    BY <1>4, <1>5, <1>6

\* Visits as deep as there are names, and one more, find every cycle.
LEMMA VisitsFind ==
    ASSUME NEW doc, Structured(doc)
    PROVE  Visits(doc) \in Visitors /\ Finds(doc, Visits(doc), Len(doc) + 1)
  <1>1. PICK visits \in [Nat -> Visitors] :
           /\ Visits(doc) = visits[Len(doc) + 1]
           /\ \A depth \in Nat, name \in AllNames, search \in Searches :
                 visits[depth + 1][name][search] = Visit(doc, name, search, visits[depth])
    BY VisitsIs
  <1>2. /\ TaskNamesOf(doc) \subseteq AllNames /\ IsFiniteSet(TaskNamesOf(doc))
        /\ Len(doc) \in Nat
    BY DocumentNames DEF Structured, AllNames, GraphDocuments
  <1> DEFINE T == {depth \in Nat : Finds(doc, visits[depth], depth)}
  <1>3. Nat \subseteq T
    <2>1. 0 \in T
      <3>1. ASSUME NEW s \in Searches PROVE ~(Cardinality(TaskNamesOf(doc) \ s.visiting) < 0)
        <4>1. IsFiniteSet(TaskNamesOf(doc) \ s.visiting)
          BY <1>2, FS_Difference
        <4>2. Cardinality(TaskNamesOf(doc) \ s.visiting) \in Nat
          BY <4>1, FS_CardinalityType
        <4> QED
          BY <4>2
      <3> QED
        BY <3>1 DEF Finds
    <2>2. ASSUME NEW n \in Nat, n \in T PROVE n + 1 \in T
      <3>1. Finds(doc, visits[n], n) /\ visits[n] \in Visitors
        BY <1>1, <2>2
      <3>2. ASSUME NEW name \in TaskNamesOf(doc), NEW s \in Searches, SearchGood(doc, s),
                   Leads(doc, s.visiting, name),
                   Cardinality(TaskNamesOf(doc) \ s.visiting) < n + 1
            PROVE  /\ Searched(doc, s, visits[n + 1][name][s])
                   /\ visits[n + 1][name][s].cycle \/ name \in visits[n + 1][name][s].visited
        <4>1. visits[n + 1][name][s] = Visit(doc, name, s, visits[n])
          BY <1>1, <1>2
        <4>2. /\ Searched(doc, s, Visit(doc, name, s, visits[n]))
              /\ \/ Visit(doc, name, s, visits[n]).cycle
                 \/ name \in Visit(doc, name, s, visits[n]).visited
          BY <3>1, <3>2, VisitFinds
        <4> QED
          BY <4>1, <4>2
      <3>3. Finds(doc, visits[n + 1], n + 1)
        BY <3>2, Zenon DEF Finds
      <3> QED
        BY <3>3
    <2> HIDE DEF T
    <2> QED
      BY <2>1, <2>2, Inducted
  <1>4. Len(doc) + 1 \in Nat
    BY <1>2
  <1>5. Finds(doc, visits[Len(doc) + 1], Len(doc) + 1) /\ visits[Len(doc) + 1] \in Visitors
    BY <1>1, <1>3, <1>4
  <1> QED
    BY <1>1, <1>5

\* The search finds a cycle in a structured document exactly if it is a deadlock.
LEMMA CycleIs ==
    ASSUME NEW doc, Structured(doc)
    PROVE  CycleDetected(doc) <=> Deadlocked(doc)
  <1> DEFINE s == [visiting |-> {}, visited |-> {}, cycle |-> FALSE]
             N == TaskNamesOf(doc)
             names == NamesListed(doc)
             end == InTurn(Visits(doc), names, s)
  <1>1. /\ names \in Seq(TaskNames) /\ ToSet(names) = N /\ N \subseteq TaskNames
        /\ IsFiniteSet(N) /\ Cardinality(N) \in Nat /\ Cardinality(N) <= Len(doc)
    BY DocumentNames DEF Structured
  <1>2. Len(doc) \in Nat
    BY DEF Structured, GraphDocuments
  <1> HIDE DEF names
  <1>3. names \in Seq(N) /\ N \subseteq AllNames
    <2>1. \A i \in 1..Len(names) : names[i] \in N
      BY <1>1 DEF ToSet
    <2> HIDE DEF N
    <2> QED
      BY <1>1, <2>1 DEF AllNames
  <1>4. s \in Searches /\ s.visiting = {} /\ s.visited = {} /\ s.cycle = FALSE
    BY DEF Searches
  <1> HIDE DEF s
  <1>5. SearchGood(doc, s)
    BY <1>4 DEF SearchGood, Clean
  <1>6. \A i \in 1..Len(names) : Leads(doc, s.visiting, names[i])
    BY <1>4 DEF Leads
  <1>7. Cardinality(N \ s.visiting) < Len(doc) + 1
    <2>1. N \ s.visiting = N
      BY <1>4
    <2>2. Cardinality(N) \in Nat /\ Cardinality(N) <= Len(doc)
      BY <1>1
    <2>3. \A c, n \in Nat : c <= n => c < n + 1
      OBVIOUS
    <2>4. Cardinality(N) < Len(doc) + 1
      BY <1>2, <2>2, <2>3
    <2> QED
      BY <2>1, <2>4, Zenon
  <1>8. Visits(doc) \in Visitors /\ Finds(doc, Visits(doc), Len(doc) + 1)
    BY VisitsFind
  <1>9. Searched(doc, s, end) /\ (end.cycle \/ ToSet(names) \subseteq end.visited)
    <2>1. Len(doc) + 1 \in Nat
      BY <1>2
    <2> QED
      BY <1>3, <1>4, <1>5, <1>6, <1>7, <1>8, <2>1, TurnsFind
  <1>10. CycleDetected(doc) <=> end.cycle
    BY DEF CycleDetected, s, names
  <1> HIDE DEF end
  <1>11. end.cycle => Deadlocked(doc)
    BY <1>9 DEF Searched, SearchGood
  <1>12. ~end.cycle => ~Deadlocked(doc)
    <2> SUFFICES ASSUME ~end.cycle PROVE ~Deadlocked(doc)
      OBVIOUS
    <2>1. Clean(doc, end.visited) /\ N \subseteq end.visited
      BY <1>1, <1>9 DEF Searched, SearchGood
    <2> QED
      BY <2>1, DeadlockedIs DEF Clean
  <1> QED
    BY <1>10, <1>11, <1>12

-----------------------------------------------------------------------------
(* What the validators accept *)

\* The tests of a task say what a sound document says of it.
LEMMA TestsOfTask ==
    ASSUME NEW doc \in GraphDocuments, ~RepeatsName(doc), NEW task \in ToSet(doc)
    PROVE  /\ ~WrongDependency(doc, task) <=>
                 /\ ToSet(task.deps) \subseteq TaskNamesOf(doc) \ {task.name}
                 /\ Cardinality(ToSet(task.deps)) = Len(task.deps)
           /\ ~OutrunsDependency(doc, task) <=>
                 (AtWork(task) =>
                     \A other \in ToSet(doc) : other.name \in ToSet(task.deps) => Settled(other))
  <1>1. task \in GraphTask /\ \A other \in ToSet(doc) : Named(doc, other.name) = other
    BY OnlyNamed
  <1>2. task.deps \in Seq(TaskNames \cup {Missing})
    BY <1>1 DEF GraphTask
  <1>3. IsInjective(task.deps) <=> Cardinality(ToSet(task.deps)) = Len(task.deps)
    BY <1>2, DistinctElements
  <1>4. ~WrongDependency(doc, task) <=>
           /\ ToSet(task.deps) \subseteq TaskNamesOf(doc) \ {task.name}
           /\ Cardinality(ToSet(task.deps)) = Len(task.deps)
    <2>1. /\ ToSet(task.deps) \ TaskNamesOf(doc) # {} <=> ~(ToSet(task.deps) \subseteq TaskNamesOf(doc))
          /\ ToSet(task.deps) \subseteq TaskNamesOf(doc) \ {task.name}
                <=> ToSet(task.deps) \subseteq TaskNamesOf(doc) /\ task.name \notin ToSet(task.deps)
      OBVIOUS
    <2> QED
      BY <1>3, <2>1, Zenon DEF WrongDependency
  <1>5. (\E name \in ToSet(task.deps) \cap TaskNamesOf(doc) : ~Settled(Named(doc, name)))
           <=> \E other \in ToSet(doc) : other.name \in ToSet(task.deps) /\ ~Settled(other)
    <2>1. ASSUME NEW name \in ToSet(task.deps) \cap TaskNamesOf(doc), ~Settled(Named(doc, name))
          PROVE  \E other \in ToSet(doc) : other.name \in ToSet(task.deps) /\ ~Settled(other)
      <3>1. Named(doc, name) \in ToSet(doc) /\ Named(doc, name).name = name
        BY OnlyNamed
      <3> QED
        BY <2>1, <3>1
    <2>2. ASSUME NEW other \in ToSet(doc), other.name \in ToSet(task.deps), ~Settled(other)
          PROVE  \E name \in ToSet(task.deps) \cap TaskNamesOf(doc) : ~Settled(Named(doc, name))
      <3>1. other.name \in TaskNamesOf(doc) /\ Named(doc, other.name) = other
        BY <1>1 DEF TaskNamesOf
      <3> QED
        BY <2>2, <3>1, Zenon
    <2> QED
      BY <2>1, <2>2
  <1> QED
    BY <1>4, <1>5 DEF OutrunsDependency

\* Both accept the sound documents.
LEMMA AcceptedIsSound ==
    ASSUME NEW doc \in GraphDocuments
    PROVE  /\ JsAccepts(doc) <=> Sound(doc)
           /\ RustAccepts(doc) <=> Sound(doc)
           /\ Sound(doc) => Structured(doc) /\ ~Deadlocked(doc)
  <1>1. ~RepeatsName(doc) <=> \A i, j \in DOMAIN doc : doc[i].name = doc[j].name => i = j
    BY DocumentNames
  <1> DEFINE tests(task) ==
                 /\ ToSet(task.deps) \subseteq TaskNamesOf(doc) \ {task.name}
                 /\ Cardinality(ToSet(task.deps)) = Len(task.deps)
             waits(task) ==
                 AtWork(task) =>
                     \A other \in ToSet(doc) : other.name \in ToSet(task.deps) => Settled(other)
  <1>2. ASSUME ~RepeatsName(doc), NEW task \in ToSet(doc)
        PROVE  /\ ~WrongDependency(doc, task) <=> tests(task)
               /\ ~OutrunsDependency(doc, task) <=> waits(task)
    BY <1>2, TestsOfTask
  <1>3. Sound(doc) <=> /\ doc # << >> /\ ~RepeatsName(doc) /\ ~Deadlocked(doc)
                       /\ \A task \in ToSet(doc) : tests(task) /\ waits(task)
    BY <1>1, Zenon DEF Sound
  <1> HIDE DEF tests, waits
  <1>4. Structured(doc) <=> StructureAccepted(doc)
    BY DEF Structured
  <1>5. Structured(doc) => (CycleDetected(doc) <=> Deadlocked(doc))
    BY CycleIs
  <1>6. StructureAccepted(doc)
           <=> ~RepeatsName(doc) /\ \A task \in ToSet(doc) : ~WrongDependency(doc, task)
    BY DEF StructureAccepted
  <1>7. CASE ~StructureAccepted(doc)
    <2>1. ~JsAccepts(doc) /\ ~RustAccepts(doc)
      BY <1>6, <1>7, Zenon DEF JsAccepts, RustAccepts
    <2>2. ~Sound(doc)
      BY <1>2, <1>3, <1>6, <1>7, Zenon
    <2> QED
      BY <2>1, <2>2
  <1>8. CASE StructureAccepted(doc)
    <2>1. /\ ~RepeatsName(doc)
          /\ \A task \in ToSet(doc) : ~WrongDependency(doc, task) /\ tests(task)
          /\ \A task \in ToSet(doc) : ~OutrunsDependency(doc, task) <=> waits(task)
      BY <1>2, <1>6, <1>8, Zenon
    <2>2. CycleDetected(doc) <=> Deadlocked(doc)
      BY <1>4, <1>5, <1>8
    <2>3. JsAccepts(doc) <=> Sound(doc)
      BY <1>3, <2>1, <2>2, Zenon DEF JsAccepts
    <2>4. RustAccepts(doc) <=> Sound(doc)
      BY <1>3, <1>8, <2>1, <2>2, Zenon DEF RustAccepts
    <2>5. Sound(doc) => Structured(doc) /\ ~Deadlocked(doc)
      BY <1>3, <1>4, <1>8, Zenon
    <2> QED
      BY <2>3, <2>4, <2>5
  <1> QED
    BY <1>7, <1>8

-----------------------------------------------------------------------------
(* The order of the JavaScript *)

\* What places any name in any sort.
Placers == [AllNames -> [Sorts -> Sorts]]

\* A placing makes a sort of a sort.
LEMMA PlaceTyped ==
    ASSUME NEW doc, Structured(doc), NEW below \in Placers, NEW name \in AllNames,
           NEW sort \in Sorts
    PROVE  Place(doc, name, sort, below) \in Sorts
  <1>1. CASE name \in sort.visited \/ name \notin TaskNamesOf(doc)
    BY <1>1 DEF Place
  <1>2. CASE ~(name \in sort.visited \/ name \notin TaskNamesOf(doc))
    <2> DEFINE entered == [sort EXCEPT !.visited = @ \cup {name}]
               deps == Named(doc, name).deps
               left == InTurn(below, deps, entered)
    <2>1. TaskNamesOf(doc) \subseteq TaskNames /\ name \in TaskNames
      BY <1>2, DocumentNames DEF Structured
    <2>2. deps \in Seq(TaskNamesOf(doc))
      BY <1>2, StructureIs
    <2>3. deps \in Seq(AllNames)
      <3> HIDE DEF deps
      <3> QED
        BY <2>1, <2>2 DEF AllNames
    <2>4. entered \in Sorts
      BY <2>1 DEF Sorts
    <2>5. left \in Sorts
      <3> HIDE DEF entered, deps
      <3>1. below \in [AllNames -> [Sorts -> Sorts]]
        BY DEF Placers
      <3> QED
        BY <2>3, <2>4, <3>1, InTurnIs
    <2>6. Place(doc, name, sort, below) = [left EXCEPT !.ordered = Append(@, name)]
      BY <1>2 DEF Place
    <2> HIDE DEF left
    <2>7. left.ordered \in Seq(TaskNames)
      BY <2>5 DEF Sorts
    <2>8. Append(left.ordered, name) \in Seq(TaskNames)
      BY <2>1, <2>7
    <2>9. [left EXCEPT !.ordered = Append(left.ordered, name)] \in Sorts
      BY <2>5, <2>8 DEF Sorts
    <2> QED
      BY <2>6, <2>9
  <1> QED
    BY <1>1, <1>2

\* Places go on by their rule, one deeper at a time.
LEMMA PlacesIs ==
    ASSUME NEW doc, Structured(doc)
    PROVE  \E places \in [Nat -> Placers] :
              /\ Places(doc) = places[Len(doc) + 1]
              /\ \A depth \in Nat, name \in AllNames, sort \in Sorts :
                    places[depth + 1][name][sort] = Place(doc, name, sort, places[depth])
  <1> DEFINE still == [name \in AllNames |-> [sort \in Sorts |-> sort]]
             deeper(b) == [name \in AllNames |-> [sort \in Sorts |->
                              Place(doc, name, sort, b)]]
             h == [n \in Nat |-> [b \in Placers |-> deeper(b)]]
  <1>1. still \in Placers /\ \A b \in Placers : deeper(b) \in Placers
    BY PlaceTyped DEF Placers
  <1>2. h \in [Nat -> [Placers -> Placers]]
        /\ \A n \in Nat, b \in Placers : h[n][b] = deeper(b)
    <2> HIDE DEF deeper
    <2> QED
      BY <1>1
  <1>3. PICK g : Follows(g, Placers, still, h)
    <2> HIDE DEF h, still
    <2> QED
      BY <1>1, <1>2, Recursion
  <1> HIDE DEF h
  <1>4. g \in [Nat -> Placers] /\ g[0] = still
    BY <1>3 DEF Follows
  <1>5. \A n \in Nat : g[n + 1] = deeper(g[n])
    <2> HIDE DEF deeper
    <2> QED
      BY <1>2, <1>3, <1>4 DEF Follows
  <1> DEFINE rule(f, depth) ==
                 [name \in TaskNames \cup {Missing} |-> [sort \in Sorts |->
                     IF depth = 0 THEN sort ELSE Place(doc, name, sort, f[depth - 1])]]
  <1>6. ASSUME NEW f PROVE rule(f, 0) = still
    BY DEF AllNames
  <1>7. ASSUME NEW f, NEW depth \in Nat PROVE rule(f, depth + 1) = deeper(f[depth])
    <2>1. depth + 1 # 0 /\ (depth + 1) - 1 = depth
      OBVIOUS
    <2> QED
      BY <2>1 DEF AllNames
  <1> HIDE DEF still, deeper
  <1>8. \E f : f = [depth \in Nat |-> rule(f, depth)]
    <2>1. ASSUME NEW depth \in Nat PROVE g[depth] = rule(g, depth)
      <3>1. CASE depth = 0
        <4> HIDE DEF rule
        <4> QED
          BY <1>4, <1>6, <3>1
      <3>2. CASE depth # 0
        <4>1. depth - 1 \in Nat /\ (depth - 1) + 1 = depth
          BY <3>2
        <4> HIDE DEF rule
        <4>2. g[(depth - 1) + 1] = deeper(g[depth - 1])
              /\ rule(g, (depth - 1) + 1) = deeper(g[depth - 1])
          BY <1>5, <1>7, <4>1
        <4> QED
          BY <4>1, <4>2
      <3> QED
        BY <3>1, <3>2
    <2> HIDE DEF rule
    <2>2. g = [depth \in Nat |-> rule(g, depth)]
      BY <1>4, <2>1
    <2> QED
      BY <2>2
  <1> DEFINE F == CHOOSE f : f = [depth \in Nat |-> rule(f, depth)]
  <1>9. F = [depth \in Nat |-> rule(F, depth)]
    <2> HIDE DEF rule
    <2> QED
      BY <1>8
  <1>10. Places(doc) = F[Len(doc) + 1]
    BY DEF Places
  <1> HIDE DEF F, rule
  <1>11. \A depth \in Nat : F[depth] = rule(F, depth)
    BY <1>9, Zenon
  <1>12. F[0] = still /\ \A depth \in Nat : F[depth + 1] = deeper(F[depth])
    BY <1>6, <1>7, <1>11
  <1> DEFINE T == {depth \in Nat : F[depth] \in Placers}
  <1>13. Nat \subseteq T
    <2>1. 0 \in T
      BY <1>1, <1>12
    <2>2. ASSUME NEW n \in Nat, n \in T PROVE n + 1 \in T
      BY <1>1, <1>12, <2>2
    <2> HIDE DEF T
    <2> QED
      BY <2>1, <2>2, Inducted
  <1>14. F \in [Nat -> Placers]
    <2>1. \A n \in Nat : F[n] \in Placers
      BY <1>13
    <2>2. F = [n \in Nat |-> F[n]]
      BY <1>9, Zenon
    <2> QED
      BY <2>1, <2>2
  <1>15. \A depth \in Nat, name \in AllNames, sort \in Sorts :
             F[depth + 1][name][sort] = Place(doc, name, sort, F[depth])
    <2> SUFFICES ASSUME NEW depth \in Nat, NEW name \in AllNames, NEW sort \in Sorts
                 PROVE  F[depth + 1][name][sort] = Place(doc, name, sort, F[depth])
      OBVIOUS
    <2>1. F[depth + 1] = [m \in AllNames |-> [s \in Sorts |-> Place(doc, m, s, F[depth])]]
      BY <1>12 DEF deeper
    <2>2. F[depth + 1][name] = [s \in Sorts |-> Place(doc, name, s, F[depth])]
      BY <2>1
    <2> QED
      BY <2>2
  <1> QED
    BY <1>10, <1>14, <1>15

\* One more element at the end of a sequence of different ones.
LEMMA OneMoreElement ==
    ASSUME NEW X, NEW s \in Seq(X), IsInjective(s), NEW x \in X, x \notin ToSet(s)
    PROVE  /\ Append(s, x) \in Seq(X) /\ IsInjective(Append(s, x))
           /\ ToSet(Append(s, x)) = ToSet(s) \cup {x}
           /\ DOMAIN Append(s, x) = 1..(Len(s) + 1)
           /\ \A i \in DOMAIN s : Append(s, x)[i] = s[i]
           /\ Append(s, x)[Len(s) + 1] = x
  <1> DEFINE t == Append(s, x)
  <1>1. /\ t \in Seq(X) /\ Len(s) \in Nat /\ DOMAIN s = 1..Len(s)
        /\ DOMAIN t = 1..(Len(s) + 1) /\ \A i \in 1..Len(s) : t[i] = s[i]
        /\ t[Len(s) + 1] = x
    OBVIOUS
  <1> HIDE DEF t
  <1>2. ToSet(t) = ToSet(s) \cup {x}
    <2>1. \A i \in 1..(Len(s) + 1) : i \in 1..Len(s) \/ i = Len(s) + 1
      BY <1>1
    <2>2. Len(s) + 1 \in 1..(Len(s) + 1) /\ \A i \in 1..Len(s) : i \in 1..(Len(s) + 1)
      BY <1>1
    <2> QED
      BY <1>1, <2>1, <2>2 DEF ToSet
  <1>3. IsInjective(t)
    <2> SUFFICES ASSUME NEW i \in 1..(Len(s) + 1), NEW j \in 1..(Len(s) + 1), t[i] = t[j]
                 PROVE  i = j
      BY <1>1 DEF IsInjective
    <2>1. \A k \in 1..(Len(s) + 1) : k # Len(s) + 1 => k \in 1..Len(s) /\ s[k] \in ToSet(s)
      BY <1>1 DEF ToSet
    <2>2. CASE i \in 1..Len(s) /\ j \in 1..Len(s)
      BY <1>1, <2>2 DEF IsInjective
    <2>3. CASE i = Len(s) + 1
      BY <1>1, <2>1, <2>3
    <2>4. CASE j = Len(s) + 1
      BY <1>1, <2>1, <2>4
    <2> QED
      BY <2>1, <2>2, <2>3, <2>4
  <1> QED
    BY <1>1, <1>2, <1>3 DEF t

\* Everything stands behind what it depends on.
Behind(doc, order) ==
    \A i \in DOMAIN order : DepsOf(doc, order[i]) \subseteq {order[j] : j \in 1..(i - 1)}

\* What was entered and has no place yet.
PathOf(sort) == sort.visited \ ToSet(sort.ordered)

SortGood(doc, sort) ==
    /\ sort.visited \subseteq TaskNamesOf(doc) /\ ToSet(sort.ordered) \subseteq sort.visited
    /\ IsInjective(sort.ordered) /\ Behind(doc, sort.ordered)

\* A sort that went on is where it was.
SortedOn(doc, s, r) ==
    /\ r \in Sorts /\ SortGood(doc, r)
    /\ PathOf(r) = PathOf(s) /\ ToSet(s.ordered) \subseteq ToSet(r.ordered)

\* Visits that place the task.
Puts(doc, place, depth) ==
    \A name \in TaskNamesOf(doc), s \in Sorts :
        /\ SortGood(doc, s) /\ Leads(doc, PathOf(s), name)
        /\ Cardinality(TaskNamesOf(doc) \ PathOf(s)) < depth
        => SortedOn(doc, s, place[name][s]) /\ name \in ToSet(place[name][s].ordered)

\* So do visits one after the other.
LEMMA TurnsPut ==
    ASSUME NEW doc, NEW place \in Placers, NEW depth \in Nat, Puts(doc, place, depth),
           NEW elements \in Seq(TaskNamesOf(doc)), NEW s \in Sorts, SortGood(doc, s),
           TaskNamesOf(doc) \subseteq AllNames,
           \A i \in 1..Len(elements) : Leads(doc, PathOf(s), elements[i]),
           Cardinality(TaskNamesOf(doc) \ PathOf(s)) < depth
    PROVE  /\ SortedOn(doc, s, InTurn(place, elements, s))
           /\ ToSet(elements) \subseteq ToSet(InTurn(place, elements, s).ordered)
  <1> DEFINE end == InTurn(place, elements, s)
  <1>1. elements \in Seq(AllNames) /\ place \in [AllNames -> [Sorts -> Sorts]]
        /\ Len(elements) \in Nat /\ \A i \in 1..Len(elements) : elements[i] \in TaskNamesOf(doc)
    BY DEF Placers
  <1>2. PICK after : Turns(after, Sorts, place, elements, s, end)
    <2> HIDE DEF end
    <2>1. \E after : Turns(after, Sorts, place, elements, s, InTurn(place, elements, s))
      BY <1>1, InTurnIs
    <2> QED
      BY <2>1 DEF end
  <1> HIDE DEF end
  <1>3. /\ after \in [0..Len(elements) -> Sorts] /\ after[0] = s /\ after[Len(elements)] = end
        /\ \A i \in 1..Len(elements) : after[i] = place[elements[i]][after[i - 1]]
    BY <1>2 DEF Turns
  <1> DEFINE holds(i) == /\ SortedOn(doc, s, after[i])
                         /\ \A j \in 1..i : elements[j] \in ToSet(after[i].ordered)
             T == {i \in Nat : i <= Len(elements) => holds(i)}
  <1>4. Nat \subseteq T
    <2>1. 0 \in T
      BY <1>3 DEF SortedOn
    <2>2. ASSUME NEW i \in Nat, i \in T PROVE i + 1 \in T
      <3> SUFFICES ASSUME i + 1 <= Len(elements) PROVE holds(i + 1)
        OBVIOUS
      <3>1. i + 1 \in 1..Len(elements) /\ (i + 1) - 1 = i /\ i \in 0..Len(elements)
        BY <1>1
      <3>2. holds(i) /\ after[i] \in Sorts
        BY <1>3, <2>2, <3>1
      <3>3. after[i + 1] = place[elements[i + 1]][after[i]] /\ elements[i + 1] \in TaskNamesOf(doc)
        BY <1>1, <1>3, <3>1
      <3>4. PathOf(after[i]) = PathOf(s) /\ SortGood(doc, after[i])
        BY <3>2 DEF SortedOn
      <3>5. Leads(doc, PathOf(after[i]), elements[i + 1])
            /\ Cardinality(TaskNamesOf(doc) \ PathOf(after[i])) < depth
        BY <3>1, <3>4
      <3>6. /\ SortedOn(doc, after[i], after[i + 1])
            /\ elements[i + 1] \in ToSet(after[i + 1].ordered)
        BY <3>2, <3>3, <3>4, <3>5 DEF Puts
      <3>7. SortedOn(doc, s, after[i + 1])
        BY <3>2, <3>6 DEF SortedOn
      <3>8. ASSUME NEW j \in 1..(i + 1) PROVE elements[j] \in ToSet(after[i + 1].ordered)
        <4>1. CASE j = i + 1
          BY <3>6, <4>1
        <4>2. CASE j # i + 1
          <5>1. j \in 1..i
            BY <4>2
          <5>2. ToSet(after[i].ordered) \subseteq ToSet(after[i + 1].ordered)
            BY <3>6 DEF SortedOn
          <5> QED
            BY <3>2, <5>1, <5>2
        <4> QED
          BY <4>1, <4>2
      <3> QED
        BY <3>7, <3>8
    <2> HIDE DEF T
    <2> QED
      BY <2>1, <2>2, Inducted
  <1>5. holds(Len(elements))
    <2>1. Len(elements) \in T
      BY <1>1, <1>4
    <2> QED
      BY <1>1, <2>1
  <1>6. SortedOn(doc, s, end) /\ ToSet(elements) \subseteq ToSet(end.ordered)
    <2>1. \A j \in 1..Len(elements) : elements[j] \in ToSet(end.ordered)
      BY <1>3, <1>5
    <2>2. ToSet(elements) = {elements[j] : j \in 1..Len(elements)}
      BY <1>1 DEF ToSet
    <2> QED
      BY <1>3, <1>5, <2>1, <2>2
  <1> QED
    BY <1>6 DEF end

\* A visit places a task behind what visits below it place.
LEMMA PlacePuts ==
    ASSUME NEW doc, Structured(doc), ~Deadlocked(doc), NEW depth \in Nat, NEW below \in Placers,
           Puts(doc, below, depth),
           NEW name \in TaskNamesOf(doc), NEW s \in Sorts, SortGood(doc, s),
           Leads(doc, PathOf(s), name), Cardinality(TaskNamesOf(doc) \ PathOf(s)) < depth + 1
    PROVE  /\ SortedOn(doc, s, Place(doc, name, s, below))
           /\ name \in ToSet(Place(doc, name, s, below).ordered)
  <1> DEFINE N == TaskNamesOf(doc)
             r == Place(doc, name, s, below)
  <1>1. /\ N \subseteq TaskNames /\ IsFiniteSet(N) /\ N \subseteq AllNames
        /\ name \in AllNames
    BY DocumentNames DEF Structured, AllNames
  <1>2. r \in Sorts
    BY <1>1, PlaceTyped
  <1>3. /\ s.visited \in SUBSET N /\ ToSet(s.ordered) \subseteq s.visited
        /\ PathOf(s) \in SUBSET N /\ name \notin PathOf(s)
    <2>1. PathOf(s) \in SUBSET N
      BY DEF SortGood, PathOf
    <2>2. name \notin PathOf(s)
      BY <2>1, PathCloses
    <2> QED
      BY <2>1, <2>2 DEF SortGood
  <1>4. CASE name \in s.visited
    <2>1. r = s
      BY <1>4 DEF Place
    <2>2. name \in ToSet(s.ordered)
      BY <1>3, <1>4 DEF PathOf
    <2> HIDE DEF r
    <2> QED
      BY <2>1, <2>2 DEF SortedOn, r
  <1>5. CASE name \notin s.visited
    <2> DEFINE entered == [s EXCEPT !.visited = @ \cup {name}]
               deps    == Named(doc, name).deps
               left    == InTurn(below, deps, entered)
    <2>1. r = [left EXCEPT !.ordered = Append(@, name)]
      BY <1>5 DEF Place
    <2>2. /\ entered \in Sorts /\ entered.visited = s.visited \cup {name}
          /\ entered.ordered = s.ordered
      BY <1>1 DEF Sorts
    <2>3. deps \in Seq(N) /\ DepsOf(doc, name) \subseteq N \ {name}
      BY StructureIs
    <2>4. DepsOf(doc, name) = ToSet(deps)
      BY DEF DepsOf
    <2> HIDE DEF entered, deps, r
    <2>5. SortGood(doc, entered) /\ PathOf(entered) = PathOf(s) \cup {name}
      <3>1. SortGood(doc, entered)
        BY <1>3, <2>2 DEF SortGood
      <3>2. PathOf(entered) = PathOf(s) \cup {name}
        BY <1>3, <1>5, <2>2 DEF PathOf
      <3> QED
        BY <3>1, <3>2
    <2>6. Cardinality(N \ PathOf(entered)) < depth
      <3>1. /\ Cardinality(N \ PathOf(s)) \in Nat
            /\ Cardinality(N \ (PathOf(s) \cup {name})) = Cardinality(N \ PathOf(s)) - 1
        <4> HIDE DEF N
        <4> QED
          BY <1>1, <1>3, <1>5, OneLessLeft DEF N
      <3> QED
        BY <2>5, <3>1
    <2>7. \A i \in 1..Len(deps) : Leads(doc, PathOf(entered), deps[i])
      <3> SUFFICES ASSUME NEW i \in 1..Len(deps) PROVE Leads(doc, PathOf(entered), deps[i])
        OBVIOUS
      <3>1. deps[i] \in DepsOf(doc, name)
        BY <2>3, <2>4 DEF ToSet
      <3> QED
        BY <2>5, <3>1, PathGoesOn
    <2>8. SortedOn(doc, entered, left) /\ ToSet(deps) \subseteq ToSet(left.ordered)
      BY <1>1, <2>2, <2>3, <2>5, <2>6, <2>7, TurnsPut
    <2> HIDE DEF left
    <2>9. /\ left \in Sorts /\ PathOf(left) = PathOf(s) \cup {name}
          /\ ToSet(s.ordered) \subseteq ToSet(left.ordered)
          /\ left.visited \subseteq N /\ ToSet(left.ordered) \subseteq left.visited
          /\ IsInjective(left.ordered) /\ Behind(doc, left.ordered)
      BY <2>2, <2>5, <2>8 DEF SortedOn, SortGood
    <2>10. name \in left.visited /\ name \notin ToSet(left.ordered)
      BY <2>9 DEF PathOf
    <2> DEFINE L == left.ordered
    <2>11. L \in Seq(TaskNames) /\ r.visited = left.visited /\ r.ordered = Append(L, name)
      BY <2>1, <2>9 DEF Sorts
    <2>12. IsInjective(L) /\ Behind(doc, L) /\ name \notin ToSet(L) /\ name \in TaskNames
      BY <1>1, <2>9, <2>10
    <2> HIDE DEF L
    <2>13. /\ IsInjective(Append(L, name)) /\ ToSet(Append(L, name)) = ToSet(L) \cup {name}
           /\ DOMAIN Append(L, name) = 1..(Len(L) + 1)
           /\ \A i \in DOMAIN L : Append(L, name)[i] = L[i]
           /\ Append(L, name)[Len(L) + 1] = name
      BY <2>11, <2>12, OneMoreElement
    <2>14. Behind(doc, Append(L, name))
      <3> DEFINE M == Append(L, name)
      <3>1. Len(L) \in Nat /\ DOMAIN L = 1..Len(L)
        BY <2>11
      <3> SUFFICES ASSUME NEW i \in 1..(Len(L) + 1)
                   PROVE  DepsOf(doc, M[i]) \subseteq {M[j] : j \in 1..(i - 1)}
        BY <2>13 DEF Behind
      <3> HIDE DEF M
      <3>2. M[Len(L) + 1] = name /\ \A j \in 1..Len(L) : M[j] = L[j]
        BY <2>13, <3>1 DEF M
      <3>3. CASE i = Len(L) + 1
        <4>1. 1..(i - 1) = 1..Len(L)
          BY <3>1, <3>3
        <4>2. DepsOf(doc, name) \subseteq {L[j] : j \in 1..Len(L)}
          BY <2>4, <2>8, <3>1 DEF ToSet, L
        <4> QED
          BY <3>2, <3>3, <4>1, <4>2
      <3>4. CASE i # Len(L) + 1
        <4>1. i \in 1..Len(L) /\ \A j \in 1..(i - 1) : j \in 1..Len(L)
          BY <3>1, <3>4
        <4>2. DepsOf(doc, L[i]) \subseteq {L[j] : j \in 1..(i - 1)}
          BY <2>12, <3>1, <4>1 DEF Behind
        <4> QED
          BY <3>2, <4>1, <4>2
      <3> QED
        BY <3>3, <3>4
    <2>15. SortGood(doc, r)
      <3>1. r.visited \subseteq N /\ ToSet(r.ordered) \subseteq r.visited
        BY <2>9, <2>10, <2>11, <2>13 DEF L
      <3> QED
        BY <2>11, <2>13, <2>14, <3>1 DEF SortGood
    <2>16. PathOf(r) = PathOf(s)
      <3>1. PathOf(r) = PathOf(left) \ {name}
        BY <2>11, <2>13 DEF PathOf, L
      <3> QED
        BY <1>3, <2>9, <3>1
    <2>17. ToSet(s.ordered) \subseteq ToSet(r.ordered) /\ name \in ToSet(r.ordered)
      BY <2>9, <2>11, <2>13 DEF L
    <2> QED
      BY <1>2, <2>15, <2>16, <2>17 DEF SortedOn, r
  <1> QED
    BY <1>4, <1>5

\* Placings as deep as there are names, and one more, place every task.
LEMMA PlacesPut ==
    ASSUME NEW doc, Structured(doc), ~Deadlocked(doc)
    PROVE  Places(doc) \in Placers /\ Puts(doc, Places(doc), Len(doc) + 1)
  <1>1. PICK places \in [Nat -> Placers] :
           /\ Places(doc) = places[Len(doc) + 1]
           /\ \A depth \in Nat, name \in AllNames, sort \in Sorts :
                 places[depth + 1][name][sort] = Place(doc, name, sort, places[depth])
    BY PlacesIs
  <1>2. /\ TaskNamesOf(doc) \subseteq AllNames /\ IsFiniteSet(TaskNamesOf(doc))
        /\ Len(doc) \in Nat
    BY DocumentNames DEF Structured, AllNames, GraphDocuments
  <1> DEFINE T == {depth \in Nat : Puts(doc, places[depth], depth)}
  <1>3. Nat \subseteq T
    <2>1. 0 \in T
      <3>1. ASSUME NEW s \in Sorts PROVE ~(Cardinality(TaskNamesOf(doc) \ PathOf(s)) < 0)
        <4>1. IsFiniteSet(TaskNamesOf(doc) \ PathOf(s))
          BY <1>2, FS_Difference
        <4>2. Cardinality(TaskNamesOf(doc) \ PathOf(s)) \in Nat
          BY <4>1, FS_CardinalityType
        <4> QED
          BY <4>2
      <3> QED
        BY <3>1 DEF Puts
    <2>2. ASSUME NEW n \in Nat, n \in T PROVE n + 1 \in T
      <3>1. Puts(doc, places[n], n) /\ places[n] \in Placers
        BY <1>1, <2>2
      <3>2. ASSUME NEW name \in TaskNamesOf(doc), NEW s \in Sorts, SortGood(doc, s),
                   Leads(doc, PathOf(s), name),
                   Cardinality(TaskNamesOf(doc) \ PathOf(s)) < n + 1
            PROVE  /\ SortedOn(doc, s, places[n + 1][name][s])
                   /\ name \in ToSet(places[n + 1][name][s].ordered)
        <4>1. places[n + 1][name][s] = Place(doc, name, s, places[n])
          BY <1>1, <1>2
        <4>2. /\ SortedOn(doc, s, Place(doc, name, s, places[n]))
              /\ name \in ToSet(Place(doc, name, s, places[n]).ordered)
          BY <3>1, <3>2, PlacePuts
        <4> QED
          BY <4>1, <4>2
      <3>3. Puts(doc, places[n + 1], n + 1)
        BY <3>2, Zenon DEF Puts
      <3> QED
        BY <3>3
    <2> HIDE DEF T
    <2> QED
      BY <2>1, <2>2, Inducted
  <1>4. Len(doc) + 1 \in Nat
    BY <1>2
  <1>5. Puts(doc, places[Len(doc) + 1], Len(doc) + 1) /\ places[Len(doc) + 1] \in Placers
    BY <1>1, <1>3, <1>4
  <1> QED
    BY <1>1, <1>5

\* An order with everything behind what it depends on is one that fits.
LEMMA BehindFits ==
    ASSUME NEW doc, NEW order \in Seq(TaskNames), ToSet(order) = TaskNamesOf(doc),
           IsInjective(order), Behind(doc, order)
    PROVE  Fits(doc, order)
  <1>1. Len(order) \in Nat /\ DOMAIN order = 1..Len(order)
    OBVIOUS
  <1>2. ASSUME NEW i \in 1..Len(order), NEW j \in 1..Len(order),
               order[j] \in DepsOf(doc, order[i])
        PROVE  j < i
    <2>1. PICK k \in 1..(i - 1) : order[j] = order[k]
      BY <1>1, <1>2 DEF Behind
    <2>2. k \in 1..Len(order) /\ k < i
      BY <1>1
    <2>3. j = k
      BY <1>1, <2>1, <2>2 DEF IsInjective
    <2> QED
      BY <2>2, <2>3
  <1> QED
    BY <1>1, <1>2, Zenon DEF Fits, DepsOf

\* The JavaScript's order fits.
LEMMA JsOrderFits ==
    ASSUME NEW doc, Structured(doc), ~Deadlocked(doc)
    PROVE  Fits(doc, JsOrder(doc))
  <1> DEFINE s == [visited |-> {}, ordered |-> << >>]
             N == TaskNamesOf(doc)
             names == NamesListed(doc)
             end == InTurn(Places(doc), names, s)
  <1>1. /\ names \in Seq(TaskNames) /\ ToSet(names) = N /\ N \subseteq TaskNames
        /\ IsFiniteSet(N) /\ Cardinality(N) \in Nat /\ Cardinality(N) <= Len(doc)
    BY DocumentNames DEF Structured
  <1>2. Len(doc) \in Nat
    BY DEF Structured, GraphDocuments
  <1> HIDE DEF names
  <1>3. names \in Seq(N) /\ N \subseteq AllNames
    <2>1. \A i \in 1..Len(names) : names[i] \in N
      BY <1>1 DEF ToSet
    <2> HIDE DEF N
    <2> QED
      BY <1>1, <2>1 DEF AllNames
  <1>4. s \in Sorts /\ s.visited = {} /\ s.ordered = << >>
    <2>1. << >> \in Seq(TaskNames)
      OBVIOUS
    <2> QED
      BY <2>1 DEF Sorts
  <1> HIDE DEF s
  <1>5. SortGood(doc, s) /\ PathOf(s) = {}
    <2>1. ToSet(<< >>) = {} /\ IsInjective(<< >>) /\ Behind(doc, << >>)
      <3>1. DOMAIN << >> = {}
        OBVIOUS
      <3> QED
        BY <3>1 DEF ToSet, IsInjective, Behind
    <2> QED
      BY <1>4, <2>1 DEF SortGood, PathOf
  <1>6. \A i \in 1..Len(names) : Leads(doc, PathOf(s), names[i])
    BY <1>5 DEF Leads
  <1>7. Cardinality(N \ PathOf(s)) < Len(doc) + 1
    <2>1. N \ PathOf(s) = N
      BY <1>5
    <2>2. Cardinality(N) \in Nat /\ Cardinality(N) <= Len(doc)
      BY <1>1
    <2>3. \A c, n \in Nat : c <= n => c < n + 1
      OBVIOUS
    <2>4. Cardinality(N) < Len(doc) + 1
      BY <1>2, <2>2, <2>3
    <2> QED
      BY <2>1, <2>4, Zenon
  <1>8. Places(doc) \in Placers /\ Puts(doc, Places(doc), Len(doc) + 1)
    BY PlacesPut
  <1>9. SortedOn(doc, s, end) /\ ToSet(names) \subseteq ToSet(end.ordered)
    <2>1. Len(doc) + 1 \in Nat
      BY <1>2
    <2> QED
      BY <1>3, <1>4, <1>5, <1>6, <1>7, <1>8, <2>1, TurnsPut
  <1>10. JsOrder(doc) = end.ordered
    BY DEF JsOrder, s, names
  <1> HIDE DEF end
  <1>11. /\ end.ordered \in Seq(TaskNames) /\ ToSet(end.ordered) = N
         /\ IsInjective(end.ordered) /\ Behind(doc, end.ordered)
    <2>1. end \in Sorts /\ SortGood(doc, end)
      BY <1>9 DEF SortedOn
    <2>2. end.ordered \in Seq(TaskNames)
      BY <2>1 DEF Sorts
    <2>3. ToSet(end.ordered) = N
      BY <1>1, <1>9, <2>1 DEF SortGood
    <2> QED
      BY <2>1, <2>2, <2>3 DEF SortGood
  <1> QED
    BY <1>10, <1>11, BehindFits

-----------------------------------------------------------------------------
(* The layers of the Rust mirror *)

\* A sequence that goes up.
Rises(s, n) == \A i, j \in 1..n : i < j => s[i] < s[j]

\* Every finite set of names can be listed by name.
LEMMA ListedUp ==
    ASSUME NEW names \in SUBSET Nat, IsFiniteSet(names)
    PROVE  \E s \in [1..Cardinality(names) -> names] : Rises(s, Cardinality(names))
  <1> DEFINE listed(S, n) == \E s \in [1..n -> S] : Rises(s, n)
             T == {n \in Nat : \A S \in SUBSET names : Cardinality(S) = n => listed(S, n)}
  <1>1. Nat \subseteq T
    <2>1. 0 \in T
      <3>1. ASSUME NEW S \in SUBSET names PROVE listed(S, 0)
        <4>1. << >> \in [1..0 -> S] /\ Rises(<< >>, 0)
          BY DEF Rises
        <4> QED
          BY <4>1
      <3> HIDE DEF listed
      <3> QED
        BY <3>1
    <2>2. ASSUME NEW n \in Nat, n \in T, NEW S \in SUBSET names, Cardinality(S) = n + 1
          PROVE  listed(S, n + 1)
      <3>1. IsFiniteSet(S) /\ S \subseteq Nat
        BY FS_Subset
      <3>2. S # {}
        BY <2>2, FS_EmptySet
      <3>3. PICK x \in S : \A y \in S : x <= y
        BY <3>1, <3>2, FirstOf
      <3> DEFINE R == S \ {x}
      <3>4. R \in SUBSET names /\ Cardinality(R) = n
        <4>1. Cardinality(S \ {x}) = Cardinality(S) - 1
          BY <3>1, <3>3, FS_RemoveElement
        <4> QED
          BY <2>2, <4>1
      <3>5. \A y \in R : y \in S /\ x < y
        BY <3>1, <3>3
      <3> HIDE DEF R
      <3>6. listed(R, n)
        <4> HIDE DEF listed
        <4> QED
          BY <2>2, <3>4
      <3>7. PICK s \in [1..n -> R] : Rises(s, n)
        BY <3>6
      <3> DEFINE t == [i \in 1..(n + 1) |-> IF i = 1 THEN x ELSE s[i - 1]]
      <3>8. \A i \in 1..(n + 1) : i # 1 => i - 1 \in 1..n /\ s[i - 1] \in R
        <4>1. \A i \in 1..(n + 1) : i # 1 => i - 1 \in 1..n
          OBVIOUS
        <4> QED
          BY <3>7, <4>1
      <3>9. t \in [1..(n + 1) -> S]
        BY <3>5, <3>8
      <3>10. t[1] = x /\ \A i \in 1..(n + 1) : i # 1 => t[i] = s[i - 1]
        OBVIOUS
      <3> HIDE DEF t
      <3>11. ASSUME NEW i \in 1..(n + 1), NEW j \in 1..(n + 1), i < j PROVE t[i] < t[j]
        <4>1. j # 1 /\ j - 1 \in 1..n /\ t[j] = s[j - 1]
          BY <3>8, <3>10, <3>11
        <4>2. CASE i = 1
          BY <3>5, <3>8, <3>10, <4>1, <4>2
        <4>3. CASE i # 1
          <5>1. i - 1 \in 1..n /\ t[i] = s[i - 1] /\ i - 1 < j - 1
            BY <3>8, <3>10, <3>11, <4>3
          <5> QED
            BY <3>7, <4>1, <5>1 DEF Rises
        <4> QED
          BY <4>2, <4>3
      <3>12. Rises(t, n + 1)
        BY <3>11, Zenon DEF Rises
      <3> QED
        BY <3>9, <3>12
    <2>3. ASSUME NEW n \in Nat, n \in T PROVE n + 1 \in T
      <3> HIDE DEF listed
      <3> QED
        BY <2>2, <2>3
    <2> HIDE DEF T
    <2> QED
      BY <2>1, <2>3, Inducted
  <1>2. Cardinality(names) \in Nat
    BY FS_CardinalityType
  <1>3. listed(names, Cardinality(names))
    <2> HIDE DEF listed
    <2> QED
      BY <1>1, <1>2
  <1> QED
    BY <1>3

\* It then has each name once.
LEMMA ByNameIs ==
    ASSUME NEW names \in SUBSET Nat, IsFiniteSet(names)
    PROVE  /\ ByName(names) \in Seq(names) /\ IsInjective(ByName(names))
           /\ ToSet(ByName(names)) = names
  <1> DEFINE n == Cardinality(names)
             b == ByName(names)
  <1>1. n \in Nat
    BY FS_CardinalityType
  <1>2. b \in [1..n -> names] /\ \A i, j \in 1..n : i < j => b[i] < b[j]
    <2>1. \E s \in [1..n -> names] : \A i, j \in 1..n : i < j => s[i] < s[j]
      BY ListedUp, Zenon DEF Rises
    <2> QED
      BY <2>1, Zenon DEF ByName
  <1> HIDE DEF b
  <1>3. ASSUME NEW i \in 1..n, NEW j \in 1..n, b[i] = b[j] PROVE i = j
    <2>1. b[i] \in Nat
      BY <1>2
    <2>2. ~(b[i] < b[i])
      BY <2>1
    <2>3. ~(b[i] < b[j]) /\ ~(b[j] < b[i])
      BY <1>3, <2>2, Zenon
    <2>4. ~(i < j) /\ ~(j < i)
      BY <1>2, <2>3, Zenon
    <2> HIDE DEF n
    <2> QED
      BY <1>1, <2>4
  <1>4. DOMAIN b = 1..n
    BY <1>2
  <1>5. b \in Injection(1..n, names)
    BY <1>2, <1>3, Zenon DEF Injection, IsInjective
  <1>6. Cardinality(1..n) = n
    <2> HIDE DEF n
    <2> QED
      BY <1>1, FS_Interval
  <1>7. b \in Surjection(1..n, names)
    BY <1>5, <1>6, FS_Injection
  <1>8. ToSet(b) = names
    BY <1>2, <1>4, <1>7 DEF Surjection, ToSet
  <1>9. b \in Seq(names)
    <2> HIDE DEF n
    <2> QED
      BY <1>1, <1>2
  <1> QED
    BY <1>3, <1>4, <1>8, <1>9 DEF b, IsInjective

\* What is listed after a list of others.
LEMMA MoreElements ==
    ASSUME NEW X, NEW s \in Seq(X), NEW t \in Seq(X), IsInjective(s), IsInjective(t),
           ToSet(s) \cap ToSet(t) = {}
    PROVE  /\ s \o t \in Seq(X) /\ IsInjective(s \o t)
           /\ ToSet(s \o t) = ToSet(s) \cup ToSet(t)
           /\ Len(s \o t) = Len(s) + Len(t)
           /\ \A i \in 1..Len(s) : (s \o t)[i] = s[i]
           /\ \A i \in 1..Len(t) : (s \o t)[Len(s) + i] = t[i]
  <1> DEFINE u == s \o t
             m == Len(s)
             n == Len(t)
  <1>1. /\ m \in Nat /\ n \in Nat /\ DOMAIN s = 1..m /\ DOMAIN t = 1..n
        /\ u \in Seq(X) /\ Len(u) = m + n /\ DOMAIN u = 1..(m + n)
        /\ \A i \in 1..m : u[i] = s[i]
    OBVIOUS
  <1>2. \A i \in 1..(m + n) : i \notin 1..m => i - m \in 1..n /\ u[i] = t[i - m]
    OBVIOUS
  <1>3. \A i \in 1..n : m + i \in 1..(m + n) /\ m + i \notin 1..m /\ (m + i) - m = i
    OBVIOUS
  <1>4. \A i \in 1..m : i \in 1..(m + n)
    OBVIOUS
  <1> HIDE DEF u, m, n
  <1>5. \A i \in 1..n : u[m + i] = t[i]
    BY <1>2, <1>3
  <1>6. ToSet(u) = ToSet(s) \cup ToSet(t)
    <2>1. ToSet(u) = {u[i] : i \in 1..(m + n)} /\ ToSet(s) = {s[i] : i \in 1..m}
          /\ ToSet(t) = {t[i] : i \in 1..n}
      BY <1>1 DEF ToSet
    <2>2. ToSet(u) \subseteq ToSet(s) \cup ToSet(t)
      BY <1>1, <1>2, <2>1
    <2>3. ToSet(s) \subseteq ToSet(u)
      BY <1>1, <1>4, <2>1
    <2>4. ToSet(t) \subseteq ToSet(u)
      BY <1>3, <1>5, <2>1
    <2> QED
      BY <2>2, <2>3, <2>4
  <1>7. ASSUME NEW i \in 1..(m + n), NEW j \in 1..(m + n), u[i] = u[j] PROVE i = j
    <2>1. CASE i \in 1..m /\ j \in 1..m
      BY <1>1, <1>7, <2>1 DEF IsInjective
    <2>2. CASE i \notin 1..m /\ j \notin 1..m
      <3>1. i - m \in 1..n /\ j - m \in 1..n /\ t[i - m] = t[j - m]
        BY <1>2, <1>7, <2>2
      <3>2. i - m = j - m
        BY <1>1, <3>1 DEF IsInjective
      <3> QED
        BY <1>1, <3>2
    <2>3. CASE i \in 1..m /\ j \notin 1..m
      <3>1. s[i] \in ToSet(s) /\ t[j - m] \in ToSet(t)
        BY <1>1, <1>2, <2>3 DEF ToSet
      <3> QED
        BY <1>1, <1>2, <1>7, <2>3, <3>1
    <2>4. CASE i \notin 1..m /\ j \in 1..m
      <3>1. s[j] \in ToSet(s) /\ t[i - m] \in ToSet(t)
        BY <1>1, <1>2, <2>4 DEF ToSet
      <3> QED
        BY <1>1, <1>2, <1>7, <2>4, <3>1
    <2> QED
      BY <2>1, <2>2, <2>3, <2>4
  <1> QED
    BY <1>1, <1>5, <1>6, <1>7 DEF u, m, n, IsInjective

\* The plans of a document.
PlansOf(doc) ==
    [waits : [TaskNamesOf(doc) -> Int], ready : SUBSET TaskNamesOf(doc),
     order : Seq(TaskNamesOf(doc)), layers : Seq(SUBSET TaskNamesOf(doc))]

\* Cardinalities of what tasks wait for.
LEMMA WaitsTyped ==
    ASSUME NEW doc, Structured(doc), NEW name \in TaskNamesOf(doc), NEW some
    PROVE  /\ IsFiniteSet(DepsOf(doc, name) \cap some)
           /\ Cardinality(DepsOf(doc, name) \cap some) \in Nat
           /\ Cardinality(DepsOf(doc, name)) \in Nat
  <1>1. IsFiniteSet(DepsOf(doc, name))
    BY StructureIs
  <1>2. IsFiniteSet(DepsOf(doc, name) \cap some)
    BY <1>1, FS_Subset
  <1> QED
    BY <1>1, <1>2, FS_CardinalityType

\* The parts of the first plan and of the next.
LEMMA FirstPlanIs ==
    ASSUME NEW doc, Structured(doc)
    PROVE  /\ FirstPlan(doc) \in PlansOf(doc)
           /\ \A name \in TaskNamesOf(doc) :
                 FirstPlan(doc).waits[name] = Cardinality(DepsOf(doc, name))
           /\ FirstPlan(doc).ready
                 = {name \in TaskNamesOf(doc) : Cardinality(DepsOf(doc, name)) = 0}
           /\ FirstPlan(doc).order = << >> /\ FirstPlan(doc).layers = << >>
  <1> DEFINE N == TaskNamesOf(doc)
             w == [name \in N |-> Cardinality(DepsOf(doc, name))]
             p == [waits |-> w, ready |-> {name \in N : w[name] = 0},
                   order |-> << >>, layers |-> << >>]
  <1>1. FirstPlan(doc) = p
    BY Zenon DEF FirstPlan, DepsOf
  <1>2. \A name \in N : Cardinality(DepsOf(doc, name)) \in Int
    BY WaitsTyped
  <1>3. w \in [N -> Int] /\ \A name \in N : w[name] = Cardinality(DepsOf(doc, name))
    BY <1>2
  <1> HIDE DEF w
  <1>4. << >> \in Seq(N) /\ << >> \in Seq(SUBSET N) /\ {name \in N : w[name] = 0} \in SUBSET N
    OBVIOUS
  <1>5. p \in PlansOf(doc)
    BY <1>3, <1>4, Zenon DEF PlansOf
  <1>6. {name \in N : w[name] = 0} = {name \in N : Cardinality(DepsOf(doc, name)) = 0}
    BY <1>3
  <1>7. /\ p.waits = w /\ p.ready = {name \in N : w[name] = 0}
        /\ p.order = << >> /\ p.layers = << >>
    OBVIOUS
  <1> HIDE DEF p
  <1> QED
    BY <1>1, <1>3, <1>5, <1>6, <1>7, Zenon

LEMMA NextPlanIs ==
    ASSUME NEW doc, Structured(doc), GraphAssumption, NEW p \in PlansOf(doc), p.ready # {}
    PROVE  /\ NextPlan(doc, p) \in PlansOf(doc)
           /\ \A name \in TaskNamesOf(doc) :
                 NextPlan(doc, p).waits[name]
                    = p.waits[name] - Cardinality(DepsOf(doc, name) \cap p.ready)
           /\ NextPlan(doc, p).ready
                 = {name \in TaskNamesOf(doc) :
                       NextPlan(doc, p).waits[name] = 0 /\ p.waits[name] > 0}
           /\ NextPlan(doc, p).order = p.order \o ByName(p.ready)
           /\ NextPlan(doc, p).layers = Append(p.layers, p.ready)
           /\ ByName(p.ready) \in Seq(TaskNamesOf(doc)) /\ IsInjective(ByName(p.ready))
           /\ ToSet(ByName(p.ready)) = p.ready
  <1> DEFINE N == TaskNamesOf(doc)
             w == [name \in N |-> p.waits[name] - Cardinality(DepsOf(doc, name) \cap p.ready)]
             r == {name \in N : w[name] = 0 /\ p.waits[name] > 0}
             b == ByName(p.ready)
             o == p.order \o b
             l == Append(p.layers, p.ready)
             q == [waits |-> w, ready |-> r, order |-> o, layers |-> l]
  <1>1. NextPlan(doc, p) = q
    BY Zenon DEF NextPlan, DepsOf
  <1>2. /\ p.waits \in [N -> Int] /\ p.ready \in SUBSET N /\ p.order \in Seq(N)
        /\ p.layers \in Seq(SUBSET N)
    BY DEF PlansOf
  <1>3. \A name \in N : p.waits[name] - Cardinality(DepsOf(doc, name) \cap p.ready) \in Int
    <2>1. \A name \in N : Cardinality(DepsOf(doc, name) \cap p.ready) \in Nat
      BY WaitsTyped
    <2>2. \A name \in N : p.waits[name] \in Int
      BY <1>2
    <2>3. \A m \in Int, n \in Nat : m - n \in Int
      OBVIOUS
    <2> QED
      BY <2>1, <2>2, <2>3, Zenon
  <1>4. /\ w \in [N -> Int]
        /\ \A name \in N : w[name] = p.waits[name] - Cardinality(DepsOf(doc, name) \cap p.ready)
    BY <1>3
  <1>5. p.ready \in SUBSET Nat /\ IsFiniteSet(p.ready)
    <2>1. IsFiniteSet(N) /\ N \subseteq TaskNames
      BY DocumentNames DEF Structured
    <2>2. IsFiniteSet(p.ready)
      BY <1>2, <2>1, FS_Subset
    <2> QED
      BY <1>2, <2>1, <2>2 DEF GraphAssumption
  <1>6. b \in Seq(p.ready) /\ IsInjective(b) /\ ToSet(b) = p.ready
    BY <1>5, ByNameIs
  <1> HIDE DEF b
  <1>7. b \in Seq(N)
    <2> DEFINE R == p.ready
    <2>1. R \subseteq N /\ b \in Seq(R)
      BY <1>2, <1>6
    <2> HIDE DEF N, R
    <2> QED
      BY <2>1
  <1>8. o \in Seq(N)
    <2> DEFINE s == p.order
    <2>1. s \in Seq(N)
      BY <1>2
    <2> HIDE DEF N, s
    <2>2. s \o b \in Seq(N)
      BY <1>7, <2>1
    <2> QED
      BY <2>2 DEF s
  <1>9. l \in Seq(SUBSET N)
    <2> DEFINE s == p.layers
               R == p.ready
    <2>1. s \in Seq(SUBSET N) /\ R \in SUBSET N
      BY <1>2
    <2> HIDE DEF N, s, R
    <2>2. Append(s, R) \in Seq(SUBSET N)
      BY <2>1
    <2> QED
      BY <2>2 DEF s, R
  <1>10. r \in SUBSET N
    OBVIOUS
  <1> HIDE DEF w, r, o, l
  <1>11. q \in PlansOf(doc)
    BY <1>4, <1>8, <1>9, <1>10, Zenon DEF PlansOf
  <1>12. q.waits = w /\ q.ready = r /\ q.order = o /\ q.layers = l
    OBVIOUS
  <1> HIDE DEF q
  <1>13. \A name \in N : q.waits[name] = p.waits[name] - Cardinality(DepsOf(doc, name) \cap p.ready)
    BY <1>4, <1>12, Zenon
  <1>14. q.ready = {name \in N : q.waits[name] = 0 /\ p.waits[name] > 0}
    BY <1>12 DEF r
  <1>15. q.order = p.order \o ByName(p.ready) /\ q.layers = Append(p.layers, p.ready)
    BY <1>12, Zenon DEF o, l, b
  <1> QED
    BY <1>1, <1>6, <1>7, <1>11, <1>13, <1>14, <1>15, Zenon DEF b

\* Plans go on by their rule.
LEMMA PlansIs ==
    ASSUME NEW doc, Structured(doc), GraphAssumption
    PROVE  \E plan \in [Nat -> PlansOf(doc)] :
              /\ RustPlan(doc) = plan[Len(doc)] /\ plan[0] = FirstPlan(doc)
              /\ \A n \in Nat : plan[n + 1] = NextPlan(doc, plan[n])
  <1> DEFINE P == PlansOf(doc)
             a == FirstPlan(doc)
             h == [n \in Nat |-> [p \in P |-> NextPlan(doc, p)]]
             rule(f, n) == IF n = 0 THEN FirstPlan(doc) ELSE NextPlan(doc, f[n - 1])
  <1>1. a \in P
    BY FirstPlanIs
  <1>2. ASSUME NEW p \in P PROVE NextPlan(doc, p) \in P
    <2>1. CASE p.ready = {}
      <3>1. NextPlan(doc, p) = p
        BY <2>1, Zenon DEF NextPlan
      <3> QED
        BY <3>1
    <2>2. CASE p.ready # {}
      BY <2>2, NextPlanIs
    <2> QED
      BY <2>1, <2>2
  <1> HIDE DEF P, a
  <1>3. h \in [Nat -> [P -> P]] /\ \A n \in Nat, p \in P : h[n][p] = NextPlan(doc, p)
    BY <1>2
  <1> HIDE DEF h
  <1>4. PICK g : Follows(g, P, a, h)
    BY <1>1, <1>3, Recursion
  <1>5. g \in [Nat -> P] /\ g[0] = a
    BY <1>4 DEF Follows
  <1>6. \A n \in Nat : g[n + 1] = NextPlan(doc, g[n])
    BY <1>3, <1>4, <1>5 DEF Follows
  <1>7. ASSUME NEW f, NEW n \in Nat
        PROVE  rule(f, 0) = a /\ rule(f, n + 1) = NextPlan(doc, f[n])
    <2>1. n + 1 # 0 /\ (n + 1) - 1 = n
      OBVIOUS
    <2> QED
      BY <2>1 DEF a
  <1> HIDE DEF rule
  <1>8. \E f : f = [n \in Nat |-> rule(f, n)]
    <2>1. ASSUME NEW n \in Nat PROVE g[n] = rule(g, n)
      <3>1. CASE n = 0
        BY <1>5, <1>7, <3>1
      <3>2. CASE n # 0
        <4>1. n - 1 \in Nat /\ (n - 1) + 1 = n
          BY <3>2
        <4>2. g[(n - 1) + 1] = NextPlan(doc, g[n - 1])
              /\ rule(g, (n - 1) + 1) = NextPlan(doc, g[n - 1])
          BY <1>6, <1>7, <4>1
        <4> QED
          BY <4>1, <4>2
      <3> QED
        BY <3>1, <3>2
    <2>2. g = [n \in Nat |-> rule(g, n)]
      BY <1>5, <2>1
    <2> QED
      BY <2>2
  <1> DEFINE F == CHOOSE f : f = [n \in Nat |-> rule(f, n)]
  <1>9. F = [n \in Nat |-> rule(F, n)]
    BY <1>8
  <1>10. RustPlan(doc) = F[Len(doc)]
    BY DEF RustPlan, rule
  <1> HIDE DEF F
  <1>11. \A n \in Nat : F[n] = rule(F, n)
    BY <1>9, Zenon
  <1>12. F[0] = a /\ \A n \in Nat : F[n + 1] = NextPlan(doc, F[n])
    BY <1>7, <1>11
  <1> DEFINE T == {n \in Nat : F[n] \in P}
  <1>13. Nat \subseteq T
    <2>1. 0 \in T
      BY <1>1, <1>12
    <2>2. ASSUME NEW n \in Nat, n \in T PROVE n + 1 \in T
      <3>1. F[n] \in P /\ F[n + 1] = NextPlan(doc, F[n])
        BY <1>12, <2>2
      <3>2. F[n + 1] \in P
        BY <1>2, <3>1
      <3>3. n + 1 \in Nat
        OBVIOUS
      <3> QED
        BY <3>2, <3>3
    <2> HIDE DEF T
    <2> QED
      BY <2>1, <2>2, Inducted
  <1>14. F \in [Nat -> P]
    <2>1. \A n \in Nat : F[n] \in P
      BY <1>13
    <2>2. F = [n \in Nat |-> F[n]]
      BY <1>9, Zenon
    <2> QED
      BY <2>1, <2>2
  <1> QED
    BY <1>10, <1>12, <1>14 DEF P, a

\* A plan so far: what is in the order is done, tasks wait for what is not, and
\* those that wait for nothing, but for what the last layer did, are ready.
PlanGood(doc, p) ==
    /\ IsInjective(p.order) /\ Behind(doc, p.order)
    /\ \A name \in TaskNamesOf(doc) :
          p.waits[name] = Cardinality(DepsOf(doc, name) \ ToSet(p.order))
    /\ p.ready = {name \in TaskNamesOf(doc) \ ToSet(p.order) :
                     DepsOf(doc, name) \subseteq ToSet(p.order)}
    /\ \A i \in 1..Len(p.layers) : i > 1 =>
          \A name \in p.layers[i] : DepsOf(doc, name) \cap p.layers[i - 1] # {}
    /\ p.layers # << >> =>
          \A name \in p.ready : DepsOf(doc, name) \cap p.layers[Len(p.layers)] # {}

\* What is waited for.
LEMMA WaitsFor ==
    ASSUME NEW doc, Structured(doc), NEW name \in TaskNamesOf(doc), NEW done
    PROVE  /\ IsFiniteSet(DepsOf(doc, name) \ done)
           /\ Cardinality(DepsOf(doc, name) \ done) \in Nat
           /\ Cardinality(DepsOf(doc, name) \ done) = 0 <=> DepsOf(doc, name) \subseteq done
  <1> DEFINE D == DepsOf(doc, name)
  <1>1. IsFiniteSet(D)
    BY StructureIs
  <1> HIDE DEF D
  <1>2. IsFiniteSet(D \ done) /\ Cardinality(D \ done) \in Nat
    BY <1>1, FS_Difference, FS_CardinalityType
  <1>3. Cardinality(D \ done) = 0 <=> D \ done = {}
    BY <1>2, FS_EmptySet
  <1> QED
    BY <1>2, <1>3 DEF D

\* The plan is good at first, and after each layer.
LEMMA FirstPlanGood ==
    ASSUME NEW doc, Structured(doc)
    PROVE  PlanGood(doc, FirstPlan(doc))
  <1> DEFINE p == FirstPlan(doc)
             N == TaskNamesOf(doc)
  <1>1. /\ \A name \in N : p.waits[name] = Cardinality(DepsOf(doc, name))
        /\ p.ready = {name \in N : Cardinality(DepsOf(doc, name)) = 0}
        /\ p.order = << >> /\ p.layers = << >>
    BY FirstPlanIs
  <1> HIDE DEF p
  <1>2. ToSet(<< >>) = {} /\ IsInjective(<< >>) /\ Behind(doc, << >>)
    <2>1. DOMAIN << >> = {}
      OBVIOUS
    <2> QED
      BY <2>1 DEF ToSet, IsInjective, Behind
  <1>3. \A name \in N : /\ DepsOf(doc, name) \ ToSet(p.order) = DepsOf(doc, name)
                        /\ Cardinality(DepsOf(doc, name)) = 0
                              <=> DepsOf(doc, name) \subseteq ToSet(p.order)
    <2>1. \A name \in N : Cardinality(DepsOf(doc, name)) = 0 <=> DepsOf(doc, name) = {}
      BY StructureIs, FS_EmptySet
    <2> QED
      BY <1>1, <1>2, <2>1
  <1>4. p.ready = {name \in N \ ToSet(p.order) : DepsOf(doc, name) \subseteq ToSet(p.order)}
    <2>1. N \ ToSet(p.order) = N
      BY <1>1, <1>2
    <2> QED
      BY <1>1, <1>3, <2>1
  <1>5. \A name \in N : p.waits[name] = Cardinality(DepsOf(doc, name) \ ToSet(p.order))
    BY <1>1, <1>3, Zenon
  <1>6. Len(p.layers) = 0
    BY <1>1
  <1> QED
    BY <1>1, <1>2, <1>4, <1>5, <1>6 DEF PlanGood, p

LEMMA NextPlanGood ==
    ASSUME NEW doc, Structured(doc), GraphAssumption, NEW p \in PlansOf(doc),
           p.ready # {}, PlanGood(doc, p)
    PROVE  /\ PlanGood(doc, NextPlan(doc, p))
           /\ Len(NextPlan(doc, p).order) > Len(p.order)
  <1> DEFINE q == NextPlan(doc, p)
             N == TaskNamesOf(doc)
             b == ByName(p.ready)
             done == ToSet(p.order)
             R == p.ready
             L == p.layers
             o == p.order
  <1>1. /\ \A name \in N :
              q.waits[name] = p.waits[name] - Cardinality(DepsOf(doc, name) \cap R)
        /\ q.ready = {name \in N : q.waits[name] = 0 /\ p.waits[name] > 0}
        /\ q.order = o \o b /\ q.layers = Append(L, R)
        /\ b \in Seq(N) /\ IsInjective(b) /\ ToSet(b) = R
    BY NextPlanIs, Zenon
  <1>2. R \in SUBSET N /\ o \in Seq(N) /\ L \in Seq(SUBSET N)
    BY DEF PlansOf
  <1>3. /\ IsInjective(o) /\ Behind(doc, o)
        /\ \A name \in N : p.waits[name] = Cardinality(DepsOf(doc, name) \ done)
        /\ R = {name \in N \ done : DepsOf(doc, name) \subseteq done}
        /\ \A i \in 1..Len(L) : i > 1 => \A name \in L[i] : DepsOf(doc, name) \cap L[i - 1] # {}
        /\ L # << >> => \A name \in R : DepsOf(doc, name) \cap L[Len(L)] # {}
    BY DEF PlanGood
  <1>4. R # {}
    OBVIOUS
  <1> HIDE DEF q, b, R, L, o
  <1>5. done = {o[j] : j \in 1..Len(o)} /\ Len(o) \in Nat /\ DOMAIN o = 1..Len(o)
        /\ Len(b) \in Nat /\ DOMAIN b = 1..Len(b)
    <2>1. DOMAIN o = 1..Len(o) /\ Len(o) \in Nat /\ Len(b) \in Nat /\ DOMAIN b = 1..Len(b)
      BY <1>1, <1>2
    <2> QED
      BY <2>1 DEF ToSet, o
  <1>6. R \cap done = {}
    BY <1>3
  <1>7. done = ToSet(o)
    BY DEF o
  <1> HIDE DEF done
  <1>8. /\ IsInjective(o \o b) /\ ToSet(o \o b) = done \cup R
        /\ o \o b \in Seq(N) /\ Len(o \o b) = Len(o) + Len(b)
        /\ \A i \in 1..Len(o) : (o \o b)[i] = o[i]
        /\ \A i \in 1..Len(b) : (o \o b)[Len(o) + i] = b[i]
    <2> HIDE DEF N
    <2> QED
      BY <1>1, <1>2, <1>3, <1>6, <1>7, MoreElements
  <1> DEFINE u == o \o b
             m == Len(o)
             n == Len(b)
  <1>9. DOMAIN u = 1..(m + n)
    BY <1>8
  <1> HIDE DEF u, N
  <1>10. /\ \A i \in 1..m : u[i] = o[i]
         /\ \A i \in 1..n : u[m + i] = b[i]
         /\ \A i \in 1..n : b[i] \in R
         /\ m \in Nat /\ n \in Nat
    BY <1>1, <1>5, <1>8 DEF u, ToSet
  <1> HIDE DEF m, n
  <1>11. Behind(doc, u)
    <2> SUFFICES ASSUME NEW i \in 1..(m + n)
                 PROVE  DepsOf(doc, u[i]) \subseteq {u[j] : j \in 1..(i - 1)}
      BY <1>9 DEF Behind
    <2>1. CASE i \in 1..m
      <3>1. \A j \in 1..(i - 1) : j \in 1..m
        BY <1>10, <2>1
      <3>2. DepsOf(doc, o[i]) \subseteq {o[j] : j \in 1..(i - 1)}
        BY <1>3, <1>5, <2>1 DEF Behind, m
      <3> QED
        BY <1>10, <2>1, <3>1, <3>2
    <2>2. CASE i \notin 1..m
      <3>1. i - m \in 1..n /\ m + (i - m) = i /\ \A j \in 1..m : j \in 1..(i - 1)
        BY <1>10, <2>2
      <3>2. u[i] \in R
        <4>1. u[m + (i - m)] = b[i - m] /\ b[i - m] \in R
          BY <1>10, <3>1
        <4> QED
          BY <3>1, <4>1
      <3>3. DepsOf(doc, u[i]) \subseteq {o[j] : j \in 1..m}
        BY <1>3, <1>5, <3>2 DEF m
      <3> QED
        BY <1>10, <3>1, <3>3
    <2> QED
      BY <2>1, <2>2
  <1>12. \A name \in done : DepsOf(doc, name) \subseteq done
    <2> SUFFICES ASSUME NEW i \in 1..Len(o) PROVE DepsOf(doc, o[i]) \subseteq done
      BY <1>5
    <2>1. \A j \in 1..(i - 1) : j \in 1..Len(o)
      BY <1>5
    <2> QED
      BY <1>3, <1>5, <2>1 DEF Behind
  <1>13. ASSUME NEW name \in N
         PROVE  /\ Cardinality(DepsOf(doc, name) \ done) \in Nat
                /\ Cardinality(DepsOf(doc, name) \ done) = 0 <=> DepsOf(doc, name) \subseteq done
                /\ q.waits[name] = Cardinality(DepsOf(doc, name) \ (done \cup R))
                /\ q.waits[name] = 0 <=> DepsOf(doc, name) \subseteq done \cup R
                /\ p.waits[name] > 0 <=> ~(DepsOf(doc, name) \subseteq done)
    <2>1. name \in TaskNamesOf(doc)
      BY DEF N
    <2>2. /\ Cardinality(DepsOf(doc, name) \ done) \in Nat
          /\ Cardinality(DepsOf(doc, name) \ done) = 0 <=> DepsOf(doc, name) \subseteq done
      BY <2>1, WaitsFor
    <2>3. Cardinality(DepsOf(doc, name) \ (done \cup R))
             = Cardinality(DepsOf(doc, name) \ done) - Cardinality(DepsOf(doc, name) \cap R)
      <3> DEFINE X == DepsOf(doc, name) \ done
      <3>1. IsFiniteSet(X)
        BY <2>1, WaitsFor
      <3>2. X \ R = DepsOf(doc, name) \ (done \cup R) /\ X \cap R = DepsOf(doc, name) \cap R
        BY <1>6
      <3> HIDE DEF X
      <3>3. Cardinality(X \ R) = Cardinality(X) - Cardinality(X \cap R)
        BY <3>1, FS_Difference
      <3> QED
        BY <3>2, <3>3 DEF X
    <2>4. Cardinality(DepsOf(doc, name) \ (done \cup R)) = 0
             <=> DepsOf(doc, name) \subseteq done \cup R
      BY <2>1, WaitsFor
    <2>5. q.waits[name] = Cardinality(DepsOf(doc, name) \ (done \cup R))
      BY <1>1, <1>3, <2>3
    <2>6. p.waits[name] > 0 <=> Cardinality(DepsOf(doc, name) \ done) # 0
      BY <1>3, <2>2
    <2> QED
      BY <2>2, <2>4, <2>5, <2>6
  <1>14. q.ready = {name \in N \ (done \cup R) : DepsOf(doc, name) \subseteq done \cup R}
    <2>1. ASSUME NEW name \in N
          PROVE  q.waits[name] = 0 /\ p.waits[name] > 0
                    <=> name \notin done \cup R /\ DepsOf(doc, name) \subseteq done \cup R
      <3>1. name \in done \cup R => DepsOf(doc, name) \subseteq done
        BY <1>3, <1>12
      <3>2. name \notin done /\ DepsOf(doc, name) \subseteq done => name \in R
        BY <1>3
      <3> QED
        BY <1>13, <3>1, <3>2
    <2> QED
      BY <1>1, <2>1
  <1>15. \A name \in q.ready : DepsOf(doc, name) \cap R # {}
    <2> SUFFICES ASSUME NEW name \in q.ready PROVE DepsOf(doc, name) \cap R # {}
      OBVIOUS
    <2>1. name \in N /\ p.waits[name] > 0 /\ DepsOf(doc, name) \subseteq done \cup R
      BY <1>1, <1>14
    <2>2. ~(DepsOf(doc, name) \subseteq done)
      BY <1>13, <2>1
    <2> QED
      BY <2>1, <2>2
  <1> DEFINE M == Append(L, R)
             k == Len(L)
  <1>16. /\ k \in Nat /\ Len(M) = k + 1 /\ M[k + 1] = R /\ M # << >>
         /\ \A i \in 1..k : M[i] = L[i]
         /\ k > 0 => L # << >>
    <2> DEFINE S == SUBSET N
    <2>1. L \in Seq(S) /\ R \in S
      BY <1>2
    <2> HIDE DEF S
    <2>2. /\ k \in Nat /\ Len(M) = k + 1 /\ M[k + 1] = R
          /\ \A i \in 1..k : M[i] = L[i]
      BY <2>1
    <2>3. Len(<< >>) = 0
      OBVIOUS
    <2>4. M # << >> /\ (k > 0 => L # << >>)
      <3> HIDE DEF M
      <3> QED
        BY <2>2, <2>3
    <2> QED
      BY <2>2, <2>4
  <1>17. q.order = u /\ q.layers = M
    BY <1>1 DEF u
  <1> HIDE DEF M
  <1>18. ASSUME NEW i \in 1..(k + 1), i > 1, NEW name \in M[i]
         PROVE  DepsOf(doc, name) \cap M[i - 1] # {}
    <2>1. i - 1 \in 1..k /\ M[i - 1] = L[i - 1]
      BY <1>16, <1>18
    <2>2. CASE i = k + 1
      <3>1. i - 1 = Len(L) /\ L # << >> /\ M[i] = R
        BY <1>16, <1>18, <2>2
      <3> QED
        BY <1>3, <1>18, <2>1, <3>1
    <2>3. CASE i # k + 1
      <3>1. i \in 1..k /\ M[i] = L[i]
        BY <1>16, <2>3
      <3> QED
        BY <1>3, <1>18, <2>1, <3>1
    <2> QED
      BY <2>2, <2>3
  <1> HIDE DEF k
  <1>19. Len(u) = m + n /\ n > 0
    <2>1. Len(u) = m + n
      BY <1>8 DEF u, m, n
    <2>2. n # 0
      <3> SUFFICES ASSUME n = 0 PROVE FALSE
        OBVIOUS
      <3>1. DOMAIN b = {}
        BY <1>5 DEF n
      <3> QED
        BY <1>1, <1>4, <3>1 DEF ToSet
    <2> QED
      BY <1>10, <2>1, <2>2
  <1>20. PlanGood(doc, q)
    <2>1. IsInjective(q.order) /\ Behind(doc, q.order) /\ ToSet(q.order) = done \cup R
      BY <1>8, <1>11, <1>17 DEF u
    <2>2. /\ \A name \in N : q.waits[name] = Cardinality(DepsOf(doc, name) \ ToSet(q.order))
          /\ q.ready = {name \in N \ ToSet(q.order) : DepsOf(doc, name) \subseteq ToSet(q.order)}
      BY <1>13, <1>14, <2>1, Zenon
    <2>3. \A i \in 1..Len(q.layers) : i > 1 =>
             \A name \in q.layers[i] : DepsOf(doc, name) \cap q.layers[i - 1] # {}
      BY <1>16, <1>17, <1>18, Zenon
    <2>4. \A name \in q.ready : DepsOf(doc, name) \cap q.layers[Len(q.layers)] # {}
      BY <1>15, <1>16, <1>17
    <2> QED
      BY <2>1, <2>2, <2>3, <2>4, Zenon DEF PlanGood, N
  <1>21. Len(q.order) > Len(o)
    BY <1>10, <1>17, <1>19 DEF m
  <1> QED
    BY <1>20, <1>21 DEF q, o

\* The order of the Rust mirror fits, and each layer waits for the one before it.
LEMMA RustPlanFits ==
    ASSUME NEW doc, Structured(doc), ~Deadlocked(doc), GraphAssumption
    PROVE  /\ Fits(doc, RustPlan(doc).order)
           /\ \A i \in DOMAIN RustPlan(doc).layers : i > 1 =>
                 \A name \in RustPlan(doc).layers[i] :
                    ToSet(Named(doc, name).deps) \cap RustPlan(doc).layers[i - 1] # {}
  <1> DEFINE N == TaskNamesOf(doc)
             end == RustPlan(doc)
  <1>1. PICK plan \in [Nat -> PlansOf(doc)] :
           /\ RustPlan(doc) = plan[Len(doc)] /\ plan[0] = FirstPlan(doc)
           /\ \A n \in Nat : plan[n + 1] = NextPlan(doc, plan[n])
    BY PlansIs
  <1> DEFINE T == {n \in Nat : /\ PlanGood(doc, plan[n])
                               /\ plan[n].ready = {} \/ Len(plan[n].order) >= n}
  <1>2. Nat \subseteq T
    <2>1. 0 \in T
      <3>1. PlanGood(doc, plan[0])
        BY <1>1, FirstPlanGood
      <3>2. plan[0].order = << >>
        BY <1>1, FirstPlanIs
      <3>3. Len(plan[0].order) >= 0
        BY <3>2
      <3> QED
        BY <3>1, <3>3
    <2>2. ASSUME NEW n \in Nat, n \in T PROVE n + 1 \in T
      <3>1. /\ PlanGood(doc, plan[n]) /\ plan[n] \in PlansOf(doc)
            /\ plan[n + 1] = NextPlan(doc, plan[n]) /\ n + 1 \in Nat
            /\ plan[n].ready = {} \/ Len(plan[n].order) >= n
        <4>1. PlanGood(doc, plan[n]) /\ (plan[n].ready = {} \/ Len(plan[n].order) >= n)
          BY <2>2, Zenon
        <4>2. plan[n] \in PlansOf(doc) /\ plan[n + 1] = NextPlan(doc, plan[n])
          BY <1>1
        <4> QED
          BY <4>1, <4>2
      <3>2. CASE plan[n].ready = {}
        <4>1. plan[n + 1] = plan[n]
          BY <3>1, <3>2, Zenon DEF NextPlan
        <4> QED
          BY <3>1, <3>2, <4>1
      <3>3. CASE plan[n].ready # {}
        <4>1. PlanGood(doc, plan[n + 1]) /\ Len(plan[n + 1].order) > Len(plan[n].order)
          BY <3>1, <3>3, NextPlanGood
        <4>2. plan[n].order \in Seq(N) /\ plan[n + 1].order \in Seq(N)
          <5>1. \A p \in PlansOf(doc) : p.order \in Seq(N)
            BY DEF PlansOf
          <5>2. plan[n + 1] \in PlansOf(doc)
            BY <1>1, <3>1
          <5> QED
            BY <3>1, <5>1, <5>2
        <4>3. Len(plan[n].order) \in Nat /\ Len(plan[n + 1].order) \in Nat
          <5> DEFINE s == plan[n].order
                     t == plan[n + 1].order
          <5> HIDE DEF N, s, t
          <5>1. Len(s) \in Nat /\ Len(t) \in Nat
            BY <4>2 DEF s, t
          <5> QED
            BY <5>1 DEF s, t
        <4>4. Len(plan[n + 1].order) >= n + 1
          BY <3>1, <3>3, <4>1, <4>3
        <4> QED
          BY <3>1, <4>1, <4>4
      <3> QED
        BY <3>2, <3>3
    <2> HIDE DEF T
    <2> QED
      BY <2>1, <2>2, Inducted
  <1>3. Len(doc) \in Nat /\ IsFiniteSet(N) /\ N \subseteq TaskNames
        /\ Cardinality(N) \in Nat /\ Cardinality(N) <= Len(doc)
    <2>1. doc \in GraphDocuments
      BY DEF Structured
    <2>2. Len(doc) \in Nat
      BY <2>1 DEF GraphDocuments
    <2> QED
      BY <2>1, <2>2, DocumentNames
  <1>4. end \in PlansOf(doc) /\ PlanGood(doc, end) /\ (end.ready = {} \/ Len(end.order) >= Len(doc))
    BY <1>1, <1>2, <1>3
  <1> HIDE DEF T, end
  <1>5. end.order \in Seq(N) /\ end.layers \in Seq(SUBSET N)
    BY <1>4 DEF PlansOf
  <1>6. /\ IsInjective(end.order) /\ Behind(doc, end.order)
        /\ end.ready = {name \in N \ ToSet(end.order) : DepsOf(doc, name) \subseteq ToSet(end.order)}
        /\ \A i \in 1..Len(end.layers) : i > 1 =>
              \A name \in end.layers[i] : DepsOf(doc, name) \cap end.layers[i - 1] # {}
    BY <1>4 DEF PlanGood
  <1> DEFINE o == end.order
             done == ToSet(o)
  <1>7. /\ Cardinality(done) = Len(o) /\ done \subseteq N
    <2>1. o \in Seq(N)
      BY <1>5
    <2> HIDE DEF o, N
    <2>2. Cardinality(ToSet(o)) = Len(o)
      BY <1>6, <2>1, DistinctElements DEF o
    <2>3. ToSet(o) \subseteq N
      BY <2>1 DEF ToSet
    <2> QED
      BY <2>2, <2>3
  <1>8. done = N
    <2>1. CASE end.ready = {}
      <3> DEFINE rest == N \ done
      <3>1. \A name \in N : DepsOf(doc, name) \subseteq N
        BY StructureIs
      <3>2. \A name \in rest : DepsOf(doc, name) \cap rest # {}
        BY <1>6, <2>1, <3>1
      <3>3. rest = {}
        <4> HIDE DEF rest
        <4>1. rest \in SUBSET N
          BY DEF rest
        <4> QED
          BY <3>2, <4>1, DeadlockedIs DEF Waiting
      <3> QED
        BY <1>7, <3>3
    <2>2. CASE Len(o) >= Len(doc)
      <3> HIDE DEF done, o, N
      <3>1. Cardinality(done) <= Cardinality(N)
        BY <1>3, <1>7, FS_Subset
      <3>2. Cardinality(done) \in Nat
        <4>1. IsFiniteSet(done)
          BY <1>3, <1>7, FS_Subset
        <4> QED
          BY <4>1, FS_CardinalityType
      <3>3. Cardinality(N) = Cardinality(done)
        BY <1>3, <1>7, <2>2, <3>1, <3>2
      <3> QED
        BY <1>3, <1>7, <3>3, FS_Subset
    <2> QED
      BY <1>4, <2>1, <2>2
  <1>9. Fits(doc, o)
    <2>1. o \in Seq(TaskNames)
      <3>1. o \in Seq(N) /\ N \subseteq TaskNames
        BY <1>3, <1>5
      <3> HIDE DEF o, N
      <3>2. Len(o) \in Nat /\ DOMAIN o = 1..Len(o) /\ \A i \in 1..Len(o) : o[i] \in N
        BY <3>1
      <3>3. o = [i \in 1..Len(o) |-> o[i]] /\ \A i \in 1..Len(o) : o[i] \in TaskNames
        BY <3>1, <3>2
      <3> QED
        BY <3>2, <3>3
    <2>2. ToSet(o) = TaskNamesOf(doc) /\ IsInjective(o) /\ Behind(doc, o)
      BY <1>6, <1>8
    <2> HIDE DEF o
    <2> QED
      BY <2>1, <2>2, BehindFits
  <1>10. DOMAIN end.layers = 1..Len(end.layers)
    <2> DEFINE s == end.layers
               S == SUBSET N
    <2>1. s \in Seq(S)
      BY <1>5
    <2> HIDE DEF s, S
    <2>2. DOMAIN s = 1..Len(s)
      BY <2>1
    <2> QED
      BY <2>2 DEF s
  <1> QED
    BY <1>6, <1>9, <1>10, Zenon DEF end, DepsOf

-----------------------------------------------------------------------------
(* The documents that are written *)

LEMMA InitDocument == GraphInit => document \in GraphDocuments
  <1>1. << >> \in GraphDocuments
    BY DEF GraphDocuments
  <1> QED
    BY <1>1, Zenon DEF GraphInit

LEMMA NextDocument ==
    GraphAssumption /\ document \in GraphDocuments /\ [GraphNext]_document => document' \in GraphDocuments
  <1> SUFFICES ASSUME GraphAssumption, document \in GraphDocuments, [GraphNext]_document
               PROVE  document' \in GraphDocuments
    OBVIOUS
  <1>1. CASE UNCHANGED document
    BY <1>1
  <1>2. CASE AddTask
    <2>1. PICK name \in TaskNames, deps \in Dependencies, status \in TaskStatuses :
             document' = Append(document, [name |-> name, deps |-> deps, status |-> status])
      BY <1>2 DEF AddTask
    <2>2. deps \in Seq(TaskNames \cup {Missing})
      BY DEF GraphAssumption
    <2> DEFINE task == [name |-> name, deps |-> deps, status |-> status]
    <2>3. task \in GraphTask
      BY <2>2, Zenon DEF GraphTask
    <2>4. document' = Append(document, task) /\ document \in Seq(GraphTask)
      BY <2>1 DEF GraphDocuments
    <2> HIDE DEF task
    <2>5. Append(document, task) \in Seq(GraphTask)
      BY <2>3, <2>4
    <2> QED
      BY <2>4, <2>5, Zenon DEF GraphDocuments
  <1> QED
    BY <1>1, <1>2 DEF GraphNext

\* Whatever is written is judged and ordered as it should be.
LEMMA DocumentPlanned == GraphAssumption /\ document \in GraphDocuments => GraphsPlanned
  <1> SUFFICES ASSUME GraphAssumption, document \in GraphDocuments PROVE GraphsPlanned
    OBVIOUS
  <1>1. /\ JsAccepts(document) <=> Sound(document)
        /\ RustAccepts(document) <=> Sound(document)
        /\ Sound(document) => Structured(document) /\ ~Deadlocked(document)
    BY AcceptedIsSound
  <1>2. ASSUME Sound(document) PROVE Fits(document, JsOrder(document))
    BY <1>1, <1>2, JsOrderFits
  <1>3. ASSUME Sound(document)
        PROVE  /\ Fits(document, RustPlan(document).order)
               /\ \A i \in DOMAIN RustPlan(document).layers : i > 1 =>
                     \A name \in RustPlan(document).layers[i] :
                        ToSet(Named(document, name).deps)
                           \cap RustPlan(document).layers[i - 1] # {}
    <2>1. Structured(document) /\ ~Deadlocked(document)
      BY <1>1, <1>3
    <2> QED
      BY <2>1, RustPlanFits
  <1> QED
    BY <1>1, <1>2, <1>3, Zenon DEF GraphsPlanned

(* Whatever tasks are written, with whatever statuses and dependencies, both  *)
(* validators accept exactly the sound graphs; and of a sound one, however    *)
(* many tasks it has, sortTasksTopologically and plan_task_graph put each     *)
(* behind all it depends on.                                                  *)
THEOREM GraphsPlannedAlways == GraphSpec => []GraphsPlanned
  <1>1. GraphAssumption
    BY GraphAssumption
  <1>2. GraphInit => document \in GraphDocuments
    BY InitDocument
  <1>3. document \in GraphDocuments /\ [GraphNext]_document => (document \in GraphDocuments)'
    BY <1>1, NextDocument
  <1>4. document \in GraphDocuments => GraphsPlanned
    BY <1>1, DocumentPlanned
  <1> QED
    BY <1>2, <1>3, <1>4, PTL DEF GraphSpec

===============================================================================
