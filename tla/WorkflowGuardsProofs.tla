------------------------- MODULE WorkflowGuardsProofs -------------------------
(***************************************************************************)
(* Proofs about what the workflow service keeps beside its store: the      *)
(* timers of the supervisor never grant more than they may and never write *)
(* the row of a workflow that has ended (Supervision), a checkpoint comes  *)
(* back as it was saved (Checkpoints), and the chain of promises excludes  *)
(* and implements the first-come-first-served lock of FifoLock             *)
(* (WorkflowLock), for any number of workflows, overlapping timeouts,      *)
(* tokens, calls and restarts.                                             *)
(***************************************************************************)
EXTENDS Supervision, Checkpoints, WorkflowLock, FiniteSetTheorems, TLAPS

-----------------------------------------------------------------------------
(* The supervisor *)

Retrying(w) == {t \in Timeouts : /\ timeout[t] # NoTimeout
                                 /\ timeout[t].act = "retry"
                                 /\ timeout[t].ref = w
                                 /\ timeout[t].n = reg[w].n}

\* Only what is registered has timers: what a timer reads of the record is
\* there.
TimersLive ==
    \A w \in Monitored :
        w \in beating \/ soft[w] # Off \/ hard[w] # Off => Registered(w)

\* While the end of a workflow is the last that was reported of it, nothing
\* writes its row, and what removes it is on its way or was there.
RemovedForGood ==
    /\ \A w \in ended : ~Registered(w)
    /\ \A w \in ended \ overtaken :
          "put" \notin write[w] /\ ("delete" \in write[w] \/ w \notin row)

SupervisionInductive ==
    /\ SupTypeOK
    /\ TimersLive
    /\ RetriesBounded
    /\ RemovedForGood

LEMMA InitSupervision == SupInit => SupervisionInductive
  <1> SUFFICES ASSUME SupInit PROVE SupervisionInductive
    OBVIOUS
  <1> USE SupervisionAssumption DEF SupInit
  <1>1. \A w \in Monitored : ~Registered(w)
    BY DEF Registered
  <1>2. SupTypeOK
    BY DEF SupTypeOK, Off, Unknown, NoTimeout
  <1> QED
    BY <1>1, <1>2 DEF SupervisionInductive, TimersLive, RetriesBounded, RemovedForGood

\* A registration is a record of four fields.
RegRecord == [n: 1..MaxRegs, status: Status, silent: Nat, retries: Nat]

LEMMA RegisteredType ==
    ASSUME SupTypeOK, NEW w \in Monitored
    PROVE  /\ Registered(w) => reg[w] \in RegRecord
           /\ ~Registered(w) => reg[w] = Unknown /\ reg[w].n = 0
  BY DEF SupTypeOK, Registered, RegRecord, Unknown

LEMMA StopTimersType ==
    ASSUME SupTypeOK, NEW w \in Monitored, StopTimers(w)
    PROVE  soft' \in [Monitored -> 0..Off] /\ hard' \in [Monitored -> 0..Off]
           /\ beating' \subseteq Monitored
  BY SupervisionAssumption DEF StopTimers, SupTypeOK, Off

LEMMA ArmType ==
    ASSUME SupTypeOK, NEW w \in Monitored, ArmTimeouts(w)
    PROVE  soft' \in [Monitored -> 0..Off] /\ hard' \in [Monitored -> 0..Off]
  BY SupervisionAssumption DEF ArmTimeouts, SupTypeOK, Off

LEMMA RegType ==
    ASSUME SupTypeOK, NEW w \in Monitored, NEW record \in RegRecord \cup {Unknown},
           reg' = [reg EXCEPT ![w] = record]
    PROVE  reg' \in [Monitored -> RegRecord \cup {Unknown}]
  BY DEF SupTypeOK, RegRecord

LEMMA HeartbeatType ==
    ASSUME SupTypeOK, NEW w \in Monitored, HeartbeatKnown(w)
    PROVE  /\ reg' \in [Monitored -> RegRecord \cup {Unknown}]
           /\ soft' \in [Monitored -> 0..Off] /\ hard' \in [Monitored -> 0..Off]
           /\ debounce' \subseteq Monitored
  <1>1. reg[w] \in RegRecord /\ reg' = [reg EXCEPT ![w] = [reg[w] EXCEPT !.silent = 0]]
    BY RegisteredType DEF HeartbeatKnown
  <1>2. [reg[w] EXCEPT !.silent = 0] \in RegRecord
    BY <1>1 DEF RegRecord
  <1> QED
    BY <1>1, <1>2, RegType, ArmType DEF HeartbeatKnown, SupTypeOK

LEMMA QueueType ==
    ASSUME SupTypeOK, NEW w \in Monitored, NEW attempts \in 0..RetryMax, QueueHeartbeat(w, attempts)
    PROVE  early' \in [Monitored -> 0..RetryMax]
  BY SupervisionAssumption DEF SupTypeOK, QueueHeartbeat

LEMMA TimeoutType ==
    ASSUME SupTypeOK, NEW w \in Monitored, Registered(w), NEW kind, HandleTimeout(w, kind)
    PROVE  timeout' \in [Timeouts -> [act: {"retry", "give_up"}, ref: Monitored, n: 1..MaxRegs]
                             \cup {NoTimeout}]
  <1>1. reg[w].n \in 1..MaxRegs
    BY RegisteredType DEF RegRecord
  <1> QED
    BY <1>1 DEF HandleTimeout, SupTypeOK

LEMMA NextSupervisionType ==
    ASSUME SupTypeOK, TimersLive, [SupNext]_supVars
    PROVE  SupTypeOK'
  <1> USE SupervisionAssumption
  <1>1. ASSUME NEW w \in Monitored, Register(w) PROVE SupTypeOK'
    <2>1. regs' \in [Monitored -> 0..MaxRegs] /\ regs'[w] \in 1..MaxRegs
      BY <1>1 DEF Register, SupTypeOK
    <2>2. [n |-> regs'[w], status |-> "running", silent |-> 0, retries |-> 0] \in RegRecord
      BY <2>1 DEF RegRecord, Status
    <2>3. reg' \in [Monitored -> RegRecord \cup {Unknown}]
      BY <1>1, <2>2, RegType DEF Register
    <2> QED
      BY <1>1, <2>1, <2>3, ArmType DEF Register, SupTypeOK, RegRecord
  <1>2. ASSUME NEW w \in Monitored, RecordHeartbeat(w) PROVE SupTypeOK'
    <2>1. reports' \in [Monitored -> 0..MaxReports]
      BY <1>2 DEF RecordHeartbeat, Report, SupTypeOK
    <2>2. early' \in [Monitored -> 0..RetryMax]
      BY <1>2, QueueType DEF RecordHeartbeat, SupTypeOK
    <2>3. /\ reg' \in [Monitored -> RegRecord \cup {Unknown}]
          /\ soft' \in [Monitored -> 0..Off] /\ hard' \in [Monitored -> 0..Off]
          /\ debounce' \subseteq Monitored
      BY <1>2, HeartbeatType DEF RecordHeartbeat, SupTypeOK, RegRecord
    <2> QED
      BY <1>2, <2>1, <2>2, <2>3 DEF RecordHeartbeat, rows, SupTypeOK, RegRecord
  <1>3. ASSUME NEW w \in Monitored, RetryHeartbeat(w) PROVE SupTypeOK'
    <2>2. early' \in [Monitored -> 0..RetryMax]
      BY <1>3, QueueType DEF RetryHeartbeat, SupTypeOK
    <2>3. /\ reg' \in [Monitored -> RegRecord \cup {Unknown}]
          /\ soft' \in [Monitored -> 0..Off] /\ hard' \in [Monitored -> 0..Off]
          /\ debounce' \subseteq Monitored
      BY <1>3, HeartbeatType DEF RetryHeartbeat, SupTypeOK, RegRecord
    <2> QED
      BY <1>3, <2>2, <2>3 DEF RetryHeartbeat, rows, SupTypeOK, RegRecord
  <1>4. ASSUME NEW w \in Monitored, Unregister(w)
        PROVE  /\ reg' \in [Monitored -> RegRecord \cup {Unknown}]
               /\ soft' \in [Monitored -> 0..Off] /\ hard' \in [Monitored -> 0..Off]
               /\ beating' \subseteq Monitored
    BY <1>4, RegType, StopTimersType DEF Unregister
  <1>5. ASSUME NEW w \in Monitored, UnregisterCalled(w) PROVE SupTypeOK'
    BY <1>4, <1>5 DEF UnregisterCalled, rows, SupTypeOK, RegRecord
  <1>6. ASSUME NEW w \in Monitored, UpdateProgress(w) PROVE SupTypeOK'
    <2>1. reports' \in [Monitored -> 0..MaxReports]
      BY <1>6 DEF UpdateProgress, Report, SupTypeOK
    <2>2. ASSUME NEW s \in Status, reg' = [reg EXCEPT ![w].status = s],
                 debounce' = debounce \cup {w}, UNCHANGED <<timers, rows>>
          PROVE  SupTypeOK'
      <3>1. reg[w] \in RegRecord
        BY <1>6, RegisteredType DEF UpdateProgress
      <3>2. [reg[w] EXCEPT !.status = s] \in RegRecord
        BY <3>1 DEF RegRecord
      <3>3. reg' \in [Monitored -> RegRecord \cup {Unknown}]
        BY <2>2, <3>2, RegType
      <3> QED
        BY <1>6, <2>1, <2>2, <3>3 DEF UpdateProgress, timers, rows, SupTypeOK, RegRecord
    <2>3. ASSUME Unregister(w), ended' = ended \cup {w},
                 overtaken' = IF "put" \in write[w] THEN overtaken \cup {w} ELSE overtaken \ {w},
                 write' = [write EXCEPT ![w] = @ \cup {"delete"}],
                 UNCHANGED <<debounce, row>>
          PROVE  SupTypeOK'
      <3>1. write' \in [Monitored -> SUBSET {"put", "delete"}]
        BY <2>3 DEF SupTypeOK
      <3>2. overtaken' \subseteq Monitored /\ ended' \subseteq Monitored
        BY <2>3 DEF SupTypeOK
      <3> QED
        BY <1>4, <1>6, <2>1, <2>3, <3>1, <3>2 DEF UpdateProgress, SupTypeOK, RegRecord
    <2> QED
      BY <1>6, <2>2, <2>3 DEF UpdateProgress
  <1>7. ASSUME NEW w \in Monitored, TimerFires(w) PROVE SupTypeOK'
    <2>1. Registered(w)
      BY <1>7 DEF TimerFires, TimersLive, Off
    <2>2. /\ soft' \in [Monitored -> 0..Off] /\ hard' \in [Monitored -> 0..Off]
      BY <1>7 DEF TimerFires, SupTypeOK, Off
    <2> QED
      BY <1>7, <2>1, <2>2, TimeoutType DEF TimerFires, rows, SupTypeOK
  <1>8. ASSUME NEW w \in Monitored, Tick(w) PROVE SupTypeOK'
    <2>1. Registered(w) /\ reg[w] \in RegRecord
      BY <1>8, RegisteredType DEF Tick, TimersLive
    <2>2. [reg[w] EXCEPT !.silent = IF @ < MaxRetries THEN @ + 1 ELSE @] \in RegRecord
      BY <2>1 DEF RegRecord
    <2>3. reg' \in [Monitored -> RegRecord \cup {Unknown}]
      BY <1>8, <2>2, RegType DEF Tick
    <2>4. /\ soft' \in [Monitored -> 0..Off] /\ hard' \in [Monitored -> 0..Off]
      BY <1>8 DEF Tick, Down, SupTypeOK, Off
    <2>5. timeout' \in [Timeouts -> [act: {"retry", "give_up"}, ref: Monitored, n: 1..MaxRegs]
                             \cup {NoTimeout}]
      BY <1>8, <2>1, TimeoutType DEF Tick, SupTypeOK
    <2> QED
      BY <1>8, <2>3, <2>4, <2>5 DEF Tick, rows, SupTypeOK, RegRecord
  <1>9. ASSUME NEW w \in Monitored, PersistToDb(w) PROVE SupTypeOK'
    BY <1>9 DEF PersistToDb, timers, SupTypeOK
  <1>10. ASSUME NEW w \in Monitored, NEW statement \in {"put", "delete"}, Applied(w, statement)
         PROVE  SupTypeOK'
    BY <1>10 DEF Applied, timers, SupTypeOK
  <1>11. ASSUME NEW w \in Monitored, WriteFails(w) PROVE SupTypeOK'
    BY <1>11 DEF WriteFails, timers, SupTypeOK
  <1>12. ASSUME NEW t \in Timeouts, AfterAudit(t) PROVE SupTypeOK'
    <2> DEFINE w == timeout[t].ref
    <2>1. w \in Monitored /\ timeout[t].n \in 1..MaxRegs
          /\ timeout' \in [Timeouts -> [act: {"retry", "give_up"}, ref: Monitored, n: 1..MaxRegs]
                             \cup {NoTimeout}]
      BY <1>12 DEF AfterAudit, SupTypeOK
    <2>2. CASE Unregister(w)
      BY <1>4, <1>12, <2>1, <2>2 DEF AfterAudit, rows, SupTypeOK, RegRecord
    <2>3. CASE ~Unregister(w)
      <3>1. reg' \in [Monitored -> RegRecord \cup {Unknown}]
        <4>1. CASE reg[w].n = timeout[t].n
          <5>1. reg[w] \in RegRecord
            BY <2>1, <4>1, RegisteredType
          <5>2. [reg[w] EXCEPT !.retries = reg[w].retries + 1, !.status = "running"] \in RegRecord
            <6>1. reg[w].retries + 1 \in Nat /\ "running" \in Status
              BY <5>1 DEF RegRecord, Status
            <6> QED
              BY <5>1, <6>1 DEF RegRecord
          <5>3. reg' = [reg EXCEPT ![w] = [reg[w] EXCEPT !.retries = reg[w].retries + 1,
                                                         !.status = "running"]]
            BY <1>12, <2>1, <2>3, <4>1, <5>1 DEF AfterAudit, SupTypeOK
          <5> QED
            BY <2>1, <5>2, <5>3, RegType
        <4>2. CASE reg[w].n # timeout[t].n
          BY <1>12, <2>3, <4>2 DEF AfterAudit, SupTypeOK, RegRecord
        <4> QED
          BY <4>1, <4>2
      <3> QED
        BY <1>12, <2>1, <2>3, <3>1 DEF AfterAudit, timers, rows, SupTypeOK, RegRecord
    <2> QED
      BY <2>2, <2>3
  <1>13. CASE UNCHANGED supVars
    BY <1>13 DEF supVars, SupTypeOK
  <1> QED
    BY <1>1, <1>2, <1>3, <1>5, <1>6, <1>7, <1>8, <1>9, <1>10, <1>11, <1>12, <1>13 DEF SupNext

LEMMA NextTimersLive ==
    ASSUME SupTypeOK, TimersLive, [SupNext]_supVars
    PROVE  TimersLive'
  <1>1. ASSUME NEW w \in Monitored, Register(w) \/ HeartbeatKnown(w),
               beating' \subseteq beating \cup {w}
        PROVE  TimersLive'
    <2>1. \A v \in Monitored \ {w} : reg'[v] = reg[v] /\ soft'[v] = soft[v] /\ hard'[v] = hard[v]
      BY <1>1 DEF Register, HeartbeatKnown, ArmTimeouts, SupTypeOK
    <2>2. reg'[w] # Unknown
      <3>1. CASE Register(w)
        BY <1>1, <3>1 DEF Register, SupTypeOK, Unknown
      <3>2. CASE HeartbeatKnown(w)
        <4>1. reg[w] \in RegRecord /\ reg'[w] = [reg[w] EXCEPT !.silent = 0]
          BY <3>2, RegisteredType DEF HeartbeatKnown, SupTypeOK
        <4> QED
          BY <4>1 DEF RegRecord, Unknown
      <3> QED
        BY <1>1, <3>1, <3>2
    <2> QED
      BY <1>1, <2>1, <2>2 DEF TimersLive, Registered
  <1>2. ASSUME NEW w \in Monitored, Unregister(w) PROVE TimersLive'
    BY <1>2 DEF Unregister, StopTimers, TimersLive, Registered, SupTypeOK
  <1>3. ASSUME NEW w \in Monitored, \A v \in Monitored : Registered(v) => Registered(v)',
               \A v \in Monitored : soft'[v] # Off => soft[v] # Off,
               \A v \in Monitored : hard'[v] # Off => hard[v] # Off,
               beating' = beating
        PROVE  TimersLive'
    BY <1>3 DEF TimersLive
  <1>4. ASSUME NEW w \in Monitored, RecordHeartbeat(w) \/ RetryHeartbeat(w) PROVE TimersLive'
    BY <1>1, <1>3, <1>4 DEF RecordHeartbeat, RetryHeartbeat, Registered
  <1>5. ASSUME NEW w \in Monitored, UnregisterCalled(w) PROVE TimersLive'
    BY <1>2, <1>5 DEF UnregisterCalled
  <1>6. ASSUME NEW w \in Monitored, UpdateProgress(w) PROVE TimersLive'
    <2>1. ASSUME NEW s \in Status, reg' = [reg EXCEPT ![w].status = s], UNCHANGED timers
          PROVE  TimersLive'
      <3>1. reg[w] \in RegRecord
        BY <1>6, RegisteredType DEF UpdateProgress
      <3>2. reg'[w] = [reg[w] EXCEPT !.status = s] /\ \A v \in Monitored \ {w} : reg'[v] = reg[v]
        BY <2>1 DEF SupTypeOK
      <3>3. reg'[w] # Unknown
        BY <3>1, <3>2 DEF RegRecord, Unknown
      <3> QED
        BY <2>1, <3>2, <3>3 DEF TimersLive, Registered, timers
    <2> QED
      BY <1>2, <1>6, <2>1 DEF UpdateProgress
  <1>7. ASSUME NEW w \in Monitored, TimerFires(w) PROVE TimersLive'
    BY <1>7 DEF TimerFires, TimersLive, Registered, SupTypeOK
  <1>8. ASSUME NEW w \in Monitored, Tick(w) PROVE TimersLive'
    <2>1. reg[w] \in RegRecord
      BY <1>8, RegisteredType DEF Tick, TimersLive
    <2>2. reg'[w] = [reg[w] EXCEPT !.silent = IF @ < MaxRetries THEN @ + 1 ELSE @]
          /\ \A v \in Monitored \ {w} : reg'[v] = reg[v]
      BY <1>8 DEF Tick, SupTypeOK
    <2>3. reg'[w] # Unknown
      BY <2>1, <2>2 DEF RegRecord, Unknown
    <2> QED
      BY <1>8, <2>2, <2>3 DEF Tick, Down, TimersLive, Registered, SupTypeOK
  <1>9. ASSUME UNCHANGED <<reg, timers>> PROVE TimersLive'
    BY <1>9 DEF timers, TimersLive, Registered
  <1>10. ASSUME NEW t \in Timeouts, AfterAudit(t) PROVE TimersLive'
    <2> DEFINE w == timeout[t].ref
    <2>1. w \in Monitored /\ timeout[t].n # 0
      BY <1>10 DEF AfterAudit, SupTypeOK
    <2>2. CASE Unregister(w)
      BY <1>2, <2>1, <2>2
    <2>3. CASE ~Unregister(w) /\ reg[w].n = timeout[t].n
      <3>1. reg[w] \in RegRecord
        BY <2>1, <2>3, RegisteredType
      <3>2. reg'[w] = [reg[w] EXCEPT !.retries = reg[w].retries + 1, !.status = "running"]
            /\ \A v \in Monitored \ {w} : reg'[v] = reg[v]
        BY <1>10, <2>1, <2>3, <3>1 DEF AfterAudit, SupTypeOK
      <3>3. reg'[w] # Unknown
        BY <3>1, <3>2 DEF RegRecord, Unknown
      <3> QED
        BY <1>10, <2>1, <2>3, <3>2, <3>3 DEF AfterAudit, timers, TimersLive, Registered
    <2>4. CASE ~Unregister(w) /\ reg[w].n # timeout[t].n
      BY <1>9, <1>10, <2>4 DEF AfterAudit
    <2> QED
      BY <2>2, <2>3, <2>4
  <1>11. ASSUME NEW w \in Monitored, NEW statement \in {"put", "delete"},
                PersistToDb(w) \/ Applied(w, statement) \/ WriteFails(w)
         PROVE  TimersLive'
    BY <1>9, <1>11 DEF PersistToDb, Applied, WriteFails
  <1>12. ASSUME NEW w \in Monitored, Register(w) PROVE TimersLive'
    BY <1>1, <1>12 DEF Register
  <1>13. CASE UNCHANGED supVars
    BY <1>9, <1>13 DEF supVars, timers
  <1>14. ASSUME NEW w \in Monitored, PersistToDb(w) \/ WriteFails(w) PROVE TimersLive'
    BY <1>11, <1>14
  <1> QED
    BY <1>4, <1>5, <1>6, <1>7, <1>8, <1>10, <1>11, <1>12, <1>13, <1>14 DEF SupNext

LEMMA RetryingCount ==
    ASSUME NEW S \in SUBSET Timeouts
    PROVE  IsFiniteSet(S) /\ Cardinality(S) \in Nat /\ Cardinality(S) <= Cardinality(Timeouts)
           /\ Cardinality(Timeouts) \in Nat
  BY SupervisionAssumption, FS_Subset, FS_CardinalityType

\* The retries counted and those decided, together.
LEMMA NextRetriesBounded ==
    ASSUME SupTypeOK, SupTypeOK', TimersLive, RetriesBounded, [SupNext]_supVars
    PROVE  RetriesBounded'
  <1> SUFFICES ASSUME NEW w \in Monitored, Registered(w)'
               PROVE  reg'[w].retries + Cardinality(Retrying(w)')
                         <= MaxRetries - 1 + Cardinality(Timeouts)
    BY DEF RetriesBounded, Retrying
  <1> USE SupervisionAssumption
  <1>0. reg'[w] \in RegRecord /\ Retrying(w)' \subseteq Timeouts
    BY DEF SupTypeOK, Registered, RegRecord, Retrying
  <1>1. ASSUME reg'[w].retries <= MaxRetries - 1
        PROVE  reg'[w].retries + Cardinality(Retrying(w)')
                         <= MaxRetries - 1 + Cardinality(Timeouts)
    BY <1>0, <1>1, RetryingCount DEF RegRecord
  <1>2. ASSUME Registered(w), reg'[w].retries = reg[w].retries, Retrying(w)' \subseteq Retrying(w)
        PROVE  reg'[w].retries + Cardinality(Retrying(w)')
                         <= MaxRetries - 1 + Cardinality(Timeouts)
    <2>1. Retrying(w) \subseteq Timeouts
      BY DEF Retrying
    <2>2. reg[w].retries + Cardinality(Retrying(w)) <= MaxRetries - 1 + Cardinality(Timeouts)
      BY <1>2 DEF RetriesBounded, Retrying
    <2>3. IsFiniteSet(Retrying(w)) /\ Cardinality(Retrying(w)) \in Nat
          /\ Cardinality(Timeouts) \in Nat
      BY <2>1, RetryingCount
    <2>4. Cardinality(Retrying(w)') \in Nat /\ Cardinality(Retrying(w)') <= Cardinality(Retrying(w))
      BY <1>2, <2>3, FS_Subset, FS_CardinalityType
    <2> QED
      BY <1>0, <1>2, <2>2, <2>3, <2>4 DEF RegRecord
  <1>3. ASSUME timeout' = timeout, Registered(w), reg'[w].retries = reg[w].retries,
               reg'[w].n = reg[w].n
        PROVE  reg'[w].retries + Cardinality(Retrying(w)')
                         <= MaxRetries - 1 + Cardinality(Timeouts)
    <2>1. Retrying(w)' \subseteq Retrying(w)
      BY <1>3 DEF Retrying
    <2> QED
      BY <1>2, <1>3, <2>1
  <1> DEFINE Kept(v) == /\ timeout' = timeout
                        /\ Registered(v)
                        /\ reg'[v].retries = reg[v].retries
                        /\ reg'[v].n = reg[v].n
  <1>4. ASSUME NEW v \in Monitored, Register(v) PROVE Kept(w) \/ reg'[w].retries = 0
    BY <1>4 DEF Register, SupTypeOK, Registered
  <1>5. ASSUME NEW v \in Monitored, HeartbeatKnown(v), timeout' = timeout PROVE Kept(w)
    <2>1. reg[v] \in RegRecord
      BY <1>5, RegisteredType DEF HeartbeatKnown
    <2> QED
      BY <1>5, <2>1 DEF HeartbeatKnown, SupTypeOK, Registered, RegRecord
  <1>6. ASSUME NEW v \in Monitored, Unregister(v), timeout' = timeout PROVE Kept(w)
    BY <1>6 DEF Unregister, SupTypeOK, Registered
  <1>7. ASSUME UNCHANGED <<reg, timeout>> PROVE Kept(w)
    BY <1>7 DEF Registered
  <1>8. ASSUME NEW v \in Monitored, RecordHeartbeat(v) \/ RetryHeartbeat(v) PROVE Kept(w)
    BY <1>5, <1>7, <1>8 DEF RecordHeartbeat, RetryHeartbeat
  <1>9. ASSUME NEW v \in Monitored, UnregisterCalled(v) PROVE Kept(w)
    BY <1>6, <1>9 DEF UnregisterCalled
  <1>10. ASSUME NEW v \in Monitored, UpdateProgress(v) PROVE Kept(w)
    <2>1. ASSUME NEW s \in Status, reg' = [reg EXCEPT ![v].status = s], timeout' = timeout
          PROVE  Kept(w)
      <3>1. reg[v] \in RegRecord
        BY <1>10, RegisteredType DEF UpdateProgress
      <3>2. reg'[v] = [reg[v] EXCEPT !.status = s] /\ \A u \in Monitored \ {v} : reg'[u] = reg[u]
        BY <2>1 DEF SupTypeOK
      <3> QED
        BY <1>10, <2>1, <3>1, <3>2 DEF Registered, RegRecord, UpdateProgress
    <2> QED
      BY <1>6, <1>10, <2>1 DEF UpdateProgress
  <1>11. ASSUME NEW v \in Monitored, NEW statement \in {"put", "delete"},
                PersistToDb(v) \/ Applied(v, statement) \/ WriteFails(v)
         PROVE  Kept(w)
    BY <1>7, <1>11 DEF PersistToDb, Applied, WriteFails
  <1>12. ASSUME NEW v \in Monitored, NEW kind, HandleTimeout(v, kind), Registered(v),
                Registered(w), reg'[w].retries = reg[w].retries, reg'[w].n = reg[w].n
         PROVE  reg'[w].retries + Cardinality(Retrying(w)')
                         <= MaxRetries - 1 + Cardinality(Timeouts)
    <2>1. PICK t \in Timeouts :
             /\ timeout[t] = NoTimeout
             /\ timeout' = [timeout EXCEPT ![t] =
                      [act |-> IF GrantsRetry(v, kind) THEN "retry" ELSE "give_up",
                       ref |-> v, n |-> reg[v].n]]
      BY <1>12 DEF HandleTimeout
    <2>2. CASE v = w /\ GrantsRetry(v, kind)
      <3>1. reg[w] \in RegRecord
        BY <1>12, RegisteredType
      <3> QED
        BY <1>1, <1>12, <2>2, <3>1 DEF GrantsRetry, RegRecord
    <2>3. CASE ~(v = w /\ GrantsRetry(v, kind))
      <3>1. \A u \in Timeouts : timeout'[u] = IF u = t THEN
                      [act |-> IF GrantsRetry(v, kind) THEN "retry" ELSE "give_up",
                       ref |-> v, n |-> reg[v].n] ELSE timeout[u]
        BY <2>1 DEF SupTypeOK
      <3>2. Retrying(w)' \subseteq Retrying(w)
        BY <1>12, <2>3, <3>1 DEF Retrying
      <3> QED
        BY <1>2, <1>12, <3>2
    <2> QED
      BY <2>2, <2>3
  <1>13. ASSUME NEW v \in Monitored, TimerFires(v)
         PROVE  reg'[w].retries + Cardinality(Retrying(w)')
                         <= MaxRetries - 1 + Cardinality(Timeouts)
    <2>1. reg' = reg /\ Registered(v) /\ Registered(w)
      BY <1>13 DEF TimerFires, TimersLive, Off, Registered
    <2>2. HandleTimeout(v, "soft") \/ HandleTimeout(v, "hard")
      BY <1>13 DEF TimerFires
    <2> QED
      BY <1>12, <2>1, <2>2
  <1>14. ASSUME NEW v \in Monitored, Tick(v)
         PROVE  reg'[w].retries + Cardinality(Retrying(w)')
                         <= MaxRetries - 1 + Cardinality(Timeouts)
    <2>1. Registered(v) /\ reg[v] \in RegRecord
      BY <1>14, RegisteredType DEF Tick, TimersLive
    <2>2. reg'[v] = [reg[v] EXCEPT !.silent = IF @ < MaxRetries THEN @ + 1 ELSE @]
          /\ \A u \in Monitored \ {v} : reg'[u] = reg[u]
      BY <1>14 DEF Tick, SupTypeOK
    <2>3. Registered(w) /\ reg'[w].retries = reg[w].retries /\ reg'[w].n = reg[w].n
      BY <2>1, <2>2 DEF RegRecord, Registered
    <2> QED
      BY <1>3, <1>12, <1>14, <2>1, <2>3 DEF Tick
  <1>15. ASSUME NEW t \in Timeouts, AfterAudit(t)
         PROVE  reg'[w].retries + Cardinality(Retrying(w)')
                         <= MaxRetries - 1 + Cardinality(Timeouts)
    <2> DEFINE v == timeout[t].ref
    <2>1. /\ v \in Monitored /\ timeout[t].n # 0 /\ timeout[t] # NoTimeout
          /\ \A u \in Timeouts : timeout'[u] = IF u = t THEN NoTimeout ELSE timeout[u]
      BY <1>15 DEF AfterAudit, SupTypeOK
    <2>2. ASSUME Registered(w), reg'[w].n = reg[w].n
          PROVE  Retrying(w)' \subseteq Retrying(w) \ {t}
      BY <2>1, <2>2 DEF Retrying
    <2>3. CASE Unregister(v) \/ reg' = reg
      <3>1. Registered(w) /\ reg'[w] = reg[w]
        BY <2>1, <2>3 DEF Unregister, SupTypeOK, Registered
      <3> QED
        BY <1>2, <2>2, <3>1
    <2>4. CASE timeout[t].act = "retry" /\ reg[v].n = timeout[t].n
               /\ reg' = [reg EXCEPT ![v].retries = @ + 1, ![v].status = "running"]
      <3>1. reg[v] \in RegRecord
        BY <2>1, <2>4, RegisteredType
      <3>2. reg'[v] = [reg[v] EXCEPT !.retries = reg[v].retries + 1, !.status = "running"]
            /\ \A u \in Monitored \ {v} : reg'[u] = reg[u]
        BY <2>1, <2>4, <3>1 DEF SupTypeOK
      <3>3. /\ Registered(w) /\ reg'[w].n = reg[w].n
            /\ w # v => reg'[w].retries = reg[w].retries
            /\ w = v => reg'[w].retries = reg[w].retries + 1
        BY <3>1, <3>2 DEF RegRecord, Registered, Unknown
      <3>4. CASE w # v
        BY <1>2, <2>2, <3>3, <3>4
      <3>5. CASE w = v
        <4>1. t \in Retrying(w) /\ Retrying(w) \subseteq Timeouts
          BY <2>1, <2>4, <3>5 DEF Retrying
        <4>2. reg[w].retries + Cardinality(Retrying(w)) <= MaxRetries - 1 + Cardinality(Timeouts)
          BY <3>3 DEF RetriesBounded, Retrying
        <4>3. IsFiniteSet(Retrying(w)) /\ Cardinality(Retrying(w)) \in Nat
              /\ Cardinality(Timeouts) \in Nat
          BY <4>1, RetryingCount
        <4>4. /\ IsFiniteSet(Retrying(w) \ {t})
              /\ Cardinality(Retrying(w) \ {t}) = Cardinality(Retrying(w)) - 1
          BY <4>1, <4>3, FS_RemoveElement
        <4>5. Cardinality(Retrying(w)') \in Nat
              /\ Cardinality(Retrying(w)') <= Cardinality(Retrying(w) \ {t})
          BY <2>2, <3>3, <4>4, FS_Subset, FS_CardinalityType
        <4>6. reg[w].retries \in Nat
          BY <3>1, <3>5 DEF RegRecord
        <4> QED
          BY <3>3, <3>5, <4>2, <4>3, <4>4, <4>5, <4>6
      <3> QED
        BY <3>4, <3>5
    <2> QED
      BY <1>15, <2>3, <2>4 DEF AfterAudit
  <1>16. CASE UNCHANGED supVars
    BY <1>3, <1>7, <1>16 DEF supVars
  <1>17. ASSUME reg'[w].retries = 0
         PROVE  reg'[w].retries + Cardinality(Retrying(w)')
                         <= MaxRetries - 1 + Cardinality(Timeouts)
    BY <1>1, <1>17
  <1>18. ASSUME NEW v \in Monitored, PersistToDb(v) \/ WriteFails(v) PROVE Kept(w)
    BY <1>11, <1>18
  <1> QED
    BY <1>3, <1>4, <1>8, <1>9, <1>10, <1>11, <1>13, <1>14, <1>15, <1>16, <1>17, <1>18 DEF SupNext

LEMMA NextRemovedForGood ==
    ASSUME SupTypeOK, TimersLive, RemovedForGood, [SupNext]_supVars
    PROVE  RemovedForGood'
  <1>1. ASSUME NEW w \in Monitored, Register(w) PROVE RemovedForGood'
    BY <1>1 DEF Register, RemovedForGood, Registered, SupTypeOK
  <1>2. ASSUME \A v \in ended : ~Registered(v) => ~Registered(v)', UNCHANGED rows
        PROVE  RemovedForGood'
    BY <1>2 DEF RemovedForGood, rows
  <1>3. ASSUME NEW w \in Monitored, RecordHeartbeat(w) \/ RetryHeartbeat(w) PROVE RemovedForGood'
    <2>1. \A v \in Monitored : ~Registered(v) => ~Registered(v)'
      BY <1>3 DEF RecordHeartbeat, RetryHeartbeat, HeartbeatKnown, Registered, SupTypeOK
    <2>2. UNCHANGED rows
      BY <1>3 DEF RecordHeartbeat, RetryHeartbeat
    <2> QED
      BY <1>2, <2>1, <2>2 DEF SupTypeOK
  <1>4. ASSUME NEW w \in Monitored, Unregister(w)
        PROVE  \A v \in Monitored : (~Registered(v) => ~Registered(v)') /\ ~Registered(w)'
    BY <1>4 DEF Unregister, Registered, SupTypeOK
  <1>5. ASSUME NEW w \in Monitored, UnregisterCalled(w) PROVE RemovedForGood'
    BY <1>2, <1>4, <1>5 DEF UnregisterCalled, SupTypeOK
  <1>6. ASSUME NEW w \in Monitored, UpdateProgress(w) PROVE RemovedForGood'
    <2>1. CASE UNCHANGED rows
      <3>1. \A v \in Monitored : ~Registered(v) => ~Registered(v)'
        <4>1. CASE Unregister(w)
          BY <1>4, <4>1
        <4>2. CASE ~Unregister(w)
          BY <1>6, <4>2 DEF UpdateProgress, Registered, SupTypeOK
        <4> QED
          BY <4>1, <4>2
      <3> QED
        BY <1>2, <2>1, <3>1 DEF SupTypeOK
    <2>2. CASE ~UNCHANGED rows
      <3>1. /\ Unregister(w)
            /\ ended' = ended \cup {w}
            /\ overtaken' = IF "put" \in write[w] THEN overtaken \cup {w} ELSE overtaken \ {w}
            /\ write' = [write EXCEPT ![w] = @ \cup {"delete"}]
            /\ UNCHANGED row
        BY <1>6, <2>2 DEF UpdateProgress
      <3>2. \A v \in ended' : ~Registered(v)'
        BY <1>4, <3>1 DEF RemovedForGood, SupTypeOK
      <3>3. \A v \in ended' \ overtaken' :
               "put" \notin write'[v] /\ ("delete" \in write'[v] \/ v \notin row')
        BY <3>1 DEF RemovedForGood, SupTypeOK
      <3> QED
        BY <3>2, <3>3 DEF RemovedForGood
    <2> QED
      BY <2>1, <2>2
  <1>7. ASSUME NEW w \in Monitored, TimerFires(w) PROVE RemovedForGood'
    BY <1>2, <1>7 DEF TimerFires, Registered
  <1>8. ASSUME NEW w \in Monitored, Tick(w) PROVE RemovedForGood'
    <2>1. w \notin ended
      BY <1>8 DEF Tick, TimersLive, RemovedForGood
    <2>2. \A v \in ended : reg'[v] = reg[v]
      BY <1>8, <2>1 DEF Tick, SupTypeOK
    <2> QED
      BY <1>2, <1>8, <2>2 DEF Tick, Registered
  <1>9. ASSUME NEW w \in Monitored, PersistToDb(w) PROVE RemovedForGood'
    BY <1>9 DEF PersistToDb, RemovedForGood, Registered, SupTypeOK
  <1>10. ASSUME NEW w \in Monitored, NEW statement \in {"put", "delete"}, Applied(w, statement)
         PROVE  RemovedForGood'
    BY <1>10 DEF Applied, RemovedForGood, Registered, SupTypeOK
  <1>11. ASSUME NEW w \in Monitored, WriteFails(w) PROVE RemovedForGood'
    BY <1>11 DEF WriteFails, RemovedForGood, Registered, SupTypeOK
  <1>12. ASSUME NEW t \in Timeouts, AfterAudit(t) PROVE RemovedForGood'
    <2>1. timeout[t].ref \in Monitored /\ timeout[t].n # 0
      BY <1>12 DEF AfterAudit, SupTypeOK
    <2>2. \A v \in Monitored : ~Registered(v) => ~Registered(v)'
      <3>1. CASE Unregister(timeout[t].ref)
        BY <1>4, <2>1, <3>1
      <3>2. CASE ~Unregister(timeout[t].ref)
        BY <1>12, <2>1, <3>2, RegisteredType DEF AfterAudit, SupTypeOK, Registered
      <3> QED
        BY <3>1, <3>2
    <2> QED
      BY <1>2, <1>12, <2>2 DEF AfterAudit, SupTypeOK
  <1>13. CASE UNCHANGED supVars
    BY <1>2, <1>13 DEF supVars, rows, Registered
  <1> QED
    BY <1>1, <1>3, <1>5, <1>6, <1>7, <1>8, <1>9, <1>10, <1>11, <1>12, <1>13 DEF SupNext

LEMMA NextSupervision == SupervisionInductive /\ [SupNext]_supVars => SupervisionInductive'
  BY NextSupervisionType, NextTimersLive, NextRetriesBounded, NextRemovedForGood
     DEF SupervisionInductive

\* Every variable of the supervisor keeps its type, and only what is
\* registered has timers.
THEOREM SupervisionTypeCorrect == SupSpec => [](SupTypeOK /\ TimersLive)
  <1>1. SupervisionInductive => SupTypeOK /\ TimersLive
    BY DEF SupervisionInductive
  <1> QED
    BY <1>1, InitSupervision, NextSupervision, PTL DEF SupSpec

\* Overlapping timeouts exceed the retries by one each at most, and a
\* debounced write never brings back a removed row.
THEOREM TimersBoundedAlways == SupSpec => []TimersBounded
  <1>1. SupervisionInductive => TimersBounded
    <2>1. RemovedForGood => RemovedRowStaysAway
      BY DEF RemovedForGood, RemovedRowStaysAway
    <2> QED
      BY <2>1 DEF SupervisionInductive, TimersBounded
  <1> QED
    BY <1>1, InitSupervision, NextSupervision, PTL DEF SupSpec

-----------------------------------------------------------------------------
(* The checkpoint manager *)

Snapshot == Copy \cup {None, Live}

CallRecord ==
    [pc: {"idle"}]
        \cup [pc: {"lookup"}, token: Tokens, same: BOOLEAN]
        \cup [pc: {"names"}, token: Tokens, same: BOOLEAN, read: Copy]
        \cup [pc: {"audit"}, token: Tokens, read: Copy \cup {Live}, at: 0..MaxVersion]

CallsTyped == call \in [Resumes -> CallRecord]

\* A call is about a token that was handed out.
CallsKnown == \A c \in Resumes : call[c].pc # "idle" => call[c].token <= created

\* A token that was handed out has a row, or will have one, or its row was
\* lost.
RowOrLost == \A t \in Tokens : t <= created => db[t] # None \/ t \in inserting \cup gone

\* What resume is about to hand out fitted its hash when it was judged, and
\* does so as long as the stages have not changed.
JudgedRight ==
    \A c \in Resumes : call[c].pc = "audit" =>
        /\ call[c].at <= version
        /\ call[c].at = version => Shown(call[c].read) = hash[call[c].token].at

CheckpointInductive ==
    /\ CpTypeOK
    /\ CallsTyped
    /\ CallsKnown
    /\ RowOrLost
    /\ JudgedRight
    /\ ComesBackAsSaved

LEMMA InitCheckpoint == CpInit => CheckpointInductive
  <1> SUFFICES ASSUME CpInit PROVE CheckpointInductive
    OBVIOUS
  <1> USE CheckpointAssumption DEF CpInit
  <1>1. CpTypeOK
    BY DEF CpTypeOK, NoHash, Tokens
  <1>2. CallsTyped /\ \A c \in Resumes : call[c].pc = "idle"
    BY DEF CallsTyped, CallRecord, Idle
  <1>3. RowOrLost
    BY DEF RowOrLost, Tokens
  <1> QED
    BY <1>1, <1>2, <1>3 DEF CheckpointInductive, CallsKnown, JudgedRight, ComesBackAsSaved

\* Copies of snapshots.
LEMMA CopyType ==
    /\ \A v \in 0..MaxVersion, ordered \in BOOLEAN : CopyOf(v, ordered) \in Copy
    /\ \A s \in Copy : /\ s.version \in 0..MaxVersion /\ s.ordered \in BOOLEAN
                       /\ s # None /\ s # Live
  BY DEF Copy, CopyOf, None, Live

LEMMA ShownType ==
    ASSUME CpTypeOK, NEW s \in Copy \cup {Live}
    PROVE  Shown(s) \in 0..MaxVersion /\ Written(s) \in Copy
  BY CopyType DEF Shown, Written, CpTypeOK

\* The calls, by their phase.
LEMMA CallShape ==
    ASSUME CallsTyped, NEW c \in Resumes
    PROVE  /\ call[c].pc \in {"idle", "lookup", "names", "audit"}
           /\ call[c].pc # "idle" => call[c].token \in Tokens
           /\ call[c].pc \in {"lookup", "names"} => call[c].same \in BOOLEAN
           /\ call[c].pc = "names" => call[c].read \in Copy
           /\ call[c].pc = "audit" => call[c].read \in Copy \cup {Live}
           /\ call[c].pc = "audit" => call[c].at \in 0..MaxVersion
           /\ call[c].pc = "idle" => call[c] = Idle
  <1>1. call[c] \in CallRecord
    BY DEF CallsTyped
  <1> QED
    BY <1>1 DEF CallRecord, Idle

LEMMA EvictType ==
    ASSUME NEW m \in [Tokens -> Snapshot]
    PROVE  Evict(m) \in [Tokens -> Snapshot]
  BY DEF Evict, Snapshot

LEMMA DiskType ==
    ASSUME CpTypeOK, mem' \in [Tokens -> Snapshot], PersistToDisk, version' = version
    PROVE  file' \in [Tokens -> Copy \cup {None}]
  <1>1. \A t \in Tokens : mem'[t] # None => Written(mem'[t]) \in Copy
    BY ShownType DEF Snapshot
  <1> QED
    BY <1>1 DEF PersistToDisk, CpTypeOK

\* What a judgement makes of a call.
LEMMA JudgeEffect ==
    ASSUME CpTypeOK, CallsTyped, RowOrLost, JudgedRight, CallsKnown, ComesBackAsSaved,
           NEW c \in Resumes, NEW t \in Tokens, t <= created, NEW same \in BOOLEAN,
           NEW m \in [Tokens -> Snapshot],
           m[t] # None \/ db[t] = None, Judge(c, t, same, m),
           UNCHANGED <<version, created, hash, db, inserting, deleted, gone, restarts>>
    PROVE  /\ CallsTyped' /\ CallsKnown' /\ JudgedRight' /\ ComesBackAsSaved'
  <1>1. m[t] = None => t \in deleted \cup gone \cup inserting
    BY DEF RowOrLost
  <1>2. ComesBackAsSaved'
    BY <1>1 DEF Judge, ComesBackAsSaved
  <1>3. CASE Reply(c)
    <2>1. \A d \in Resumes : call'[d] = IF d = c THEN Idle ELSE call[d]
      BY <1>3 DEF Reply, CallsTyped
    <2>2. CallsTyped'
      BY <1>3 DEF Reply, CallsTyped, CallRecord, Idle
    <2>3. CallsKnown'
      BY <2>1 DEF CallsKnown, Idle
    <2>4. JudgedRight'
      BY <2>1 DEF JudgedRight, Idle, Shown
    <2> QED
      BY <1>2, <2>2, <2>3, <2>4
  <1>4. CASE ~Reply(c)
    <2>1. /\ m[t] # None /\ Valid(m[t], t)
          /\ call' = [call EXCEPT ![c] = [pc |-> "audit", token |-> t, read |-> m[t],
                                          at |-> version]]
      BY <1>4 DEF Judge
    <2>2. m[t] \in Copy \cup {Live} /\ version \in 0..MaxVersion
      BY <2>1 DEF Snapshot, CpTypeOK
    <2>3. [pc |-> "audit", token |-> t, read |-> m[t], at |-> version] \in CallRecord
      BY <2>2 DEF CallRecord
    <2>4. CallsTyped'
      BY <2>1, <2>3 DEF CallsTyped
    <2>5. \A d \in Resumes : call'[d] = IF d = c THEN [pc |-> "audit", token |-> t, read |-> m[t],
                                          at |-> version] ELSE call[d]
      BY <2>1 DEF CallsTyped
    <2>6. CallsKnown'
      BY <2>5 DEF CallsKnown
    <2>7. JudgedRight'
      BY <2>1, <2>2, <2>5 DEF JudgedRight, Valid, Shown
    <2> QED
      BY <1>2, <2>4, <2>6, <2>7
  <1> QED
    BY <1>3, <1>4

\* A step that changes neither calls nor what was judged keeps the judgements.
LEMMA QuietCheckpoint ==
    ASSUME CheckpointInductive, UNCHANGED <<call, wrong>>,
           created <= created', version <= version', version' \in Nat, created' \in Nat,
           \A t \in Tokens : t <= created => hash'[t] = hash[t]
    PROVE  CallsTyped' /\ CallsKnown' /\ JudgedRight' /\ ComesBackAsSaved'
  <1> USE CheckpointAssumption
  <1>1. CallsTyped' /\ ComesBackAsSaved'
    BY DEF CheckpointInductive, CallsTyped, ComesBackAsSaved
  <1>2. version \in Nat /\ created \in Nat
    BY DEF CheckpointInductive, CpTypeOK
  <1>3. ASSUME NEW c \in Resumes, call[c].pc # "idle"
        PROVE  call[c].token \in Tokens /\ call[c].token <= created
    BY <1>3, CallShape DEF CheckpointInductive, CallsKnown
  <1>4. CallsKnown'
    BY <1>2, <1>3 DEF CallsKnown, Tokens
  <1>5. JudgedRight'
    <2> SUFFICES ASSUME NEW c \in Resumes, call[c].pc = "audit"
                 PROVE  /\ call[c].at <= version'
                        /\ call[c].at = version' => Shown(call[c].read)' = hash'[call[c].token].at
      BY DEF JudgedRight
    <2>1. /\ call[c].at \in Nat /\ call[c].at <= version
          /\ call[c].at = version => Shown(call[c].read) = hash[call[c].token].at
      BY CallShape DEF CheckpointInductive, JudgedRight
    <2>2. hash'[call[c].token] = hash[call[c].token]
      BY <1>3
    <2> QED
      BY <1>2, <2>1, <2>2 DEF Shown
  <1> QED
    BY <1>1, <1>4, <1>5

LEMMA NextCheckpoint == CheckpointInductive /\ [CpNext]_cpVars => CheckpointInductive'
  <1> SUFFICES ASSUME CheckpointInductive, [CpNext]_cpVars PROVE CheckpointInductive'
    OBVIOUS
  <1> USE CheckpointAssumption
  <1>0. /\ CpTypeOK /\ CallsTyped /\ CallsKnown /\ RowOrLost /\ JudgedRight /\ ComesBackAsSaved
        /\ version \in Nat /\ created \in Nat
    BY DEF CheckpointInductive, CpTypeOK
  <1>typed. mem \in [Tokens -> Snapshot] /\ file \in [Tokens -> Snapshot] /\ db \in [Tokens -> Snapshot]
    BY <1>0 DEF CpTypeOK, Snapshot
  <1>1. ASSUME NEW s \in Copy \cup {Live}, NEW canonical \in BOOLEAN, Create(s, canonical)
        PROVE  CheckpointInductive'
    <2> DEFINE t == created + 1
    <2>1. t \in Tokens /\ created' = t /\ ~(t <= created)
      BY <1>0, <1>1 DEF Create, Tokens, CpTypeOK
    <2>2. mem' \in [Tokens -> Snapshot]
      <3>1. [mem EXCEPT ![t] = s] \in [Tokens -> Snapshot]
        BY <1>typed DEF Snapshot
      <3> QED
        BY <1>1, <3>1, EvictType DEF Create
    <2>3. file' \in [Tokens -> Copy \cup {None}]
      BY <1>0, <1>1, <2>2, DiskType DEF Create
    <2>4. hash' \in [Tokens -> [at: 0..MaxVersion, canonical: BOOLEAN, shared: BOOLEAN]]
          /\ \A u \in Tokens : u <= created => hash'[u] = hash[u]
      <3>1. [at |-> Shown(s), canonical |-> canonical, shared |-> s = Live]
               \in [at: 0..MaxVersion, canonical: BOOLEAN, shared: BOOLEAN]
        BY <1>0, ShownType
      <3> QED
        BY <1>0, <1>1, <2>1, <3>1 DEF Create, CpTypeOK
    <2>5. CallsTyped' /\ CallsKnown' /\ JudgedRight' /\ ComesBackAsSaved'
      BY <1>0, <1>1, <2>1, <2>4, QuietCheckpoint DEF Create
    <2>6. RowOrLost'
      BY <1>0, <1>1, <2>1 DEF Create, RowOrLost, Tokens
    <2>7. CpTypeOK'
      <3>1. \A c \in Resumes : call[c] = Idle \/ call[c].token \in Tokens
        BY <1>0 DEF CpTypeOK
      <3>2. /\ created' \in 0..MaxTokens /\ inserting' \subseteq Tokens
        BY <1>0, <1>1, <2>1 DEF Create, CpTypeOK, Tokens
      <3> QED
        BY <1>0, <1>1, <2>2, <2>3, <2>4, <3>1, <3>2 DEF Create, CpTypeOK, Snapshot
    <2> QED
      BY <2>5, <2>6, <2>7 DEF CheckpointInductive
  <1>2. CASE AutoCheckpoint
    BY <1>1, <1>2 DEF AutoCheckpoint
  <1>3. CASE CreateRequest
    <2>1. CopyOf(version, TRUE) \in Copy
      BY <1>0, CopyType DEF CpTypeOK
    <2> QED
      BY <1>1, <1>3, <2>1 DEF CreateRequest
  <1>4. CASE StagesChange
    <2>1. version' = version + 1 /\ version' \in 0..MaxVersion
          /\ UNCHANGED <<created, hash, mem, file, db, inserting, call, loading, deleted,
                   gone, wrong, restarts>>
      BY <1>0, <1>4 DEF StagesChange, CpTypeOK
    <2>2. CallsTyped' /\ CallsKnown' /\ JudgedRight' /\ ComesBackAsSaved'
      BY <1>0, <2>1, QuietCheckpoint
    <2> QED
      BY <1>0, <2>1, <2>2 DEF CheckpointInductive, CpTypeOK, RowOrLost
  <1>5. ASSUME NEW t \in Tokens, InsertRow(t) PROVE CheckpointInductive'
    <2>1. UNCHANGED <<version, created, hash, mem, file, call, loading, deleted, wrong, restarts>>
      BY <1>5 DEF InsertRow
    <2>2. CallsTyped' /\ CallsKnown' /\ JudgedRight' /\ ComesBackAsSaved'
      BY <1>0, <2>1, QuietCheckpoint
    <2>3. CopyOf(IF hash[t].shared THEN version ELSE hash[t].at, hash[t].canonical) \in Copy
      BY <1>0, CopyType DEF CpTypeOK
    <2>4. db' \in [Tokens -> Copy \cup {None}] /\ inserting' \subseteq Tokens /\ gone' \subseteq Tokens
      BY <1>0, <1>5, <2>3 DEF InsertRow, CpTypeOK
    <2>5. RowOrLost'
      <3>1. CopyOf(IF hash[t].shared THEN version ELSE hash[t].at, hash[t].canonical) # None
        BY <2>3, CopyType
      <3> QED
        BY <1>0, <1>5, <3>1 DEF InsertRow, RowOrLost, CpTypeOK
    <2> QED
      BY <1>0, <2>1, <2>2, <2>4, <2>5 DEF CheckpointInductive, CpTypeOK
  <1>6. ASSUME NEW t \in Tokens, DeleteCheckpoint(t) PROVE CheckpointInductive'
    <2>1. UNCHANGED <<version, created, hash, db, inserting, call, loading, gone, wrong, restarts>>
      BY <1>6 DEF DeleteCheckpoint
    <2>2. CallsTyped' /\ CallsKnown' /\ JudgedRight' /\ ComesBackAsSaved'
      BY <1>0, <2>1, QuietCheckpoint
    <2>3. mem' \in [Tokens -> Snapshot] /\ deleted' \subseteq Tokens
      BY <1>0, <1>typed, <1>6 DEF DeleteCheckpoint, Snapshot, CpTypeOK
    <2>4. file' \in [Tokens -> Copy \cup {None}]
      BY <1>0, <1>6, <2>1, <2>3, DiskType DEF DeleteCheckpoint
    <2> QED
      BY <1>0, <2>1, <2>2, <2>3, <2>4 DEF CheckpointInductive, CpTypeOK, RowOrLost, Snapshot
  <1>7. ASSUME NEW c \in Resumes, CallsTyped', CallsKnown', JudgedRight', ComesBackAsSaved',
               mem' \in [Tokens -> Snapshot], UNCHANGED Others
        PROVE  CheckpointInductive'
    <2>1. \A d \in Resumes : call'[d] = Idle \/ call'[d].token \in Tokens
      BY <1>7 DEF CallsTyped, CallRecord, Idle
    <2> QED
      BY <1>0, <1>7, <2>1 DEF CheckpointInductive, CpTypeOK, RowOrLost, Others, Snapshot,
         ComesBackAsSaved
  <1>8. ASSUME NEW c \in Resumes, NEW next \in CallRecord, next.pc \in {"lookup", "names"},
               next.token <= created, call' = [call EXCEPT ![c] = next],
               UNCHANGED <<wrong, mem, Others>>
        PROVE  CheckpointInductive'
    <2>1. \A d \in Resumes : call'[d] = IF d = c THEN next ELSE call[d]
      BY <1>0, <1>8 DEF CallsTyped
    <2>2. UNCHANGED <<version, created, hash>>
      BY <1>8 DEF Others
    <2>3. CallsTyped' /\ ComesBackAsSaved'
      BY <1>0, <1>8 DEF CallsTyped, ComesBackAsSaved
    <2>4. CallsKnown' /\ JudgedRight'
      BY <1>0, <1>8, <2>1, <2>2 DEF CallsKnown, JudgedRight, Shown
    <2> QED
      BY <1>7, <1>8, <1>typed, <2>3, <2>4
  <1>9. ASSUME NEW c \in Resumes, ResumeCalled(c) PROVE CheckpointInductive'
    <2>1. PICK t \in 1..created, same \in BOOLEAN :
             IF mem[t] # None THEN Judge(c, t, same, mem)
             ELSE /\ call' = [call EXCEPT ![c] = [pc |-> "lookup", token |-> t, same |-> same]]
                  /\ UNCHANGED wrong
      BY <1>9 DEF ResumeCalled
    <2>2. UNCHANGED <<mem, Others>> /\ t \in Tokens /\ t <= created
      BY <1>0, <1>9 DEF ResumeCalled, Tokens, CpTypeOK
    <2>3. CASE mem[t] # None
      <3>1. CallsTyped' /\ CallsKnown' /\ JudgedRight' /\ ComesBackAsSaved'
        BY <1>0, <1>typed, <2>1, <2>2, <2>3, JudgeEffect DEF Others
      <3> QED
        BY <1>7, <1>typed, <2>2, <3>1
    <2>4. CASE mem[t] = None
      <3>1. [pc |-> "lookup", token |-> t, same |-> same] \in CallRecord
        BY <2>2 DEF CallRecord
      <3> QED
        BY <1>8, <2>1, <2>2, <2>4, <3>1
    <2> QED
      BY <2>3, <2>4
  <1>10. ASSUME NEW c \in Resumes, Lookup(c) PROVE CheckpointInductive'
    <2> DEFINE t == call[c].token
    <2>1. /\ call[c].pc = "lookup" /\ t \in Tokens /\ call[c].same \in BOOLEAN
          /\ t <= created
          /\ UNCHANGED <<mem, Others>>
      BY <1>0, <1>10, CallShape DEF Lookup, CallsKnown
    <2>2. CASE db[t] = None
      <3>1. Judge(c, t, call[c].same, mem)
        BY <1>10, <2>2 DEF Lookup, RowOf
      <3>2. CallsTyped' /\ CallsKnown' /\ JudgedRight' /\ ComesBackAsSaved'
        BY <1>0, <1>typed, <2>1, <2>2, <3>1, JudgeEffect DEF Others
      <3> QED
        BY <1>7, <1>typed, <2>1, <3>2
    <2>3. CASE db[t] # None
      <3>1. /\ call' = [call EXCEPT ![c] = [pc |-> "names", token |-> t, same |-> call[c].same,
                                            read |-> db[t]]]
            /\ UNCHANGED wrong
        BY <1>10, <2>3 DEF Lookup, RowOf
      <3>2. db[t] \in Copy
        BY <1>0, <2>1, <2>3 DEF CpTypeOK
      <3>3. [pc |-> "names", token |-> t, same |-> call[c].same, read |-> db[t]] \in CallRecord
        BY <2>1, <3>2 DEF CallRecord
      <3> QED
        BY <1>8, <2>1, <3>1, <3>3
    <2> QED
      BY <2>2, <2>3
  <1>11. ASSUME NEW c \in Resumes, Hydrate(c) PROVE CheckpointInductive'
    <2> DEFINE t == call[c].token
    <2>1. /\ call[c].pc = "names" /\ t \in Tokens /\ call[c].same \in BOOLEAN
          /\ t <= created /\ call[c].read \in Copy
          /\ UNCHANGED Others
      BY <1>0, <1>11, CallShape DEF Hydrate, CallsKnown
    <2>2. mem' = [mem EXCEPT ![t] = call[c].read] /\ Judge(c, t, call[c].same, mem')
      BY <1>11 DEF Hydrate
    <2>3. mem' \in [Tokens -> Snapshot] /\ mem'[t] # None
      BY <1>typed, <2>1, <2>2, CopyType DEF Snapshot
    <2>4. CallsTyped' /\ CallsKnown' /\ JudgedRight' /\ ComesBackAsSaved'
      BY <1>0, <2>1, <2>2, <2>3, JudgeEffect DEF Others
    <2> QED
      BY <1>7, <2>1, <2>3, <2>4
  <1>12. ASSUME NEW c \in Resumes, Resumed(c) PROVE CheckpointInductive'
    <2>1. /\ call[c].pc = "audit" /\ Reply(c) /\ UNCHANGED <<mem, Others>>
          /\ call[c].at = version => Shown(call[c].read) = hash[call[c].token].at
      BY <1>0, <1>12 DEF Resumed, JudgedRight
    <2>2. ComesBackAsSaved'
      BY <1>0, <1>12, <2>1 DEF Resumed, ComesBackAsSaved
    <2>3. UNCHANGED <<version, created, hash>>
      BY <2>1 DEF Others
    <2>4. \A d \in Resumes : call'[d] = IF d = c THEN Idle ELSE call[d]
      BY <1>0, <2>1 DEF Reply, CallsTyped
    <2>5. CallsTyped'
      BY <1>0, <2>1 DEF Reply, CallsTyped, CallRecord, Idle
    <2>6. CallsKnown' /\ JudgedRight'
      BY <1>0, <2>3, <2>4 DEF CallsKnown, JudgedRight, Idle, Shown
    <2> QED
      BY <1>7, <1>typed, <2>1, <2>2, <2>5, <2>6
  <1>13. CASE Restart
    <2>1. /\ \A c \in Resumes : call'[c] = Idle
          /\ call' \in [Resumes -> CallRecord]
          /\ UNCHANGED <<version, created, hash, file, db, deleted, wrong>>
      BY <1>13 DEF Restart, CallRecord, Idle
    <2>2. CallsTyped' /\ CallsKnown' /\ JudgedRight' /\ ComesBackAsSaved'
      BY <1>0, <2>1 DEF CallsTyped, CallsKnown, JudgedRight, ComesBackAsSaved, Idle
    <2> QED
      BY <1>0, <1>13, <2>1, <2>2 DEF CheckpointInductive, CpTypeOK, RowOrLost, Restart
  <1>14. CASE LoadFromDatabase
    <2>1. UNCHANGED <<version, created, hash, db, inserting, call, deleted, gone, wrong, restarts>>
      BY <1>14 DEF LoadFromDatabase
    <2>2. CallsTyped' /\ CallsKnown' /\ JudgedRight' /\ ComesBackAsSaved'
      BY <1>0, <2>1, QuietCheckpoint
    <2>3. mem' \in [Tokens -> Snapshot]
      BY <1>typed, <1>14 DEF LoadFromDatabase, Snapshot
    <2>4. file' \in [Tokens -> Copy \cup {None}]
      BY <1>0, <1>14, <2>1, <2>3, DiskType DEF LoadFromDatabase, CpTypeOK
    <2> QED
      BY <1>0, <1>14, <2>1, <2>2, <2>3, <2>4
         DEF CheckpointInductive, CpTypeOK, RowOrLost, Snapshot, LoadFromDatabase
  <1>15. CASE UNCHANGED cpVars
    BY <1>0, <1>15 DEF cpVars, CheckpointInductive, CpTypeOK, CallsTyped, CallsKnown, RowOrLost,
       JudgedRight, ComesBackAsSaved, Shown
  <1> QED
    BY <1>2, <1>3, <1>4, <1>5, <1>6, <1>9, <1>10, <1>11, <1>12, <1>13, <1>14, <1>15 DEF CpNext

\* Memory, file, rows and calls of the checkpoint manager keep their types.
THEOREM CheckpointTypeCorrect == CpSpec => [](CpTypeOK /\ CallsTyped)
  <1>1. CheckpointInductive => CpTypeOK /\ CallsTyped
    BY DEF CheckpointInductive
  <1> QED
    BY <1>1, InitCheckpoint, NextCheckpoint, PTL DEF CpSpec

\* resume hands out no state that differs from what was saved, and loses no
\* token that has a row.
THEOREM ComesBackAsSavedAlways == CpSpec => []ComesBackAsSaved
  <1>1. CheckpointInductive => ComesBackAsSaved
    BY DEF CheckpointInductive
  <1> QED
    BY <1>1, InitCheckpoint, NextCheckpoint, PTL DEF CpSpec

-----------------------------------------------------------------------------
(* The lock *)

(* A call that comes starts from the invariant and keeps it: it becomes the
   last of its workflow and awaits the one that was last before. *)
LEMMA EnterInductive ==
    ASSUME Inductive, NEW k \in Calls, Enter(k)
    PROVE  Inductive'
<1> DEFINE w == RefOf[k]
<1>1. /\ pc[k] = "new"
      /\ w \in Refs
      /\ pc' = [pc EXCEPT ![k] = "waiting"]
      /\ previous' = [previous EXCEPT ![k] = locks[w]]
      /\ locks' = [locks EXCEPT ![w] = k]
      /\ ticket' = [ticket EXCEPT ![k] = clock + 1]
      /\ clock' = clock + 1
  BY LockAssumption DEF LockAssumption, Enter, Awaited
<1>2. TypeOK
  BY DEF Inductive
<1>3. locks[w] \in Calls \cup {NoCall}
  BY <1>1, <1>2 DEF TypeOK
<1>4. TypeOK'
  <2>1. pc' \in [Calls -> {"new", "waiting", "inside", "done"}]
    BY <1>1, <1>2 DEF TypeOK
  <2>2. previous' \in [Calls -> Calls \cup {NoCall}]
    BY <1>1, <1>2, <1>3 DEF TypeOK
  <2>3. locks' \in [Refs -> Calls \cup {NoCall}]
    BY <1>1, <1>2 DEF TypeOK
  <2>4. ticket' \in [Calls -> Nat] /\ clock' \in Nat
    BY <1>1, <1>2 DEF TypeOK
  <2> QED
    BY <2>1, <2>2, <2>3, <2>4 DEF TypeOK
<1>5. TicketsOrder
  BY DEF Inductive
<1>6. \A c \in Calls \ {k} :
         /\ pc'[c] = pc[c]
         /\ previous'[c] = previous[c]
         /\ ticket'[c] = ticket[c]
  BY <1>1, <1>2 DEF TypeOK
<1>7. /\ pc'[k] = "waiting"
      /\ previous'[k] = locks[w]
      /\ ticket'[k] = clock + 1
      /\ locks'[w] = k
      /\ \A v \in Refs \ {w} : locks'[v] = locks[v]
  BY <1>1, <1>2 DEF TypeOK
<1>8. \A c \in Calls : pc[c] # "new" => ticket[c] <= clock
  BY <1>2, <1>5 DEF TypeOK, TicketsOrder
<1>9. TicketsOrder'
  <2>1. ASSUME NEW c \in Calls
        PROVE  IF pc'[c] = "new" THEN ticket'[c] = 0 ELSE ticket'[c] \in 1..clock'
    BY <1>1, <1>2, <1>5, <1>6, <1>7 DEF TypeOK, TicketsOrder
  <2>2. ASSUME NEW c \in Calls, NEW d \in Calls, pc'[c] # "new", ticket'[c] = ticket'[d]
        PROVE  c = d
    BY <1>2, <1>5, <1>6, <1>7, <2>1, <2>2 DEF TypeOK, TicketsOrder
  <2> QED
    BY <2>1, <2>2 DEF TicketsOrder
<1>10. EntryIsLast'
  BY <1>1, <1>2, <1>6, <1>7, <1>8, LockAssumption
     DEF LockAssumption, TypeOK, Inductive, EntryIsLast, Active, Resolved
<1>11. AwaitsPredecessor'
  <2> SUFFICES ASSUME NEW c \in Calls, NEW d \in Calls,
                      Active(c)', pc'[d] # "new", RefOf[d] = RefOf[c],
                      ticket'[d] < ticket'[c], ~ Resolved(d)'
               PROVE  /\ previous'[c] \in Calls
                      /\ RefOf[previous'[c]] = RefOf[c]
                      /\ pc'[previous'[c]] # "new"
                      /\ ticket'[d] <= ticket'[previous'[c]]
                      /\ ticket'[previous'[c]] < ticket'[c]
    BY DEF AwaitsPredecessor
  <2>1. d # k
    BY <1>2, <1>6, <1>7, <1>8 DEF TypeOK, Active
  <2>2. CASE c = k
    <3>1. /\ locks[w] \in Calls
          /\ RefOf[locks[w]] = w
          /\ pc[locks[w]] # "new"
          /\ ticket[d] <= ticket[locks[w]]
      BY <1>6, <2>1, <2>2 DEF Inductive, EntryIsLast, Active, Resolved
    <3>2. locks[w] # k
      BY <1>1, <3>1
    <3> QED
      BY <1>2, <1>6, <1>7, <1>8, <2>1, <2>2, <3>1, <3>2 DEF TypeOK
  <2>3. CASE c # k
    BY <1>1, <1>2, <1>6, <2>1, <2>3 DEF TypeOK, Inductive, AwaitsPredecessor, Active, Resolved
  <2> QED
    BY <2>2, <2>3
<1>12. LeaveInOrder'
  BY <1>1, <1>2, <1>6, <1>7, <1>8 DEF TypeOK, Inductive, LeaveInOrder, Resolved
<1> QED
  BY <1>4, <1>9, <1>10, <1>11, <1>12 DEF Inductive

(* A call that finds its predecessor's promise resolved is the first of its
   workflow: everyone who came before it is done. *)
LEMMA FirstInLine ==
    ASSUME Inductive, NEW k \in Calls, Acquire(k),
           NEW d \in Calls, pc[d] # "new", RefOf[d] = RefOf[k], ticket[d] < ticket[k]
    PROVE  Resolved(d)
<1>1. CASE Resolved(d)
  BY <1>1
<1>2. CASE ~ Resolved(d)
  <2> DEFINE p == previous[k]
  <2>1. /\ p \in Calls
        /\ RefOf[p] = RefOf[k]
        /\ pc[p] # "new"
        /\ ticket[d] <= ticket[p]
    BY <1>2 DEF Acquire, Active, Inductive, AwaitsPredecessor
  <2>2. Resolved(p)
    BY <2>1, LockAssumption DEF LockAssumption, Acquire
  <2>3. CASE ticket[d] = ticket[p]
    BY <2>1, <2>2, <2>3 DEF Inductive, TicketsOrder
  <2>4. CASE ticket[d] < ticket[p]
    BY <2>1, <2>2, <2>4 DEF Inductive, LeaveInOrder, Resolved
  <2> QED
    BY <2>1, <2>3, <2>4 DEF Inductive, TypeOK
<1> QED
  BY <1>1, <1>2

(* The call that acquires the lock keeps the invariant. *)
LEMMA AcquireInductive ==
    ASSUME Inductive, NEW k \in Calls, Acquire(k)
    PROVE  Inductive'
<1> USE LockAssumption DEF LockAssumption, Inductive, TypeOK
<1>1. TypeOK'
  BY DEF Acquire
<1>2. TicketsOrder'
  BY DEF Acquire, TicketsOrder
<1>3. EntryIsLast'
  BY DEF Acquire, EntryIsLast, Active, Resolved
<1>4. AwaitsPredecessor'
  BY DEF Acquire, AwaitsPredecessor, Active, Resolved
<1>5. LeaveInOrder'
  <2> SUFFICES ASSUME NEW c \in Calls, NEW d \in Calls,
                      pc'[c] \in {"inside", "done"}, pc'[d] # "new",
                      RefOf[d] = RefOf[c], ticket'[d] < ticket'[c]
               PROVE  Resolved(d)'
    BY DEF LeaveInOrder
  <2>1. pc[d] # "new" /\ ticket[d] < ticket[c]
    BY DEF Acquire
  <2>2. Resolved(d)
    <3>1. CASE c = k
      BY <2>1, <3>1, FirstInLine
    <3>2. CASE c # k
      BY <2>1, <3>2 DEF Acquire, LeaveInOrder
    <3> QED
      BY <3>1, <3>2
  <2> QED
    BY <2>2 DEF Acquire, Resolved
<1> QED
  BY <1>1, <1>2, <1>3, <1>4, <1>5

(* A call that leaves takes its entry away only when nobody came after it. *)
LEMMA LeaveInductive ==
    ASSUME Inductive, NEW k \in Calls, Leave(k)
    PROVE  Inductive'
<1> USE LockAssumption DEF LockAssumption, Inductive, TypeOK
<1>1. TypeOK'
  BY DEF Leave, AfterLeave
<1>2. TicketsOrder'
  BY DEF Leave, TicketsOrder
<1>3. EntryIsLast'
  <2> SUFFICES ASSUME NEW c \in Calls, pc'[c] # "new"
               PROVE  \/ locks'[RefOf[c]] = NoCall /\ pc'[c] = "done"
                      \/ /\ locks'[RefOf[c]] \in Calls
                         /\ RefOf[locks'[RefOf[c]]] = RefOf[c]
                         /\ pc'[locks'[RefOf[c]]] \in {"waiting", "inside"}
                         /\ ticket'[c] <= ticket'[locks'[RefOf[c]]]
    BY Zenon DEF EntryIsLast, Active, Resolved
  <2>1. pc[c] # "new" /\ pc[k] = "inside" /\ pc'[k] = "done" /\ ticket' = ticket
    BY DEF Leave
  <2>2. CASE RefOf[c] = RefOf[k] /\ locks[RefOf[k]] = k
    <3>1. ticket[c] <= ticket[k]
      BY <2>1, <2>2 DEF EntryIsLast
    <3>2. c = k \/ Resolved(c)
      <4>1. ticket[c] \in Nat /\ ticket[k] \in Nat
        OBVIOUS
      <4>2. ticket[c] = ticket[k] => c = k
        BY <2>1 DEF TicketsOrder
      <4>3. ticket[c] < ticket[k] => Resolved(c)
        BY <2>1, <2>2 DEF LeaveInOrder
      <4> QED
        BY <3>1, <4>1, <4>2, <4>3
    <3>3. locks'[RefOf[c]] = NoCall
      BY <2>2 DEF Leave, AfterLeave
    <3> QED
      BY <3>2, <3>3 DEF Leave, Resolved
  <2>3. CASE ~ (RefOf[c] = RefOf[k] /\ locks[RefOf[k]] = k)
    <3>1. locks'[RefOf[c]] = locks[RefOf[c]]
      BY <2>3 DEF Leave, AfterLeave
    <3>2. locks[RefOf[c]] # k
      BY <2>1, <2>3 DEF EntryIsLast
    <3>3. \/ locks[RefOf[c]] = NoCall /\ pc[c] = "done"
          \/ /\ locks[RefOf[c]] \in Calls
             /\ RefOf[locks[RefOf[c]]] = RefOf[c]
             /\ pc[locks[RefOf[c]]] \in {"waiting", "inside"}
             /\ ticket[c] <= ticket[locks[RefOf[c]]]
      BY <2>1 DEF EntryIsLast, Active, Resolved
    <3>4. pc' = [pc EXCEPT ![k] = "done"]
      BY DEF Leave
    <3>5. CASE locks[RefOf[c]] = NoCall
      BY <2>1, <3>1, <3>3, <3>4, <3>5
    <3>6. CASE locks[RefOf[c]] # NoCall
      BY <2>1, <3>1, <3>2, <3>3, <3>4, <3>6
    <3> QED
      BY <3>5, <3>6
  <2> QED
    BY <2>2, <2>3
<1>4. AwaitsPredecessor'
  BY DEF Leave, AwaitsPredecessor, Active, Resolved
<1>5. LeaveInOrder'
  BY DEF Leave, LeaveInOrder, Resolved
<1> QED
  BY <1>1, <1>2, <1>3, <1>4, <1>5

(* The tickets, the map and the awaited promises of withWorkflowLock agree in
   every reachable state. *)
THEOREM LockInductive == Spec => []Inductive
<1>1. Init => Inductive
  BY LockAssumption
     DEF LockAssumption, Init, Inductive, TypeOK, TicketsOrder, EntryIsLast, AwaitsPredecessor,
         LeaveInOrder, Active, Resolved
<1>2. Inductive /\ [Next]_vars => Inductive'
  <2> SUFFICES ASSUME Inductive, [Next]_vars
               PROVE  Inductive'
    OBVIOUS
  <2>1. ASSUME NEW k \in Calls, Enter(k)
        PROVE  Inductive'
    BY <2>1, EnterInductive
  <2>2. ASSUME NEW k \in Calls, Acquire(k)
        PROVE  Inductive'
    BY <2>2, AcquireInductive
  <2>3. ASSUME NEW k \in Calls, Leave(k)
        PROVE  Inductive'
    BY <2>3, LeaveInductive
  <2>4. CASE UNCHANGED vars
    BY <2>4
       DEF vars, Inductive, TypeOK, TicketsOrder, EntryIsLast, AwaitsPredecessor,
           LeaveInOrder, Active, Resolved
  <2> QED
    BY <2>1, <2>2, <2>3, <2>4 DEF Next
<1> QED
  BY <1>1, <1>2, PTL DEF Spec

(* withWorkflowLock runs one body of a workflow at a time. *)
THEOREM MutualExclusion == Spec => []Exclusive
<1>1. Inductive => Exclusive
  BY DEF Inductive, TypeOK, TicketsOrder, LeaveInOrder, Exclusive, Resolved
<1> QED
  BY <1>1, LockInductive, PTL

(* A call of withWorkflowLock runs its body only when every call for its
   workflow that came before it has ended: the chain of promises implements
   the lock that serves in the order of arrival. *)
THEOREM ChainImplementsFifo == Spec => ImplementsFifo
<1>1. Init => Fifo!FifoInit
  BY DEF Init, Fifo!FifoInit
<1>2. Inductive /\ Inductive' /\ [Next]_vars => [Fifo!FifoNext]_(Fifo!lockVars)
  <2> SUFFICES ASSUME Inductive, [Next]_vars
               PROVE  [Fifo!FifoNext]_(Fifo!lockVars)
    OBVIOUS
  <2>1. ASSUME NEW k \in Calls, Enter(k)
        PROVE  Fifo!FifoEnter(k)
    BY <2>1 DEF Enter, Fifo!FifoEnter
  <2>2. ASSUME NEW k \in Calls, Acquire(k)
        PROVE  Fifo!FifoAcquire(k)
    <3>1. \A d \in Calls :
             pc[d] # "new" /\ RefOf[d] = RefOf[k] /\ ticket[d] < ticket[k] => Resolved(d)
      BY <2>2, FirstInLine
    <3>2. \A d \in Calls :
             Fifo!Active(d) /\ RefOf[d] = RefOf[k] => ticket[d] >= ticket[k]
      BY <3>1 DEF Fifo!Active, Resolved, Inductive, TypeOK
    <3> QED
      BY <2>2, <3>2 DEF Acquire, Fifo!FifoAcquire
  <2>3. ASSUME NEW k \in Calls, Leave(k)
        PROVE  Fifo!FifoLeave(k)
    BY <2>3 DEF Leave, Fifo!FifoLeave
  <2>4. CASE UNCHANGED vars
    BY <2>4 DEF vars, Fifo!lockVars
  <2> QED
    BY <2>1, <2>2, <2>3, <2>4 DEF Next, Fifo!FifoNext
<1> QED
  BY <1>1, <1>2, LockInductive, PTL DEF Spec, ImplementsFifo, Fifo!FifoSpec

===============================================================================
