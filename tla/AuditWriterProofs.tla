--------------------------- MODULE AuditWriterProofs ---------------------------
(***************************************************************************)
(* Proofs about AuditWriter for any number of entries and any sizes: no    *)
(* entry is dropped, lost or duplicated by overlapping writes and flushes, *)
(* and a shutdown records what was accepted before it.                     *)
(***************************************************************************)
EXTENDS AuditWriter, FiniteSetTheorems, TLAPS

(* flush keeps every entry in one place: out of the buffer, into a batch or
   the log. *)
LEMMA FlushAccounts ==
    ASSUME TypeOK, InOnePlace,
           NEW entries \in SUBSET Entries,
           entries \cap (InFlight \cup Recorded) = {},
           Flush(entries)
    PROVE  /\ buffer' = {}
           /\ flights' \subseteq SUBSET Entries
           /\ logged' \subseteq Entries
           /\ db' = db
           /\ InFlight' \cup Recorded' = InFlight \cup Recorded \cup entries
           /\ InFlight' \cap Recorded' = {}
           /\ \A a, b \in flights' : a # b => a \cap b = {}
           /\ Recorded \subseteq Recorded'
<1>1. buffer' = {} /\ db' = db
  BY DEF Flush, Remaining
<1>2. CASE HasDatabase /\ entries # {}
  <2>1. flights' = flights \cup {entries} /\ logged' = logged
    BY <1>2 DEF Flush
  <2>2. InFlight' = InFlight \cup entries
    BY <2>1 DEF InFlight
  <2>3. Recorded' = Recorded
    BY <1>1, <2>1 DEF Recorded
  <2>4. \A a \in flights : a \subseteq InFlight
    BY DEF InFlight
  <2>5. \A a, b \in flights' : a # b => a \cap b = {}
    BY <2>1, <2>4 DEF InOnePlace
  <2> QED
    BY <1>1, <2>1, <2>2, <2>3, <2>5 DEF TypeOK, InOnePlace
<1>3. CASE HasDatabase /\ entries = {}
  <2>1. flights' = flights /\ logged' = logged
    BY <1>3 DEF Flush
  <2> QED
    BY <1>1, <1>3, <2>1 DEF TypeOK, InOnePlace, InFlight, Recorded
<1>4. CASE ~ HasDatabase
  <2>1. flights' = flights /\ logged' = logged \cup entries
    BY <1>4 DEF Flush
  <2>2. InFlight' = InFlight /\ Recorded' = Recorded \cup entries
    BY <1>1, <2>1 DEF InFlight, Recorded
  <2> QED
    BY <1>1, <2>1, <2>2 DEF TypeOK, InOnePlace
<1> QED
  BY <1>2, <1>3, <1>4

(* A write finds room, and fills the buffer to less than BufferSize. *)
LEMMA WriteInductive ==
    ASSUME Inductive, NEW e \in Entries, Write(e)
    PROVE  Inductive'
<1> USE AuditAssumption DEF AuditAssumption
<1>1. /\ TypeOK
      /\ IsFiniteSet(buffer)
      /\ InOnePlace
      /\ dropped = {}
      /\ early \subseteq Written
      /\ Cardinality(buffer) < BufferSize
      /\ Cardinality(buffer) \in Nat
  BY FS_CardinalityType DEF Inductive, NothingDropped
<1>2. /\ phase # "exited"
      /\ e \notin buffer /\ e \notin InFlight /\ e \notin Recorded /\ e \notin early
      /\ interval' = Ensured
      /\ early' = IF phase = "serving" THEN early \cup {e} ELSE early
      /\ phase' = phase /\ crashed' = crashed
  BY DEF Write, Written
<1>3. ~ (Cardinality(buffer) >= MaxBufferSize)
  BY <1>1
<1>4. dropped' = dropped
  BY <1>3 DEF Write
<1>5. interval' \in {"null", "running", "cleared"} /\ early' \subseteq Entries
  BY <1>1, <1>2 DEF TypeOK, Ensured
<1>6. CASE Full(buffer \cup {e})
  <2>1. Flush(buffer \cup {e})
    BY <1>3, <1>6 DEF Write
  <2>2. (buffer \cup {e}) \cap (InFlight \cup Recorded) = {}
    BY <1>1, <1>2 DEF InOnePlace
  <2>3. buffer \cup {e} \in SUBSET Entries
    BY <1>1 DEF TypeOK
  <2>4. /\ buffer' = {}
        /\ flights' \subseteq SUBSET Entries
        /\ logged' \subseteq Entries
        /\ db' = db
        /\ InFlight' \cup Recorded' = InFlight \cup Recorded \cup (buffer \cup {e})
        /\ InFlight' \cap Recorded' = {}
        /\ \A a, b \in flights' : a # b => a \cap b = {}
        /\ Recorded \subseteq Recorded'
    BY <1>1, <2>1, <2>2, <2>3, FlushAccounts
  <2>5. TypeOK'
    BY <1>1, <1>2, <1>4, <1>5, <2>4 DEF TypeOK
  <2>6. IsFiniteSet(buffer') /\ Cardinality(buffer') = 0
    BY <2>4, FS_EmptySet
  <2>7. InOnePlace'
    BY <2>4 DEF InOnePlace
  <2>8. NothingDropped'
    <3>1. early' \subseteq Written'
      BY <1>1, <1>2, <1>4, <2>4 DEF Written
    <3> QED
      BY <1>1, <1>4, <2>6, <3>1 DEF NothingDropped
  <2>9. ShutdownRecords'
    BY <1>2, <2>4 DEF Inductive, ShutdownRecords
  <2> QED
    BY <2>4, <2>5, <2>6, <2>7, <2>8, <2>9 DEF Inductive
<1>7. CASE ~ Full(buffer \cup {e})
  <2>1. /\ buffer' = buffer \cup {e}
        /\ flights' = flights /\ db' = db /\ logged' = logged
    BY <1>3, <1>7 DEF Write, sinks
  <2>2. InFlight' = InFlight /\ Recorded' = Recorded
    BY <2>1 DEF InFlight, Recorded
  <2>3. IsFiniteSet(buffer') /\ Cardinality(buffer') \in Nat
    BY <1>1, <2>1, FS_AddElement, FS_CardinalityType
  <2>4. Cardinality(buffer') < BufferSize
    BY <1>7, <2>1, <2>3 DEF Full
  <2>5. TypeOK'
    BY <1>1, <1>2, <1>4, <1>5, <2>1 DEF TypeOK
  <2>6. InOnePlace'
    BY <1>1, <1>2, <2>1, <2>2 DEF InOnePlace
  <2>7. NothingDropped'
    <3>1. early' \subseteq Written'
      BY <1>1, <1>2, <1>4, <2>1, <2>2 DEF Written
    <3> QED
      BY <1>1, <1>4, <2>4, <3>1 DEF NothingDropped
  <2>8. ShutdownRecords'
    BY <1>2, <2>2 DEF Inductive, ShutdownRecords
  <2>9. phase' = "flushing" => early' \cap buffer' = {}
    BY <1>2, <2>1 DEF Inductive
  <2> QED
    BY <2>3, <2>5, <2>6, <2>7, <2>8, <2>9 DEF Inductive
<1> QED
  BY <1>6, <1>7

(* A flush of the whole buffer, by the timer or by shutdown, keeps the
   accounts whatever it does to the phase. *)
LEMMA WholeBufferFlushed ==
    ASSUME Inductive, Flush(buffer), UNCHANGED <<dropped, early, crashed>>,
           interval' \in {"null", "running", "cleared"},
           phase' \in {"serving", "flushing", "closing", "exited"},
           phase' \in {"closing", "exited"} => phase' = phase
    PROVE  Inductive'
<1> USE AuditAssumption DEF AuditAssumption
<1>1. /\ TypeOK /\ InOnePlace /\ dropped = {} /\ early \subseteq Written
      /\ buffer \cap (InFlight \cup Recorded) = {}
      /\ buffer \in SUBSET Entries
  BY DEF Inductive, NothingDropped, InOnePlace, TypeOK
<1>2. /\ buffer' = {}
      /\ flights' \subseteq SUBSET Entries
      /\ logged' \subseteq Entries
      /\ db' = db
      /\ InFlight' \cup Recorded' = InFlight \cup Recorded \cup buffer
      /\ InFlight' \cap Recorded' = {}
      /\ \A a, b \in flights' : a # b => a \cap b = {}
      /\ Recorded \subseteq Recorded'
  BY <1>1, FlushAccounts
<1>3. IsFiniteSet(buffer') /\ Cardinality(buffer') = 0
  BY <1>2, FS_EmptySet
<1>4. TypeOK'
  BY <1>1, <1>2 DEF TypeOK
<1>5. InOnePlace'
  BY <1>2 DEF InOnePlace
<1>6. NothingDropped'
  <2>1. early' \subseteq Written'
    BY <1>1, <1>2 DEF Written
  <2> QED
    BY <1>1, <1>3, <2>1 DEF NothingDropped
<1>7. ShutdownRecords'
  BY <1>2 DEF Inductive, ShutdownRecords
<1> QED
  BY <1>2, <1>3, <1>4, <1>5, <1>6, <1>7 DEF Inductive

(* A batch that ends is recorded, in one or both of the sinks. *)
LEMMA FlushEndsInductive ==
    ASSUME Inductive, NEW batch \in flights, NEW outcome \in Outcomes,
           FlushEnds(batch, outcome)
    PROVE  Inductive'
<1>1. /\ TypeOK /\ InOnePlace /\ NothingDropped /\ ShutdownRecords
      /\ IsFiniteSet(buffer)
      /\ phase = "flushing" => early \cap buffer = {}
  BY DEF Inductive
<1>2. /\ flights' = flights \ {batch}
      /\ UNCHANGED <<buffer, interval, dropped, phase, early, crashed>>
      /\ db' = IF outcome \in {"inserted", "both"} THEN db \cup batch ELSE db
      /\ logged' = IF outcome \in {"logged", "both"} THEN logged \cup batch ELSE logged
  BY DEF FlushEnds
<1>3. batch \subseteq Entries /\ batch \subseteq InFlight
  BY <1>1 DEF TypeOK, InFlight
<1>4. Recorded' = Recorded \cup batch
  <2>1. CASE outcome = "inserted"
    BY <1>2, <2>1 DEF Recorded
  <2>2. CASE outcome = "logged"
    BY <1>2, <2>2 DEF Recorded
  <2>3. CASE outcome = "both"
    BY <1>2, <2>3 DEF Recorded
  <2> QED
    BY <2>1, <2>2, <2>3 DEF Outcomes
<1>5. InFlight' = InFlight \ batch
  BY <1>1, <1>2 DEF InFlight, InOnePlace
<1>6. TypeOK'
  BY <1>1, <1>2, <1>3 DEF TypeOK
<1>7. InOnePlace'
  BY <1>1, <1>2, <1>3, <1>4, <1>5 DEF InOnePlace
<1>8. Written' = Written
  BY <1>2, <1>3, <1>4, <1>5 DEF Written
<1>9. NothingDropped' /\ ShutdownRecords'
  BY <1>1, <1>2, <1>4, <1>8 DEF NothingDropped, ShutdownRecords
<1> QED
  BY <1>1, <1>2, <1>6, <1>7, <1>9 DEF Inductive

(* The steps that move no entry. *)
LEMMA NothingMoves ==
    ASSUME Inductive,
           UNCHANGED <<buffer, flights, interval, dropped, db, logged, early>>,
           phase' \in {"closing", "exited"},
           crashed' \in BOOLEAN,
           CallsShutdown /\ ~ crashed' => early \subseteq Recorded
    PROVE  Inductive'
BY DEF Inductive, TypeOK, InOnePlace, NothingDropped, ShutdownRecords, InFlight, Recorded, Written

(* The accounting of the entries holds in every reachable state. *)
THEOREM AuditInductive == Spec => []Inductive
<1>1. Init => Inductive
  <2>1. IsFiniteSet({}) /\ Cardinality({}) = 0
    BY FS_EmptySet
  <2> SUFFICES ASSUME Init PROVE Inductive
    OBVIOUS
  <2>2. TypeOK
    BY DEF Init, TypeOK
  <2>3. InFlight = {} /\ Recorded = {}
    BY DEF Init, InFlight, Recorded
  <2>4. IsFiniteSet(buffer) /\ Cardinality(buffer) = 0
    BY <2>1 DEF Init
  <2>5. InOnePlace
    BY <2>3 DEF Init, InOnePlace
  <2>6. NothingDropped
    BY <2>4, AuditAssumption DEF AuditAssumption, Init, NothingDropped
  <2>7. ShutdownRecords
    BY DEF Init, ShutdownRecords
  <2> QED
    BY <2>2, <2>4, <2>5, <2>6, <2>7 DEF Init, Inductive
<1>2. Inductive /\ [Next]_vars => Inductive'
  <2> SUFFICES ASSUME Inductive, [Next]_vars
               PROVE  Inductive'
    OBVIOUS
  <2>1. ASSUME NEW e \in Entries, Write(e)
        PROVE  Inductive'
    BY <2>1, WriteInductive
  <2>2. CASE TimerFlush
    BY <2>2, WholeBufferFlushed DEF TimerFlush, Inductive, TypeOK
  <2>3. ASSUME NEW batch \in flights, NEW outcome \in Outcomes, FlushEnds(batch, outcome)
        PROVE  Inductive'
    BY <2>3, FlushEndsInductive
  <2>4. CASE Signal
    <3>1. CASE CallsShutdown
      <4>1. /\ Flush(buffer)
            /\ UNCHANGED <<dropped, early, crashed>>
            /\ phase' = "flushing"
            /\ interval' \in {"null", "running", "cleared"}
        BY <2>4, <3>1 DEF Signal, ShutdownFlush, Inductive, TypeOK
      <4> QED
        BY <4>1, WholeBufferFlushed
    <3>2. CASE ~ CallsShutdown
      BY <2>4, <3>2, NothingMoves DEF Signal, sinks, Inductive, TypeOK
    <3> QED
      BY <3>1, <3>2
  <2>5. CASE ShutdownEnds
    <3>1. early \subseteq Recorded
      BY <2>5 DEF ShutdownEnds, Inductive, NothingDropped, Written
    <3> QED
      BY <2>5, <3>1, NothingMoves DEF ShutdownEnds, sinks, Inductive, TypeOK
  <2>6. CASE Exit
    BY <2>6, NothingMoves DEF Exit, sinks, Inductive, TypeOK, ShutdownRecords
  <2>7. CASE Crash
    BY <2>7, NothingMoves DEF Crash, sinks, Inductive, TypeOK
  <2>8. CASE UNCHANGED vars
    BY <2>8
       DEF vars, sinks, Inductive, TypeOK, InOnePlace, NothingDropped, ShutdownRecords,
           InFlight, Recorded, Written
  <2> QED
    BY <2>1, <2>2, <2>3, <2>4, <2>5, <2>6, <2>7, <2>8 DEF Next
<1> QED
  BY <1>1, <1>2, PTL DEF Spec

(* An entry is never lost between the buffer and a flush nor taken by two
   flushes, for any number of overlapping flushes. *)
THEOREM EntriesInOnePlace == Spec => []InOnePlace
<1>1. Inductive => InOnePlace
  BY DEF Inductive
<1> QED
  BY <1>1, AuditInductive, PTL

(* The branch of write that drops an entry is never taken, whatever the two
   sizes are, as long as the buffer is flushed before it is full. *)
THEOREM NeverDropped == Spec => []NothingDropped
<1>1. Inductive => NothingDropped
  BY DEF Inductive
<1> QED
  BY <1>1, AuditInductive, PTL

(* Once shutdown has returned, all that was accepted before the signal is in
   the database or the log. *)
THEOREM ShutdownRecordsAlways == Spec => []ShutdownRecords
<1>1. Inductive => ShutdownRecords
  BY DEF Inductive
<1> QED
  BY <1>1, AuditInductive, PTL

===============================================================================
