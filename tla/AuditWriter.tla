------------------------------ MODULE AuditWriter ------------------------------
(***************************************************************************)
(* The audit writer (libs/audit/src/writer.ts) and the services' shutdown  *)
(* around it.  Entries collect in a buffer; a full buffer or a timer moves *)
(* them, all at once, into a flush that inserts them into the database and *)
(* falls back to the log.  Flushes overlap: nothing waits for an earlier   *)
(* one.                                                                    *)
(***************************************************************************)
EXTENDS Naturals, FiniteSets

CONSTANTS
    Entries,
    BufferSize,     \* BUFFER_SIZE
    MaxBufferSize,  \* MAX_BUFFER_SIZE
    HasDatabase,    \* DATABASE_URL is set
    CallsShutdown   \* the service's signal handler calls auditWriter.shutdown

ASSUME AuditAssumption ==
    /\ BufferSize \in Nat \ {0}
    /\ MaxBufferSize \in Nat
    /\ BufferSize <= MaxBufferSize
    /\ {HasDatabase, CallsShutdown} \subseteq BOOLEAN

VARIABLES
    buffer,
    flights,        \* the batches flushToDatabase is busy with
    interval,       \* flushInterval: "null", "running" or "cleared"
    dropped,
    db,             \* table audit_event
    logged,         \* entries written to the log instead
    phase,          \* of the process: "serving", "flushing" (in shutdown),
                    \*   "closing" (the server closes), "exited"
    early,          \* history: entries accepted before the signal
    crashed         \* history: the process was killed

sinks == <<db, logged>>
vars == <<buffer, flights, interval, dropped, sinks, phase, early, crashed>>

InFlight == UNION flights

Recorded == db \cup logged

Written == buffer \cup InFlight \cup Recorded \cup dropped

TypeOK ==
    /\ buffer \subseteq Entries
    /\ flights \subseteq SUBSET Entries
    /\ interval \in {"null", "running", "cleared"}
    /\ dropped \subseteq Entries
    /\ db \subseteq Entries
    /\ logged \subseteq Entries
    /\ phase \in {"serving", "flushing", "closing", "exited"}
    /\ early \subseteq Entries
    /\ crashed \in BOOLEAN

Init ==
    /\ buffer = {}
    /\ flights = {}
    /\ interval = "null"
    /\ dropped = {}
    /\ db = {}
    /\ logged = {}
    /\ phase = "serving"
    /\ early = {}
    /\ crashed = FALSE

-----------------------------------------------------------------------------
(* write and flush *)

\* What flush leaves in the buffer it has copied.
MutatedRemaining(entries) == entries

Remaining(entries) == {}

\* flush: the entries leave the buffer before the first await, so a write
\* that comes meanwhile starts a new batch.  Without a database they are
\* logged at once.
Flush(entries) ==
    /\ buffer' = Remaining(entries)
    /\ flights' = IF HasDatabase /\ entries # {} THEN flights \cup {entries} ELSE flights
    /\ logged' = IF HasDatabase THEN logged ELSE logged \cup entries
    /\ UNCHANGED db

MutatedEnsured == IF interval = "null" THEN "cleared" ELSE interval

\* ensureFlushInterval: a timer that was cleared is not started again.
Ensured == IF interval = "null" THEN "running" ELSE interval

MutatedFull(entries) == Cardinality(entries) >= MaxBufferSize + 1

Full(entries) == Cardinality(entries) >= BufferSize

\* write, which handlers call until the process has ended.
Write(e) ==
    /\ phase # "exited"
    /\ e \notin Written \cup early
    /\ interval' = Ensured
    /\ early' = IF phase = "serving" THEN early \cup {e} ELSE early
    /\ IF Cardinality(buffer) >= MaxBufferSize
       THEN /\ dropped' = dropped \cup {e}
            /\ UNCHANGED <<buffer, flights, sinks>>
       ELSE /\ IF Full(buffer \cup {e})
               THEN Flush(buffer \cup {e})
               ELSE buffer' = buffer \cup {e} /\ UNCHANGED <<flights, sinks>>
            /\ UNCHANGED dropped
    /\ UNCHANGED <<phase, crashed>>

TimerFlush ==
    /\ interval = "running"
    /\ phase # "exited"
    /\ buffer # {}
    /\ Flush(buffer)
    /\ UNCHANGED <<interval, dropped, phase, early, crashed>>

\* How the insertion of a batch ends: a lost answer has it in both places.
Outcomes == {"inserted", "logged", "both"}

\* flushToDatabase ends; an error of connect or of the insertion is caught,
\* the entries are logged, and nothing is thrown to flush.
FlushEnds(batch, outcome) ==
    /\ batch \in flights
    /\ phase # "exited"
    /\ flights' = flights \ {batch}
    /\ db' = IF outcome \in {"inserted", "both"} THEN db \cup batch ELSE db
    /\ logged' = IF outcome \in {"logged", "both"} THEN logged \cup batch ELSE logged
    /\ UNCHANGED <<buffer, interval, dropped, phase, early, crashed>>

-----------------------------------------------------------------------------
(* The end of the process *)

MutatedShutdownFlush == UNCHANGED <<buffer, flights, sinks>>

ShutdownFlush == Flush(buffer)

\* The signal handler; the requests that are being served go on.
Signal ==
    /\ phase = "serving"
    /\ IF CallsShutdown
       THEN /\ phase' = "flushing"
            /\ interval' = IF interval = "running" THEN "cleared" ELSE interval
            /\ ShutdownFlush
       ELSE /\ phase' = "closing"
            /\ UNCHANGED <<interval, buffer, flights, sinks>>
    /\ UNCHANGED <<dropped, early, crashed>>

\* shutdown has awaited its flush, and the end of the pool the statements
\* that were running.
ShutdownEnds ==
    /\ phase = "flushing"
    /\ InFlight \cap early = {}
    /\ phase' = "closing"
    /\ UNCHANGED <<buffer, flights, interval, dropped, sinks, early, crashed>>

\* server.close has called back, or its time is up.
Exit ==
    /\ phase = "closing"
    /\ phase' = "exited"
    /\ UNCHANGED <<buffer, flights, interval, dropped, sinks, early, crashed>>

Crash ==
    /\ phase # "exited"
    /\ phase' = "exited"
    /\ crashed' = TRUE
    /\ UNCHANGED <<buffer, flights, interval, dropped, sinks, early>>

Next ==
    \/ \E e \in Entries : Write(e)
    \/ TimerFlush
    \/ \E batch \in flights, outcome \in Outcomes : FlushEnds(batch, outcome)
    \/ Signal \/ ShutdownEnds \/ Exit \/ Crash

Spec == Init /\ [][Next]_vars

\* The timer fires and statements end.
FairSpec ==
    /\ Spec
    /\ WF_vars(TimerFlush)
    /\ \A batch \in SUBSET Entries : WF_vars(\E o \in Outcomes : FlushEnds(batch, o))

-----------------------------------------------------------------------------
(* Properties *)

\* An entry is in one place at a time: waiting in the buffer, in one batch, or
\* recorded; no write that overlaps a flush is lost or inserted twice.
InOnePlace ==
    /\ buffer \cap (InFlight \cup Recorded) = {}
    /\ InFlight \cap Recorded = {}
    /\ \A a, b \in flights : a # b => a \cap b = {}

\* Every entry accepted before the signal is somewhere, and nothing is dropped:
\* the buffer is flushed long before it is full.
NothingDropped ==
    /\ dropped = {}
    /\ early \subseteq Written
    /\ Cardinality(buffer) < BufferSize

\* After a shutdown that was allowed to end, what was accepted before the
\* signal is recorded.
ShutdownRecords ==
    CallsShutdown /\ ~ crashed /\ phase \in {"closing", "exited"} => early \subseteq Recorded

\* While the service is up, an entry is recorded some time after it was
\* accepted, also when no other follows.
EntryRecorded ==
    \A e \in Entries : e \in buffer ~> e \in Recorded \/ phase # "serving"

\* The accounting behind the three invariants.
Inductive ==
    /\ TypeOK
    /\ IsFiniteSet(buffer)
    /\ InOnePlace
    /\ NothingDropped
    /\ ShutdownRecords
    /\ phase = "flushing" => early \cap buffer = {}

===============================================================================
