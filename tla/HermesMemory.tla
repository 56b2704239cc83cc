----------------------------- MODULE HermesMemory -----------------------------
(***************************************************************************)
(* The conversation memory of the hermes adapter                           *)
(* (services/hermes-adapter/src/index.ts) for one user and session.  An    *)
(* entry is pushed to an array of the process and saved in the database    *)
(* beside the answer.  When the array is too long its head is saved once   *)
(* more and cut off, after which the handler puts what is left into the    *)
(* map without looking again.  A start fills the map from the database     *)
(* while requests are served already.  Clearing waits for the fact         *)
(* service, then deletes the map's array, then the rows.                   *)
(*                                                                         *)
(* Arrays are shared by reference, so they have names here.  A row has no  *)
(* key of its entry's: an entry saved twice is two rows.                   *)
(***************************************************************************)
EXTENDS Integers, SequencesExt

CONSTANTS
    Arrays,            \* names of arrays
    NoArray,
    MemoryLimit,       \* MAX_MEMORY_PER_SESSION
    SummaryThreshold,  \* MEMORY_SUMMARY_THRESHOLD
    MaxEntries,        \* bound: entries ever posted
    MaxSpills,         \* bound: cuts under way at once
    MaxClears,         \* bound: requests to clear
    MaxHermesStarts    \* bound: restarts

\* There are names enough for all arrays in use at once.
ASSUME MemoryAssumption ==
    /\ SummaryThreshold \in Nat \ {0} /\ MemoryLimit \in Nat
    /\ SummaryThreshold <= MemoryLimit
    /\ {MaxEntries, MaxSpills, MaxClears, MaxHermesStarts} \subseteq Nat
    /\ IsFiniteSet(Arrays) /\ Cardinality(Arrays) > MaxSpills + 1
    /\ NoArray \notin Arrays

VARIABLES
    array,      \* the arrays: from names to entries
    current,    \* memoryStore of the session: an array, or NoArray
    posted,     \* entries so far, which are numbered in their order
    saving,     \* entries whose save beside the answer is under way
    spills,     \* requests that cut: their array, the cut, what they found
    rows,       \* hermes_memory: how many rows an entry has
    clearing,   \* the request to clear: none, waiting, before its DELETE
    clears,     \* requests to clear so far
    hydrating,  \* the start's reading of the session: how far, and what
    hermesStarts,
    before,     \* history: the last entry before the start, until the map is filled
    cleared,    \* history: entries the last clear was to remove
    late,       \* history: of those, the ones something under way still held
    overrun,    \* history: entries a cut, a start or a clear ran over
    lost        \* history: entries the database did not have at a restart

hermesVars == <<array, current, posted, saving, spills, rows, clearing, clears, hydrating,
                hermesStarts, before, cleared, late, overrun, lost>>

Entries == 1..MaxEntries

NotHydrating == [at |-> "done", entries |-> <<>>]

HermesInit ==
    /\ array = [a \in Arrays |-> <<>>]
    /\ current = NoArray
    /\ posted = 0
    /\ saving = {}
    /\ spills = {}
    /\ rows = [e \in Entries |-> 0]
    /\ clearing = "none"
    /\ clears = 0
    /\ hydrating = NotHydrating
    /\ hermesStarts = 0
    /\ before = 0
    /\ cleared = {} /\ late = {} /\ overrun = {} /\ lost = {}

\* A name nothing refers to.
FreshArray == CHOOSE a \in Arrays : a # current /\ \A s \in spills : s.array # a

Memory == IF current = NoArray THEN <<>> ELSE array[current]

NewestOf(entries, n) == SubSeq(entries, IF Len(entries) > n THEN Len(entries) - n + 1 ELSE 1, Len(entries))

\* recallMemoryFromDb: the newest `limit' rows, in their order.
NewestRows(limit) ==
    NewestOf(FlattenSeq([e \in Entries |-> [i \in 1..rows[e] |-> e]]), limit)

\* What a recall answers: rows, then entries of the process, the last of them.
Recall(limit) == NewestOf(NewestRows(limit) \o Memory, limit)

-----------------------------------------------------------------------------
(* Posting *)

\* POST /internal/memory.  Too long an array is cut after two calls.
PostMemory ==
    /\ posted < MaxEntries
    /\ LET e == posted + 1
           a == IF current = NoArray THEN FreshArray ELSE current
           entries == Append(Memory, e)
       IN /\ posted' = e
          /\ saving' = saving \cup {e}
          /\ array' = [array EXCEPT ![a] = entries]
          /\ IF Len(entries) > MemoryLimit
             THEN /\ Cardinality(spills) < MaxSpills
                  /\ spills' = spills \cup {[by |-> e, array |-> a, saved |-> FALSE,
                        cut |-> SubSeq(entries, 1, Len(entries) - SummaryThreshold)]}
                  /\ UNCHANGED current
             ELSE /\ current' = a
                  /\ UNCHANGED spills
    /\ UNCHANGED <<rows, clearing, clears, hydrating, hermesStarts, before, cleared, late,
                   overrun, lost>>

\* persistMemoryToDb beside the answer; a failure is logged.
SaveEntry(e) ==
    /\ e \in saving
    /\ saving' = saving \ {e}
    /\ rows' \in {rows, [rows EXCEPT ![e] = @ + 1]}
    /\ UNCHANGED <<array, current, posted, spills, clearing, clears, hydrating,
                   hermesStarts, before, cleared, late, overrun, lost>>

\* The head of the array is inserted row by row; the first failure ends it.
SaveCut(s) ==
    /\ ~s.saved
    /\ spills' = (spills \ {s}) \cup {[s EXCEPT !.saved = TRUE]}
    /\ \E n \in 0..Len(s.cut) :
          rows' = [e \in Entries |->
                     rows[e] + Cardinality({i \in 1..n : s.cut[i] = e})]
    /\ UNCHANGED <<array, current, posted, saving, clearing, clears, hydrating,
                   hermesStarts, before, cleared, late, overrun, lost>>

MutatedKept(s) == NewestOf(SubSeq(array[s.array], 1, Len(s.cut) + SummaryThreshold), SummaryThreshold)

\* The array may have grown since.
Kept(s) == NewestOf(array[s.array], SummaryThreshold)

\* What is left becomes an array of its own and the map's, whichever array the
\* map has by now.
CutMemory(s) ==
    /\ s.saved
    /\ spills' = spills \ {s}
    /\ array' = [array EXCEPT ![FreshArray] = Kept(s)]
    /\ current' = FreshArray
    /\ overrun' = IF current = s.array THEN overrun
                  ELSE overrun \cup (ToSet(Memory) \ ToSet(Kept(s)))
    /\ UNCHANGED <<posted, saving, rows, clearing, clears, hydrating, hermesStarts, before,
                   cleared, late, lost>>

-----------------------------------------------------------------------------
(* Clearing *)

\* POST /internal/memory/clear: the array is sent to the fact service first.
AskClear ==
    /\ clearing = "none"
    /\ clears < MaxClears
    /\ clears' = clears + 1
    /\ clearing' = "waiting"
    /\ UNCHANGED <<array, current, posted, saving, spills, rows, hydrating, hermesStarts,
                   before, cleared, late, overrun, lost>>

ClearMap ==
    /\ clearing = "waiting"
    /\ clearing' = "deleting"
    /\ current' = NoArray
    /\ cleared' = 1..posted
    /\ late' = saving \cup (UNION {ToSet(array[s.array]) : s \in spills})
                     \cup ToSet(hydrating.entries)
    /\ UNCHANGED <<array, posted, saving, spills, rows, clears, hydrating, hermesStarts,
                   before, overrun, lost>>

\* The DELETE takes the rows of entries posted since, too; its failure is
\* ignored.
DeleteRows ==
    /\ clearing = "deleting"
    /\ clearing' = "none"
    /\ \/ /\ rows' = [e \in Entries |-> 0]
          /\ overrun' = overrun \cup {e \in Entries : rows[e] > 0 /\ e \notin cleared}
          /\ UNCHANGED late
       \/ /\ late' = cleared
          /\ UNCHANGED <<rows, overrun>>
    /\ UNCHANGED <<array, current, posted, saving, spills, clears, hydrating, hermesStarts,
                   before, cleared, lost>>

-----------------------------------------------------------------------------
(* The process *)

\* Whatever was under way is gone; the start begins to fill the map.
RestartHermes ==
    /\ hermesStarts < MaxHermesStarts
    /\ hermesStarts' = hermesStarts + 1
    /\ array' = [a \in Arrays |-> <<>>]
    /\ current' = NoArray
    /\ saving' = {}
    /\ spills' = {}
    /\ clearing' = "none"
    /\ hydrating' = [at |-> "reading", entries |-> <<>>]
    /\ before' = posted
    /\ late' = IF clearing = "deleting" THEN cleared ELSE late
    /\ lost' = lost \cup {e \in 1..posted : rows[e] = 0}
    /\ UNCHANGED <<posted, rows, clears, cleared, overrun>>

\* hydrateMemoryStoreFromDb: its query, which may fail.
ReadSession ==
    /\ hydrating.at = "reading"
    /\ \/ /\ hydrating' = NotHydrating
          /\ UNCHANGED late
       \/ /\ hydrating' = [at |-> "read", entries |-> NewestRows(MemoryLimit)]
          /\ late' = late \cup IF clearing = "deleting" THEN ToSet(hydrating'.entries) ELSE {}
    /\ UNCHANGED <<array, current, posted, saving, spills, rows, clearing, clears,
                   hermesStarts, before, cleared, overrun, lost>>

\* Its result replaces what requests put into the map meanwhile.
FillMap ==
    /\ hydrating.at = "read"
    /\ hydrating' = NotHydrating
    /\ IF hydrating.entries = <<>>
       THEN UNCHANGED <<array, current, before, overrun>>
       ELSE /\ array' = [array EXCEPT ![FreshArray] = hydrating.entries]
            /\ current' = FreshArray
            /\ before' = 0
            /\ overrun' = overrun \cup (ToSet(Memory) \ ToSet(hydrating.entries))
    /\ UNCHANGED <<posted, saving, spills, rows, clearing, clears, hermesStarts, cleared,
                   late, lost>>

HermesNext ==
    \/ PostMemory \/ AskClear \/ ClearMap \/ DeleteRows
    \/ RestartHermes \/ ReadSession \/ FillMap
    \/ \E e \in Entries : SaveEntry(e)
    \/ \E s \in spills : SaveCut(s) \/ CutMemory(s)

HermesSpec == HermesInit /\ [][HermesNext]_hermesVars

-----------------------------------------------------------------------------
(* Properties *)

\* A recall contains the entries posted last, as many as a cut leaves and the
\* recall asks for: unless a cut that began on an array the map no longer has, a
\* start, or a clear ran over the entry, or the database did not have it at a
\* restart.  Rows and the process's entries are put one after the other, so that
\* entries the map was not filled with have to make room for those posted since
\* the start, which come twice.
RecentRecalled ==
    \A e \in (1..posted) \ (cleared \cup overrun \cup lost), limit \in 1..MemoryLimit :
        LET newer == posted - e
            twice == IF e > before THEN 0 ELSE posted - before
        IN newer < SummaryThreshold /\ newer + twice < limit => e \in ToSet(Recall(limit))

\* A clear that was answered leaves nothing of what was posted before it, but
\* entries whose save, cut or reading was under way, and all of it when the
\* database refused.
ClearedIsGone ==
    clearing # "deleting" =>
        cleared \cap (ToSet(Memory) \cup {e \in Entries : rows[e] > 0}) \subseteq late

MemoryKept == RecentRecalled /\ ClearedIsGone

===============================================================================
