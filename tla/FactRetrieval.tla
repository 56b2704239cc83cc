---------------------------- MODULE FactRetrieval ----------------------------
(***************************************************************************)
(* The knowledge of the fact-retrieval service (src/service.ts): facts     *)
(* that are written or submitted for review, their projection into the     *)
(* property graph by a timer, the queries that read both, and the          *)
(* extraction of facts from memories.                                      *)
(*                                                                         *)
(* Every statement is a step of its own; nothing runs in a transaction.    *)
(* One owner and one scope; a query matches every name, so that it answers *)
(* with all it may.  Documents only reach a query as chunks and are left   *)
(* out.  Redis, where it is used, holds what the memory holds.             *)
(***************************************************************************)
EXTENDS Naturals, FiniteSets

CONSTANTS
    Facts,          \* ids of facts
    Subject, Object,\* the names a fact relates
    Reviews,        \* calls of reviewFact
    Writes,         \* calls of writeFact, one each
    Queries,        \* calls of query, all with the same cache key
    Projections,    \* calls of applyPendingProjectionEvents
    Extractions,    \* calls of extractKnowledgeFromMemory
    Memories,       \* rows of memory_item
    BatchSize,      \* the LIMIT of a projection
    CacheTTL,       \* RETRIEVAL_CACHE_TTL_SEC
    QueryTime,      \* bound: how long a query takes
    MaxFactTime,    \* bound: the time
    MaxFactRestarts \* bound: restarts

ASSUME FactAssumption ==
    /\ BatchSize \in Nat \ {0}
    /\ CacheTTL \in Nat /\ QueryTime \in Nat /\ MaxFactTime \in Nat /\ MaxFactRestarts \in Nat

Names  == {Subject[f] : f \in Facts} \cup {Object[f] : f \in Facts}
Events == [kind: {"vertex", "edge"}, fact: Facts]

FactStatus == {"candidate", "active", "superseded", "rejected"}

IdleCall == [pc |-> "idle"]
EndedCall == [pc |-> "ended"]
NoEntry  == [until |-> 0, items |-> {}]

VARIABLES
    fact,       \* rows of fact: their status
    stamp,      \* and their updated_at
    time,
    entity,     \* names of the rows of entity
    event,      \* rows of projection_event
    projecting, \* what projectEntityFromFact still has to insert for a fact
    vertices,   \* names in the AGE graph
    edges,      \* facts whose edge is in the AGE graph
    review, creation, query, projection, extraction,   \* calls under way
    cached,     \* retrievalCache
    processed,  \* memories marked processed_for_extraction
    submitted,  \* history: facts that were submitted for review
    approved,   \* history: facts that a review approved
    lastActive, \* history: when a fact was last active
    dropped,    \* history: events whose drawing a repair of the graph lost
    covered,    \* history: memories a submitted fact was extracted from
    excused,    \* history: memories the model or a statement failed for
    restarted   \* history: restarts

table   == <<fact, stamp, submitted, approved, lastActive>>
graph   == <<vertices, edges, dropped>>
memory  == <<processed, covered, excused>>
factCalls   == <<review, creation, query, projection, extraction>>
factVars == <<table, graph, memory, factCalls, time, entity, event, projecting, cached,
              restarted>>

NotStamped == [at |-> 0, finer |-> FALSE]

FactInit ==
    /\ fact = [f \in Facts |-> "none"]
    /\ stamp = [f \in Facts |-> NotStamped]
    /\ time = 1
    /\ entity = {}
    /\ event = [e \in Events |-> "none"]
    /\ projecting = [f \in Facts |-> "no"]
    /\ vertices = {} /\ edges = {}
    /\ review = [r \in Reviews |-> IdleCall]
    /\ creation = [w \in Writes |-> IdleCall]
    /\ query = [q \in Queries |-> IdleCall]
    /\ projection = [p \in Projections |-> IdleCall]
    /\ extraction = [x \in Extractions |-> IdleCall]
    /\ cached = NoEntry
    /\ processed = {}
    /\ submitted = {} /\ approved = {} /\ dropped = {}
    /\ lastActive = [f \in Facts |-> 0]
    /\ covered = {} /\ excused = {}
    /\ restarted = 0

Unused == {f \in Facts : fact[f] = "none"}

\* A statement that sets updated_at to a Date: milliseconds.
SetStatus(f, s) ==
    /\ fact' = [fact EXCEPT ![f] = s]
    /\ stamp' = [stamp EXCEPT ![f] = [at |-> time, finer |-> FALSE]]
    /\ lastActive' = IF s = "active" \/ fact[f] = "active"
                     THEN [lastActive EXCEPT ![f] = time] ELSE lastActive

-----------------------------------------------------------------------------
(* Submission and review *)

\* The insert of submitUserFact; projectEntityFromFact is not awaited.
InsertCandidate(f) ==
    /\ f \in Unused
    /\ SetStatus(f, "candidate")
    /\ submitted' = submitted \cup {f}
    /\ projecting' = [projecting EXCEPT ![f] = "vertex"]
    /\ UNCHANGED approved

SubmitUserFact(f) ==
    /\ InsertCandidate(f)
    /\ UNCHANGED <<graph, memory, factCalls, time, entity, event, cached, restarted>>

\* projectEntityFromFact: the event of the vertex, then that of the edge; the
\* first one that fails ends it.
Project(f) ==
    /\ projecting[f] # "no"
    /\ \/ /\ event' = [event EXCEPT ![[kind |-> projecting[f], fact |-> f]] = "pending"]
          /\ projecting' = [projecting EXCEPT ![f] = IF @ = "vertex" THEN "edge" ELSE "no"]
       \/ /\ projecting' = [projecting EXCEPT ![f] = "no"]
          /\ UNCHANGED event
    /\ UNCHANGED <<table, graph, memory, factCalls, time, entity, cached, restarted>>

Outcome ==
    [action \in {"approve", "approve_shared", "approve_org", "reject", "return"} |->
        IF action = "reject" THEN "rejected"
        ELSE IF action = "return" THEN "candidate" ELSE "active"]

\* reviewFact up to its first answer: the row as it is, with updated_at read
\* to the millisecond.
ReviewRead(r) ==
    /\ review[r].pc = "idle"
    /\ \E f \in Facts \ Unused, s \in {Outcome[a] : a \in DOMAIN Outcome} :
          review' = [review EXCEPT ![r] = [pc |-> "write", fact |-> f, to |-> s,
                                           read |-> stamp[f].at]]
    /\ UNCHANGED <<table, graph, memory, creation, query, projection, extraction, time,
                   entity, event, projecting, cached, restarted>>

\* Its update, which applies only to the row with that updated_at.
ReviewWrite(r) ==
    LET f == review[r].fact IN
    /\ review[r].pc = "write"
    /\ review' = [review EXCEPT ![r] = IdleCall]
    /\ IF stamp[f] = [at |-> review[r].read, finer |-> FALSE]
       THEN /\ SetStatus(f, review[r].to)
            /\ approved' = IF review[r].to = "active" THEN approved \cup {f} ELSE approved
            /\ UNCHANGED submitted
       ELSE UNCHANGED table
    /\ UNCHANGED <<graph, memory, creation, query, projection, extraction, time, entity,
                   event, projecting, cached, restarted>>

-----------------------------------------------------------------------------
(* Writing *)

\* writeFact, its first statement: the target of a supersede.
WriteStart(w) ==
    /\ creation[w].pc = "idle"
    /\ creation' = [creation EXCEPT ![w] = [pc |-> "insert"]]
    /\ \/ UNCHANGED table
       \/ \E f \in Facts \ Unused :
             /\ SetStatus(f, "superseded")
             /\ UNCHANGED <<submitted, approved>>
    /\ UNCHANGED <<graph, memory, review, query, projection, extraction, time, entity,
                   event, projecting, cached, restarted>>

\* The insert, whose updated_at is the database's: microseconds, unless they
\* happen to be zero.  A failure ends the call.
WriteInsert(w) ==
    /\ creation[w].pc = "insert"
    /\ \/ \E f \in Unused, finer \in BOOLEAN :
             /\ fact' = [fact EXCEPT ![f] = "active"]
             /\ stamp' = [stamp EXCEPT ![f] = [at |-> time, finer |-> finer]]
             /\ lastActive' = [lastActive EXCEPT ![f] = time]
             /\ creation' = [creation EXCEPT ![w] = [pc |-> "graph", fact |-> f]]
             /\ UNCHANGED <<submitted, approved>>
       \/ /\ creation' = [creation EXCEPT ![w] = EndedCall]
          /\ UNCHANGED table
    /\ UNCHANGED <<graph, memory, review, query, projection, extraction, time, entity,
                   event, projecting, cached, restarted>>

\* upsertSqlGraphFromFact with ensureEntityNode, whose failure is only logged,
\* and projectEntityFromFact.
WriteGraph(w) ==
    LET f == creation[w].fact IN
    /\ creation[w].pc = "graph"
    /\ \E found \in {{}, {Subject[f]}, {Subject[f], Object[f]}} :
          entity' = entity \cup found
    /\ creation' = [creation EXCEPT ![w] = EndedCall]
    /\ projecting' = [projecting EXCEPT ![f] = "vertex"]
    /\ UNCHANGED <<table, graph, memory, review, query, projection, extraction, time,
                   event, cached, restarted>>

-----------------------------------------------------------------------------
(* The projection timer: one call may still run when the next one starts *)

Pending == {e \in Events : event[e] = "pending"}

ProjectionStart(p) ==
    /\ projection[p].pc = "idle"
    /\ Pending # {}
    /\ \E batch \in SUBSET Pending :
          /\ Cardinality(batch) = IF Cardinality(Pending) < BatchSize
                                  THEN Cardinality(Pending) ELSE BatchSize
          /\ projection' = [projection EXCEPT ![p] =
                               [pc |-> "draw", batch |-> batch, repaired |-> FALSE]]
    /\ UNCHANGED <<table, graph, memory, review, creation, query, extraction, time, entity,
                   event, projecting, cached, restarted>>

\* Vertices first.
NextOf(batch) ==
    IF \E e \in batch : e.kind = "vertex" THEN {e \in batch : e.kind = "vertex"} ELSE batch

\* What the statement of an event adds; an edge whose ends are not both there
\* adds nothing.
DrawnVertices(e, vs) == IF e.kind = "vertex" THEN vs \cup {Subject[e.fact]} ELSE vs

DrawnEdges(e, vs, es) ==
    IF e.kind = "edge" /\ {Subject[e.fact], Object[e.fact]} \subseteq vs
    THEN es \cup {e.fact} ELSE es

\* The events another call has drawn and not marked yet.
Unmarked == {projection[p].at : p \in {u \in Projections : projection[u].pc = "mark"}}

\* Its statement succeeds, or finds the graph broken, once, and is repeated on
\* a new and empty graph, or fails.
Draw(p) ==
    /\ projection[p].pc = "draw"
    /\ \E e \in NextOf(projection[p].batch) :
         LET Marking(repaired) == [pc |-> "mark", at |-> e, batch |-> projection[p].batch \ {e},
                                   repaired |-> repaired] IN
         \/ /\ vertices' = DrawnVertices(e, vertices)
            /\ edges' = DrawnEdges(e, vertices, edges)
            /\ projection' = [projection EXCEPT ![p] = Marking(projection[p].repaired)]
            /\ UNCHANGED dropped
         \/ /\ ~projection[p].repaired
            /\ vertices' = DrawnVertices(e, {})
            /\ edges' = {}
            /\ dropped' = dropped \cup Unmarked \cup {u \in Events : event[u] = "applied"}
            /\ projection' = [projection EXCEPT ![p] = Marking(TRUE)]
         \/ /\ projection' = [projection EXCEPT ![p].batch = @ \ {e}]
            /\ UNCHANGED graph
    /\ UNCHANGED <<table, memory, review, creation, query, extraction, time, entity, event,
                   projecting, cached, restarted>>

MutatedMark(p) ==
    /\ projection[p].pc = "mark"
    /\ \E e \in {projection[p].at} \cup projection[p].batch :
          event' = [event EXCEPT ![e] = "applied"]
    /\ projection' = [projection EXCEPT ![p] =
                         [pc |-> "draw", batch |-> @.batch, repaired |-> @.repaired]]
    /\ UNCHANGED <<table, graph, memory, review, creation, query, extraction, time, entity,
                   projecting, cached, restarted>>

\* The update of applied, or its failure.
Mark(p) ==
    /\ projection[p].pc = "mark"
    /\ \/ event' = [event EXCEPT ![projection[p].at] = "applied"]
       \/ UNCHANGED event
    /\ projection' = [projection EXCEPT ![p] =
                         [pc |-> "draw", batch |-> @.batch, repaired |-> @.repaired]]
    /\ UNCHANGED <<table, graph, memory, review, creation, query, extraction, time, entity,
                   projecting, cached, restarted>>

ProjectionEnd(p) ==
    /\ projection[p].pc = "draw" /\ projection[p].batch = {}
    /\ projection' = [projection EXCEPT ![p] = IdleCall]
    /\ UNCHANGED <<table, graph, memory, review, creation, query, extraction, time, entity,
                   event, projecting, cached, restarted>>

-----------------------------------------------------------------------------
(* Queries *)

ActiveFacts == {f \in Facts : fact[f] = "active"}

Item(f, id) == [fact |-> f, id |-> id]

\* runAgeCypherQuery: the edges themselves, without an id, and the active
\* facts about the names they connect.
CypherItems ==
    {Item(f, FALSE) : f \in edges}
    \cup {Item(f, TRUE) : f \in {a \in ActiveFacts : \E d \in edges :
                                    Subject[a] \in {Subject[d], Object[d]}}}

\* runSqlGraphQuery: active facts about a name that has an entity row.
SqlItems == {Item(f, TRUE) : f \in {a \in ActiveFacts : Subject[a] \in entity}}

\* runGraphQuery: the SQL graph where AGE finds nothing or fails.
GraphItems == {SqlItems} \cup (IF CypherItems = {} THEN {} ELSE {CypherItems})

\* Of what the graph steps returned, only what has an id is kept; the wide
\* candidates only seed the graph.
Candidates(items) == {i \in items : i.id}

MutatedUsable == cached # NoEntry

\* checkCache
Usable == cached # NoEntry /\ cached.until > time

\* What a reply shows is recorded with the time of the reply.
Replied(items) == [pc |-> "replied", items |-> items, at |-> time]

\* query, from the cache or up to what its graph steps read.
QueryStart(q) ==
    /\ query[q].pc = "idle"
    /\ \/ /\ Usable
          /\ query' = [query EXCEPT ![q] = Replied(cached.items)]
          /\ UNCHANGED cached
       \/ /\ ~Usable
          /\ cached' = NoEntry
          /\ \E items \in GraphItems :
                query' = [query EXCEPT ![q] = [pc |-> "trace", since |-> time,
                                               items |-> Candidates(items)]]
    /\ UNCHANGED <<table, graph, memory, review, creation, projection, extraction, time,
                   entity, event, projecting, restarted>>

\* The row of retrieval_trace is inserted, the answer cached and sent; or the
\* insert fails and the query with it.
QueryEnd(q) ==
    /\ query[q].pc = "trace"
    /\ \/ /\ query' = [query EXCEPT ![q] = Replied(@.items)]
          /\ cached' = [until |-> time + CacheTTL, items |-> query[q].items]
       \/ /\ query' = [query EXCEPT ![q] = IdleCall]
          /\ UNCHANGED cached
    /\ UNCHANGED <<table, graph, memory, review, creation, projection, extraction, time,
                   entity, event, projecting, restarted>>

QueryAgain(q) ==
    /\ query[q].pc = "replied"
    /\ query' = [query EXCEPT ![q] = IdleCall]
    /\ UNCHANGED <<table, graph, memory, review, creation, projection, extraction, time,
                   entity, event, projecting, cached, restarted>>

-----------------------------------------------------------------------------
(* Extraction *)

\* extractKnowledgeFromMemory: the memories not yet processed.
ExtractRead(x) ==
    /\ extraction[x].pc = "idle"
    /\ Memories \ processed # {}
    /\ extraction' = [extraction EXCEPT ![x] = [pc |-> "ask", read |-> Memories \ processed]]
    /\ UNCHANGED <<table, graph, memory, review, creation, query, projection, time, entity,
                   event, projecting, cached, restarted>>

\* tryExtractViaLLM answers; what it found is submitted, and whether or not
\* anything was found and could be submitted, the memories are marked.
ExtractSubmit(x) ==
    /\ extraction[x].pc = "ask"
    /\ extraction' = [extraction EXCEPT ![x].pc = "mark"]
    /\ \/ /\ \E f \in Facts : InsertCandidate(f)
          /\ covered' = covered \cup extraction[x].read
          /\ UNCHANGED excused
       \/ /\ excused' = excused \cup extraction[x].read
          /\ UNCHANGED <<table, projecting, covered>>
    /\ UNCHANGED <<processed, graph, review, creation, query, projection, time, entity,
                   event, cached, restarted>>

\* One memory after the other is marked, or the statement fails.
ExtractMark(x) ==
    /\ extraction[x].pc = "mark"
    /\ IF extraction[x].read = {}
       THEN extraction' = [extraction EXCEPT ![x] = IdleCall] /\ UNCHANGED processed
       ELSE \E m \in extraction[x].read :
              /\ extraction' = [extraction EXCEPT ![x].read = @ \ {m}]
              /\ \/ processed' = processed \cup {m}
                 \/ UNCHANGED processed
    /\ UNCHANGED <<covered, excused, table, graph, review, creation, query, projection, time,
                   entity, event, projecting, cached, restarted>>

-----------------------------------------------------------------------------
(* Time and restarts *)

ClockTicks ==
    /\ time < MaxFactTime
    /\ \A q \in Queries : query[q].pc = "trace" => time < query[q].since + QueryTime
    /\ time' = time + 1
    /\ lastActive' = [f \in Facts |-> IF fact[f] = "active" THEN time' ELSE lastActive[f]]
    /\ UNCHANGED <<fact, stamp, submitted, approved, graph, memory, factCalls, entity, event,
                   projecting, cached, restarted>>

FactRestart ==
    /\ restarted < MaxFactRestarts
    /\ restarted' = restarted + 1
    /\ projecting' = [f \in Facts |-> "no"]
    /\ review' = [r \in Reviews |-> IdleCall]
    /\ creation' = [w \in Writes |-> IF creation[w] = IdleCall THEN IdleCall ELSE EndedCall]
    /\ query' = [q \in Queries |-> IdleCall]
    /\ projection' = [p \in Projections |-> IdleCall]
    /\ extraction' = [x \in Extractions |-> IdleCall]
    /\ cached' = NoEntry
    /\ UNCHANGED <<table, graph, memory, time, entity, event>>

FactNext ==
    \/ \E f \in Facts : SubmitUserFact(f) \/ Project(f)
    \/ \E r \in Reviews : ReviewRead(r) \/ ReviewWrite(r)
    \/ \E w \in Writes : WriteStart(w) \/ WriteInsert(w) \/ WriteGraph(w)
    \/ \E p \in Projections :
          ProjectionStart(p) \/ Draw(p) \/ Mark(p) \/ ProjectionEnd(p)
    \/ \E q \in Queries : QueryStart(q) \/ QueryEnd(q) \/ QueryAgain(q)
    \/ \E x \in Extractions : ExtractRead(x) \/ ExtractSubmit(x) \/ ExtractMark(x)
    \/ ClockTicks
    \/ FactRestart

FactSpec == FactInit /\ [][FactNext]_factVars

-----------------------------------------------------------------------------
(* Properties *)

\* What was submitted is projected into the graph before anyone reviews it,
\* and its text is found there; but no answer shows it before a review
\* approved it.
UnreviewedNeverShown ==
    \A q \in Queries : query[q].pc = "replied" =>
        \A i \in query[q].items : i.fact \in submitted => i.fact \in approved

\* A fact that was rejected, returned or superseded is shown no longer than
\* the cache and the slowest query allow, whichever of two racing queries
\* wrote the cache.
StaleBounded ==
    \A q \in Queries : query[q].pc = "replied" =>
        \A i \in query[q].items : query[q].at <= lastActive[i.fact] + CacheTTL + QueryTime

\* An event is marked applied only when its vertex was drawn: failed
\* statements, restarts and overlapping calls draw it twice rather than never.
\* A repair of the graph does lose what was drawn before.
AppliedIsDrawn ==
    \A e \in Events :
        event[e] = "applied" /\ e.kind = "vertex" /\ e \notin dropped
            => Subject[e.fact] \in vertices

\* A memory is only marked processed after what the model found in it was
\* submitted, unless the model or the submission failed: a restart between
\* the steps loses nothing.
ExtractedOrKept == processed \subseteq covered \cup excused

\* What an answer shows has been reviewed and is still held, within those
\* bounds, although the graph, the cache and the queries run ahead or behind.
AnswersReviewed == UnreviewedNeverShown /\ StaleBounded

\* What waits to be drawn or extracted is not lost between two steps.
NothingSkipped == AppliedIsDrawn /\ ExtractedOrKept

=============================================================================
