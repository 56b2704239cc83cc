---------------------------- MODULE GatewayIngress ----------------------------
(***************************************************************************)
(* Channel messages in the gateway adapter                                 *)
(* (apps/gateway-adapter/src/index.ts): an event of Feishu or WeCom is     *)
(* checked against the cache of events seen, counted, classified, perhaps  *)
(* turned into a workflow that is planned and dispatched over HTTP with    *)
(* retries, and answered; the result of a workflow is polled for.          *)
(*                                                                         *)
(* All of it is memory of one process: a restart forgets the cache, the    *)
(* messages under way and the polls.  A Feishu event was answered with 200 *)
(* before it is looked at, a WeCom event is answered after its handling.   *)
(***************************************************************************)
EXTENDS Integers, Functions

CONSTANTS
    Deliveries,     \* times a platform delivers an event
    EventOf,        \* the event of a delivery
    Wecom,          \* the deliveries of WeCom; the others are of Feishu
    MaxConcurrency, \* MAX_FEISHU_EVENT_CONCURRENCY
    MaxInflight,    \* MAX_INFLIGHT_REQUESTS
    PlanTries, DispatchTries,   \* one more than the retries of postJson
    Polls,          \* WORKFLOW_POLL_MAX_ITERATIONS
    DedupeTTL, SweepInterval,   \* in ticks of the clock
    MaxTicks,       \* bound: ticks
    MaxReboots      \* bound: restarts of the gateway

ASSUME IngressAssumption ==
    /\ EventOf \in [Deliveries -> STRING]
    /\ Wecom \subseteq Deliveries
    /\ {MaxConcurrency, MaxInflight, PlanTries, DispatchTries, Polls, DedupeTTL,
        SweepInterval} \subseteq Nat \ {0}
    /\ MaxTicks \in Nat /\ MaxReboots \in Nat

\* Every plan request of a delivery that reaches the service makes a workflow.
Refs  == Deliveries \X (1..PlanTries)
NoRef == <<>>

VARIABLES
    ticks,
    seen,       \* dedupeCache: when an event was marked
    lastSweep,  \* dedupeLastSweepAt
    concurrency,    \* feishuEventConcurrency
    inflight,       \* inflightCounter
    handler,    \* per delivery: what is done of it
    poll,       \* per delivery: the poll its handler started
    workflow,   \* external: the workflows of the workflow service
    reported,   \* deliveries whose result, or the end of the poll, was sent
    reboots

ingressVars == <<ticks, seen, lastSweep, concurrency, inflight, handler, poll, workflow,
                 reported, reboots>>

NoPoll == [ref |-> NoRef, left |-> 0]
Fresh  == [pc |-> "waiting", left |-> 0, ref |-> NoRef, at |-> 0, boot |-> 0]

\* A handler inside processIncomingText, and one that holds a place of Feishu.
Processing(d) == handler[d].pc \in {"classifying", "planning", "dispatching"}
Handling(d)   == Processing(d) \/ handler[d].pc \in {"resolving", "replying"}

IngressInit ==
    /\ ticks = 0
    /\ seen = <<>>
    /\ lastSweep = 0
    /\ concurrency = 0
    /\ inflight = 0
    /\ handler = [d \in Deliveries |-> Fresh]
    /\ poll = [d \in Deliveries |-> NoPoll]
    /\ workflow = [r \in Refs |-> "none"]
    /\ reported = {}
    /\ reboots = 0

-----------------------------------------------------------------------------
(* An event arrives *)

\* sweepDedupeCache, at most once in an interval.
SweepDue == ticks - lastSweep >= SweepInterval
MutatedSwept ==
    IF SweepDue
    THEN Restrict(seen, {e \in DOMAIN seen : seen[e] >= ticks - SweepInterval + 1})
    ELSE seen

Swept    == IF SweepDue
            THEN Restrict(seen, {e \in DOMAIN seen : seen[e] >= ticks - DedupeTTL})
            ELSE seen

\* checkAndSetDedupe; its second sweep, for a full cache, never does anything.
Duplicate(e) == e \in DOMAIN seen /\ ticks - seen[e] < DedupeTTL

CheckAndSet(e) ==
    /\ lastSweep' = IF SweepDue THEN ticks ELSE lastSweep
    /\ seen' = IF Duplicate(e) THEN Swept
               ELSE [m \in DOMAIN Swept \cup {e} |-> IF m = e THEN ticks ELSE Swept[m]]

\* The answer of the Feishu webhook, or of the long connection: the event is
\* left to setImmediate.
Receive(d) ==
    /\ d \notin Wecom
    /\ handler[d].pc = "waiting"
    /\ handler' = [handler EXCEPT ![d].pc = "received"]
    /\ UNCHANGED <<ticks, seen, lastSweep, concurrency, inflight, poll, workflow,
                   reported, reboots>>

\* Over the limit an event is dropped before it is marked.
DropEvent(d) ==
    /\ handler[d].pc = "received"
    /\ concurrency >= MaxConcurrency
    /\ handler' = [handler EXCEPT ![d].pc = "dropped"]
    /\ UNCHANGED <<ticks, seen, lastSweep, concurrency, inflight, poll, workflow,
                   reported, reboots>>

\* handleFeishuEvent up to its first await, or the WeCom webhook.
TakeEvent(d) ==
    LET fresh == ~Duplicate(EventOf[d]) IN
    /\ IF d \in Wecom
       THEN handler[d].pc = "waiting"
       ELSE handler[d].pc = "received" /\ concurrency < MaxConcurrency
    /\ CheckAndSet(EventOf[d])
    /\ handler' = [handler EXCEPT ![d] =
                     IF fresh
                     THEN [@ EXCEPT !.pc = "resolving", !.at = ticks, !.boot = reboots]
                     ELSE [@ EXCEPT !.pc = "duplicate"]]
    /\ concurrency' = IF fresh /\ d \notin Wecom THEN concurrency + 1 ELSE concurrency
    /\ UNCHANGED <<ticks, inflight, poll, workflow, reported, reboots>>

-----------------------------------------------------------------------------
(* The message of an event *)

\* processIncomingText returns: its finally gives the place back.
Return(d, ref) ==
    /\ handler' = [handler EXCEPT ![d].pc = "replying", ![d].ref = ref]
    /\ inflight' = inflight - 1

\* The sender is known, and the message is let in or told to come back.
LetIn(d) ==
    /\ handler[d].pc = "resolving"
    /\ IF inflight >= MaxInflight
       THEN /\ handler' = [handler EXCEPT ![d].pc = "replying"]
            /\ UNCHANGED inflight
       ELSE /\ handler' = [handler EXCEPT ![d].pc = "classifying"]
            /\ inflight' = inflight + 1
    /\ UNCHANGED <<ticks, seen, lastSweep, concurrency, poll, workflow, reported, reboots>>

\* A chat, a lookup or knowledge is answered, a task refused for its sender,
\* quota or policy; any other task is planned.
Classify(d) ==
    /\ handler[d].pc = "classifying"
    /\ \/ Return(d, NoRef)
       \/ /\ handler' = [handler EXCEPT ![d].pc = "planning", ![d].left = PlanTries]
          /\ UNCHANGED inflight
    /\ UNCHANGED <<ticks, seen, lastSweep, concurrency, poll, workflow, reported, reboots>>

\* One request of postJson: it reaches the service or not, and then is
\* answered, is refused or times out, or its connection breaks.
Outcomes == [reached : BOOLEAN, answer : {"ok", "none", "broken"}]

\* Only a broken connection is tried again.
Retried(d, o) == o.answer = "broken" /\ handler[d].left > 1

TryAgain(d) ==
    /\ handler' = [handler EXCEPT ![d].left = @ - 1]
    /\ UNCHANGED inflight

Plan(d) ==
    LET ref == <<d, PlanTries - handler[d].left + 1>> IN
    /\ handler[d].pc = "planning"
    /\ \E o \in Outcomes :
          /\ o.answer = "ok" => o.reached
          /\ workflow' = IF o.reached THEN [workflow EXCEPT ![ref] = "planned"] ELSE workflow
          /\ \/ /\ o.answer = "ok"
                /\ handler' = [handler EXCEPT ![d].pc = "dispatching", ![d].ref = ref,
                                              ![d].left = DispatchTries]
                /\ UNCHANGED inflight
             \/ Retried(d, o) /\ TryAgain(d)
             \/ o.answer # "ok" /\ ~Retried(d, o) /\ Return(d, NoRef)
    /\ UNCHANGED <<ticks, seen, lastSweep, concurrency, poll, reported, reboots>>

\* What the handler goes on with: the reference, whatever became of the request.
GoesOnWith(ref, o) == ref

\* The service takes only a planned workflow.
Dispatch(d) ==
    LET ref == handler[d].ref IN
    /\ handler[d].pc = "dispatching"
    /\ \E o \in Outcomes :
          /\ o.answer = "ok" => o.reached /\ workflow[ref] = "planned"
          /\ workflow' = IF o.reached /\ workflow[ref] = "planned"
                         THEN [workflow EXCEPT ![ref] = "running"]
                         ELSE workflow
          /\ IF Retried(d, o) THEN TryAgain(d) ELSE Return(d, GoesOnWith(ref, o))
    /\ UNCHANGED <<ticks, seen, lastSweep, concurrency, poll, reported, reboots>>

\* The handler throws: no reply, and its event stays marked.
Throw(d) ==
    /\ handler[d].pc \in {"resolving", "classifying"}
    /\ handler' = [handler EXCEPT ![d].pc = "thrown"]
    /\ inflight' = IF Processing(d) THEN inflight - 1 ELSE inflight
    /\ concurrency' = IF d \in Wecom THEN concurrency ELSE concurrency - 1
    /\ UNCHANGED <<ticks, seen, lastSweep, poll, workflow, reported, reboots>>

\* The reply was sent, or could not be: a task is polled for from now on.
Polled(d) == handler[d].ref # NoRef

Reply(d) ==
    /\ handler[d].pc = "replying"
    /\ handler' = [handler EXCEPT ![d].pc = "done"]
    /\ poll' = IF Polled(d)
               THEN [poll EXCEPT ![d] = [ref |-> handler[d].ref, left |-> Polls]]
               ELSE poll
    /\ concurrency' = IF d \in Wecom THEN concurrency ELSE concurrency - 1
    /\ UNCHANGED <<ticks, seen, lastSweep, inflight, workflow, reported, reboots>>

-----------------------------------------------------------------------------
(* The result of a workflow *)

\* One round of pollAndReplyWorkflowResult: the status is final and sent, or
\* is not, or could not be had; after the last round the poll says it gave up.
Poll(d) ==
    LET p == poll[d] IN
    /\ p # NoPoll
    /\ \/ /\ workflow[p.ref] \in {"succeeded", "failed"}
          /\ poll' = [poll EXCEPT ![d] = NoPoll]
          /\ reported' = reported \cup {d}
       \/ /\ p.left > 1
          /\ poll' = [poll EXCEPT ![d].left = @ - 1]
          /\ UNCHANGED reported
       \/ /\ p.left = 1
          /\ poll' = [poll EXCEPT ![d] = NoPoll]
          /\ reported' = reported \cup {d}
    /\ UNCHANGED <<ticks, seen, lastSweep, concurrency, inflight, handler, workflow, reboots>>

\* External: a run ends.
RunEnds(r) ==
    /\ workflow[r] = "running"
    /\ \E s \in {"succeeded", "failed"} : workflow' = [workflow EXCEPT ![r] = s]
    /\ UNCHANGED <<ticks, seen, lastSweep, concurrency, inflight, handler, poll, reported,
                   reboots>>

-----------------------------------------------------------------------------
IngressTick ==
    /\ ticks < MaxTicks
    /\ ticks' = ticks + 1
    /\ UNCHANGED <<seen, lastSweep, concurrency, inflight, handler, poll, workflow,
                   reported, reboots>>

Reboot ==
    /\ reboots < MaxReboots
    /\ reboots' = reboots + 1
    /\ seen' = <<>>
    /\ lastSweep' = 0
    /\ concurrency' = 0
    /\ inflight' = 0
    /\ handler' = [d \in Deliveries |->
                     IF Handling(d) THEN [handler[d] EXCEPT !.pc = "lost"]
                     ELSE IF handler[d].pc = "received"
                     THEN [handler[d] EXCEPT !.pc = "dropped"]
                     ELSE handler[d]]
    /\ poll' = [d \in Deliveries |-> NoPoll]
    /\ UNCHANGED <<ticks, workflow, reported>>

IngressNext ==
    \/ \E d \in Deliveries :
          \/ Receive(d) \/ DropEvent(d) \/ TakeEvent(d) \/ LetIn(d) \/ Classify(d)
          \/ Plan(d) \/ Dispatch(d) \/ Throw(d) \/ Reply(d) \/ Poll(d)
    \/ \E r \in Refs : RunEnds(r)
    \/ IngressTick
    \/ Reboot

IngressSpec == IngressInit /\ [][IngressNext]_ingressVars

-----------------------------------------------------------------------------
(* Properties *)

\* The event of the delivery was let in.
Taken(d) == handler[d].pc \notin {"waiting", "received", "dropped", "duplicate"}

\* Within the time to live an event is handled at most once by a process,
\* although it is delivered again and the cache is swept meanwhile.
HandledOnce ==
    \A d1, d2 \in {d \in Deliveries : Taken(d)} :
        /\ d1 # d2
        /\ EventOf[d1] = EventOf[d2]
        /\ handler[d1].boot = handler[d2].boot
        => handler[d1].at - handler[d2].at \notin (1 - DedupeTTL)..(DedupeTTL - 1)

\* A workflow that runs for a message, although its sender may have been told
\* that the dispatch failed, is followed: its handler has still to start the
\* poll, the poll goes on, or its end was reported.  A restart forgets it.
RunIsFollowed ==
    \A r \in Refs :
        LET d == r[1] IN
        workflow[r] \in {"running", "succeeded", "failed"} /\ handler[d].boot = reboots
            => \/ handler[d].pc \in {"dispatching", "replying"}
               \/ poll[d].ref = r
               \/ d \in reported

\* What a channel delivers again, late or beside a restart is neither handled
\* twice nor left running unseen.
DeliveredOnce == HandledOnce /\ RunIsFollowed

=============================================================================
