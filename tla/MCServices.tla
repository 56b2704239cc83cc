------------------------------ MODULE MCServices ------------------------------
(***************************************************************************)
(* Small instances of what the other services keep: channel messages of    *)
(* the gateway, the rounds of an organisation task, the quotas, and what   *)
(* the system knows, its facts and skills.  They share no state, so a      *)
(* behaviour exercises one, some of them with a focus.                     *)
(***************************************************************************)
EXTENDS GatewayIngress, OrgTasks, ResourceQuota, FactRetrieval, SkillReview

CONSTANTS d1, d2, d3, workflows, calls, f1, f2, n1, n2

\* Two deliveries of one Feishu event and one of a WeCom event.
MCEventOf == d1 :> "a" @@ d2 :> "a" @@ d3 :> "b"

MCSubject == f1 :> n1 @@ f2 :> n2
MCObject  == f1 :> n2 @@ f2 :> n1

VARIABLE focus

\* Deliveries race with the clock, failing handlers and a restart.
ArrivalSteps ==
    \/ \E d \in Deliveries :
          \/ Receive(d) \/ DropEvent(d) \/ TakeEvent(d) \/ LetIn(d) \/ Classify(d)
          \/ Throw(d) \/ Reply(d)
    \/ IngressTick
    \/ Reboot

\* Two messages become workflows.
WorkflowSteps ==
    \/ \E d \in {d1, d3} :
          \/ Receive(d) \/ TakeEvent(d) \/ LetIn(d) \/ Classify(d) \/ Plan(d)
          \/ Dispatch(d) \/ Reply(d) \/ Poll(d)
    \/ \E r \in Refs : RunEnds(r)
    \/ Reboot

ReviewSteps == \E r \in Reviews : ReviewRead(r) \/ ReviewWrite(r)

\* Racing queries around the expiry of the cache, with facts that come and go.
TimeSteps ==
    \/ ReviewSteps
    \/ \E w \in Writes : WriteStart(w) \/ WriteInsert(w) \/ WriteGraph(w)
    \/ \E q \in Queries : QueryStart(q) \/ QueryEnd(q) \/ QueryAgain(q)
    \/ ClockTicks

\* Submitted facts on their way through the graph to a query, up to one
\* approval.
GraphSteps ==
    \/ \E f \in Facts : SubmitUserFact(f) \/ Project(f)
    \/ \E p \in Projections :
          ProjectionStart(p) \/ Draw(p) \/ Mark(p) \/ ProjectionEnd(p)
    \/ approved = {} /\ ReviewSteps
    \/ \E q \in {CHOOSE q \in Queries : TRUE} : QueryStart(q) \/ QueryEnd(q)

MemorySteps ==
    \/ \E x \in Extractions : ExtractRead(x) \/ ExtractSubmit(x) \/ ExtractMark(x)
    \/ FactRestart

knowledgeVars == <<factVars, skillVars>>

ServicesInit ==
    /\ focus \in {"arrival", "workflow", "task", "quota",
                  "facts in time", "facts drawn", "memories", "skills"}
    /\ IngressInit
    /\ TaskInit
    /\ Init
    /\ FactInit
    /\ SkillInit

EdgesNext ==
    \/ focus = "arrival" /\ ArrivalSteps /\ UNCHANGED <<taskVars, vars>>
    \/ focus = "workflow" /\ WorkflowSteps /\ UNCHANGED <<taskVars, vars>>
    \/ focus = "task" /\ TaskNext /\ UNCHANGED <<ingressVars, vars>>
    \/ focus = "quota" /\ Next /\ UNCHANGED <<ingressVars, taskVars>>

KnowledgeNext ==
    \/ focus = "facts in time" /\ TimeSteps /\ UNCHANGED skillVars
    \/ focus = "facts drawn" /\ GraphSteps /\ UNCHANGED skillVars
    \/ focus = "memories" /\ MemorySteps /\ UNCHANGED skillVars
    \/ focus = "skills" /\ SkillNext /\ UNCHANGED factVars

ServicesNext ==
    /\ UNCHANGED focus
    /\ \/ EdgesNext /\ UNCHANGED knowledgeVars
       \/ KnowledgeNext /\ UNCHANGED <<ingressVars, taskVars, vars>>

ServicesSpec ==
    ServicesInit /\ [][ServicesNext]_<<ingressVars, taskVars, vars, knowledgeVars, focus>>

=============================================================================
