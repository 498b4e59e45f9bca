----------------------------- MODULE GatedServices -----------------------------
(***************************************************************************)
(* The programs of the starter kits that sit on top of the gate: the REST  *)
(* server with its history of decisions, a route behind the Express        *)
(* middleware, the scenarios of an agent that runs a tool if the gate      *)
(* allows it, and the fraud triage with its file-backed audit log.  They   *)
(* are programs of their own, of which a behaviour runs one.  A handler is *)
(* synchronous once the body of its request has been read; bodies arrive   *)
(* in any order.  What a route does once next() is called is not part of   *)
(* the repository.  The names that every specification has are Services... *)
(* here, as the proofs are in one module with those about JobQueue.        *)
(***************************************************************************)
EXTENDS GatedProgram, ReleaseConditions, FiniteSets

TOOLS == {"escalate_case", "apply_hold", "send_notification"}

CONSTANTS
    Bodies,       \* the requests that clients post to a server
    AgentCalls,   \* what agents ask for: [tool, request]
    RiskScores,   \* the scores of the transactions, in tenths of a point
    MaxPosts, MaxRouted, MaxRuns, MaxTriaged  \* bounds for model checking

ASSUME ServicesAssumption ==
    /\ Bodies \subseteq GovernedRequestType
    /\ AgentCalls \subseteq [tool : TOOLS, request : GovernedRequestType]
    /\ RiskScores \subseteq Int
    /\ {MaxPosts, MaxRouted, MaxRuns, MaxTriaged} \subseteq Nat

VARIABLES
    program,          \* the program that runs
    posts,            \* the handlers of the REST server that wait for their body
    decisionHistory,  \* the bundles of the REST server: [request, decision]
    answers,          \* what it answered: [requestId, finalState], status 200
    routed,           \* how the middleware ended: [request, status], where the
                      \* status "next" says that the route goes on
    toolRuns,         \* the scenarios of the agent: [request, toolResult]
    triaged           \* the calls of the fraud triage: [riskScore, request, decision],
                      \* where the decision of a call that threw is Threw

rest  == <<posts, decisionHistory, answers>>
calls == <<routed, toolRuns>>

servicesVars == <<program, gate, log, rest, calls, triaged>>

\* new ExecutionGateService(): no configuration and no policy pack.
DefaultGate ==
    [extendedClasses |-> {}, extendedActions |-> {},
     actorMappings   |-> [c \in AuthorityLabels |-> Absent],
     workflowRules   |-> <<>>,
     approvalChains  |-> [w \in WorkflowLabels |-> Absent],
     actionPolicies  |-> [w \in WorkflowLabels |-> [a \in ActionLabels |-> Absent]]]

ServicesInit ==
    /\ \/ program \in {"rest-api", "express", "fraud-workflow"} /\ gate \in Gates
       \/ program = "agent-gate" /\ gate = DefaultGate
    /\ log = <<>>
    /\ posts = <<>> /\ decisionHistory = <<>> /\ answers = <<>>
    /\ routed = <<>> /\ toolRuns = <<>>
    /\ triaged = <<>>

--------------------------------------------------------------------------------
(* The REST server, whose audit log is in memory and does not fail *)

Post(request) ==
    /\ program = "rest-api"
    /\ Len(answers) + Len(posts) < MaxPosts
    /\ posts' = Append(posts, request)
    /\ UNCHANGED <<program, gate, log, decisionHistory, answers, calls, triaged>>

\* The handlers that wait once the ith has its body.
Waiting(i) == SubSeq(posts, 1, i - 1) \o SubSeq(posts, i + 1, Len(posts))

\* The connection breaks, or the body is no JSON: status 400.
BodyFails(i) ==
    /\ posts' = Waiting(i)
    /\ UNCHANGED <<program, gate, log, decisionHistory, answers, calls, triaged>>

\* Mutant: a later decision takes the place of an earlier one.
Evaluate_Replaces(i) ==
    LET request == posts[i]
        result  == evaluate(gate, request)
        bundle  == [request |-> request, decision |-> result]
    IN  /\ posts' = Waiting(i)
        /\ IF result = Threw
           THEN UNCHANGED <<log, decisionHistory, answers>>
           ELSE /\ log' = Recorded(request, result)
                /\ decisionHistory' =
                      SelectSeq(decisionHistory,
                                LAMBDA b : b.request.requestId # request.requestId)
                      \o <<bundle>>
                /\ answers' = Append(answers, [requestId |-> request.requestId,
                                               finalState |-> result.finalState])
    /\ UNCHANGED <<program, gate, calls, triaged>>

\* A call of evaluate that throws is answered by status 400.
Evaluate(i) ==
    LET request == posts[i]
        result  == evaluate(gate, request)
        bundle  == [request |-> request, decision |-> result]
    IN  /\ posts' = Waiting(i)
        /\ IF result = Threw
           THEN UNCHANGED <<log, decisionHistory, answers>>
           ELSE /\ log' = Recorded(request, result)
                /\ decisionHistory' = Append(decisionHistory, bundle)
                /\ answers' = Append(answers, [requestId |-> request.requestId,
                                               finalState |-> result.finalState])
    /\ UNCHANGED <<program, gate, calls, triaged>>

\* Mutant: the newest decision is found.
GetDecision_Newest(requestId) ==
    LET found == {i \in DOMAIN decisionHistory :
                     decisionHistory[i].request.requestId = requestId}
    IN  IF found = {} THEN Null
        ELSE decisionHistory[CHOOSE i \in found : \A j \in found : i >= j]

\* GET /decisions/:requestId, with Null for status 404.
GetDecision(requestId) ==
    LET found == {i \in DOMAIN decisionHistory :
                     decisionHistory[i].request.requestId = requestId}
    IN  IF found = {} THEN Null
        ELSE decisionHistory[CHOOSE i \in found : \A j \in found : i <= j]

--------------------------------------------------------------------------------
(* The middleware *)

StatusOf(result) ==
    CASE result.finalState = "ALLOW"  -> "next"
      [] result.finalState = "REJECT" -> "403"
      [] result.finalState = "HOLD"   -> "202"

Routed(request, status) ==
    routed' = Append(routed, [request |-> request, status |-> status])

\* The call of evaluate throws: status 422, and nothing is recorded.
GateThrows(request) ==
    /\ program = "express" /\ Len(routed) < MaxRouted
    /\ evaluate(gate, request) = Threw
    /\ Routed(request, "422")
    /\ UNCHANGED <<program, gate, log, toolRuns, rest, triaged>>

\* Mutant: the evidence is recorded within the try block, whose exceptions are
\* taken for those of an evidence service that may be missing.
RecordThrows_GoesOn(request) ==
    LET result == evaluate(gate, request)
    IN  /\ program = "express" /\ Len(routed) < MaxRouted
        /\ result # Threw
        /\ \E n \in 0 .. (Len(Events(result)) - 1) :
              log' = RecordedUpTo(request, result, n)
        /\ Routed(request, StatusOf(result))
        /\ UNCHANGED <<program, gate, toolRuns, rest, triaged>>

\* createBundle is outside the try block: an exception of its nth append leaves
\* the middleware, and the framework answers with status 500.
RecordThrows(request) ==
    LET result == evaluate(gate, request)
    IN  /\ program = "express" /\ Len(routed) < MaxRouted
        /\ result # Threw
        /\ \E n \in 0 .. (Len(Events(result)) - 1) :
              log' = RecordedUpTo(request, result, n)
        /\ Routed(request, "500")
        /\ UNCHANGED <<program, gate, toolRuns, rest, triaged>>

\* The bundle is complete: next() for ALLOW, an answer otherwise (no onHold).
Decide(request) ==
    LET result == evaluate(gate, request)
    IN  /\ program = "express" /\ Len(routed) < MaxRouted
        /\ result # Threw
        /\ log' = Recorded(request, result)
        /\ Routed(request, StatusOf(result))
        /\ UNCHANGED <<program, gate, toolRuns, rest, triaged>>

cerbaSealGate(request) == GateThrows(request) \/ RecordThrows(request) \/ Decide(request)

--------------------------------------------------------------------------------
(* The agent: a gate and a tool, no middleware and no evidence *)

\* The result alone decides; which tool it is for makes no difference.
executeIfAuthorized(toolName, result) ==
    LET released == result.finalState = "ALLOW" /\ result.releaseAuthorization # Null
    IN  [toolName |-> toolName, executed |-> released,
         releaseAuthorizationId |-> IF released THEN result.requestId ELSE Absent]

\* A scenario evaluates its request and hands the result to its tool; an
\* exception of evaluate ends it before.
runAgentScenario(call) ==
    LET result == evaluate(gate, call.request)
    IN  /\ program = "agent-gate" /\ Len(toolRuns) < MaxRuns
        /\ result # Threw
        /\ toolRuns' = Append(toolRuns,
               [request    |-> call.request,
                toolResult |-> executeIfAuthorized(call.tool, result)])
        /\ UNCHANGED <<program, gate, log, routed, rest, triaged>>

--------------------------------------------------------------------------------
(* The fraud triage *)

Points(n) == 10 * n

asks(action, approverClass) ==
    [action |-> action, approvalRequired |-> approverClass # Null,
     approverClass |-> approverClass]

\* Mutant: a compliance officer is asked only above the limit.
classifyRisk_Above80(riskScore) ==
    IF riskScore < Points(50) THEN asks("allow", Null)
    ELSE IF riskScore <= Points(80) THEN asks("hold", "analyst")
    ELSE asks("escalate", "compliance_officer")

classifyRisk(riskScore) ==
    IF riskScore < Points(50) THEN asks("allow", Null)
    ELSE IF riskScore < Points(80) THEN asks("hold", "analyst")
    ELSE asks("escalate", "compliance_officer")

buildFraudRequest(riskScore, sensitive, requestId) ==
    LET risk == classifyRisk(riskScore)
    IN  [requestId |-> requestId, shape |-> "ok", workflowClass |-> "fraud_triage",
         actorAuthorityClass |-> "system", proposedActionClass |-> risk.action,
         requestedActionClass |-> risk.action, proposalSourceKind |-> "ai",
         authorityBearing |-> FALSE, sensitive |-> sensitive, prohibitedUse |-> FALSE,
         policyPackRef |-> "present", provenanceRef |-> "complete",
         approvalRequired |-> risk.approvalRequired, approvalArtifact |-> Null,
         loggingReady |-> TRUE, controlStatus |-> "valid", trustState |-> "trusted",
         createdAt |-> 1]

\* Ten minutes later.
buildAnalystApproval(requestId, approverClass, requestCreatedAt) ==
    [forRequestId |-> requestId, approverAuthorityClass |-> approverClass,
     privilegedAuthSatisfied |-> TRUE, immutableSignature |-> "signed",
     approvedAt |-> requestCreatedAt + 1]

\* The request id is made of the transaction and the clock, so that two calls
\* in one millisecond share it.
FraudRequest(riskScore, sensitive, requestId, withApproval) ==
    LET risk    == classifyRisk(riskScore)
        request == buildFraudRequest(riskScore, sensitive, requestId)
    IN  IF withApproval /\ risk.approvalRequired
        THEN [request EXCEPT !.approvalArtifact =
                buildAnalystApproval(requestId, risk.approverClass, request.createdAt)]
        ELSE request

\* If an append throws, so does the call.
processFraudTransaction(riskScore, sensitive, requestId, withApproval) ==
    LET request == FraudRequest(riskScore, sensitive, requestId, withApproval)
        result  == evaluate(gate, request)
        ends(decision) ==
            triaged' = Append(triaged, [riskScore |-> riskScore, request |-> request,
                                        decision |-> decision])
    IN  /\ program = "fraud-workflow" /\ Len(triaged) < MaxTriaged
        /\ \/ log' = Recorded(request, result) /\ ends(result)
           \/ \E n \in 0 .. (Len(Events(result)) - 1) :
                 log' = RecordedUpTo(request, result, n) /\ ends(Threw)
        /\ UNCHANGED <<program, gate, rest, calls>>

--------------------------------------------------------------------------------

ServicesNext ==
    \/ \E request \in Bodies : Post(request)
    \/ \E i \in DOMAIN posts : BodyFails(i) \/ Evaluate(i)
    \/ \E request \in Bodies : cerbaSealGate(request)
    \/ \E call \in AgentCalls : runAgentScenario(call)
    \/ \E riskScore \in RiskScores, sensitive, withApproval \in BOOLEAN,
          requestId \in RequestIds :
             processFraudTransaction(riskScore, sensitive, requestId, withApproval)

ServicesSpec == ServicesInit /\ [][ServicesNext]_servicesVars

--------------------------------------------------------------------------------
(* Properties *)

\* The type of every variable; the REST server answered every decision of its
\* history, in the order of the history.
ServicesTypeOK ==
    /\ gate \in Gates \cup {DefaultGate}
    /\ \A i \in DOMAIN posts : posts[i] \in Bodies
    /\ \A i \in DOMAIN log : log[i].eventId = i /\ log[i].eventType \in EventTypes
    /\ answers = [i \in DOMAIN decisionHistory |->
                     [requestId  |-> decisionHistory[i].request.requestId,
                      finalState |-> decisionHistory[i].decision.finalState]]
    /\ \A i \in DOMAIN routed :
          routed[i].status \in {"422", "500", "403", "202", "next"}
    /\ \A i \in DOMAIN toolRuns : toolRuns[i].toolResult.toolName \in TOOLS
    /\ \A i \in DOMAIN triaged : triaged[i].riskScore \in RiskScores

\* Once a client has looked a decision up, every later lookup of that request id
\* answers the same, although resubmissions add decisions to the history and
\* their bodies arrive in any order (rest-api-starter/index.ts:106).
LookupIsStable ==
    [][\A id \in RequestIds :
          GetDecision(id) # Null => GetDecision(id)' = GetDecision(id)]_servicesVars

\* A route behind the middleware goes on for a request that may be released, and
\* no more often than the whole evidence of a release of that request is in the
\* audit log, whichever append fails (express-middleware/index.ts:82); a tool acts
\* for a request that may be released (tools.ts:22).  The agent leaves no evidence
\* of what its tools do, and nothing compares the tool with the action released.
ReleasedWorkIsDue ==
    LET GoneOn(id)   == {i \in DOMAIN routed : /\ routed[i].status = "next"
                                              /\ routed[i].request.requestId = id}
        Complete(id) == {i \in DOMAIN log :
                            /\ log[i].requestId = id
                            /\ log[i].eventType = "EVIDENCE_BUNDLE_CREATED"
                            /\ log[i - 1].eventType = "RELEASE_AUTHORIZED"}
    IN  /\ \A id \in RequestIds :
              /\ Cardinality(GoneOn(id)) <= Cardinality(Complete(id))
              /\ \A i \in GoneOn(id) : MayRelease(gate, routed[i].request)
        /\ \A i \in DOMAIN toolRuns :
              toolRuns[i].toolResult.executed => MayRelease(gate, toolRuns[i].request)

\* The bands of the triage: nothing below a score of 50 is released, for the
\* workflow always needs an approval and none is asked for; from 50 on an
\* approval, and from 80 on one by a compliance officer, is what releases
\* (fraud-workflow-starter/index.ts:8-18).
TriageBandsAreKept ==
    \A i \in DOMAIN triaged :
        LET call == triaged[i]
        IN  call.decision # Threw /\ call.decision.finalState = "ALLOW" =>
                /\ call.riskScore >= Points(50)
                /\ call.request.approvalArtifact # Null
                /\ call.riskScore >= Points(80) =>
                      call.request.approvalArtifact.approverAuthorityClass =
                          "compliance_officer"
================================================================================
