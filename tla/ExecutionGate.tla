----------------------------- MODULE ExecutionGate -----------------------------
(***************************************************************************)
(* ExecutionGateService.evaluate, assertion by assertion.  A call runs the *)
(* stages in the order of the code; each stage records the invariant it    *)
(* checks and either goes on to the next one or raises a fault, which the  *)
(* catch block turns into a blocked result.  The call is synchronous, so   *)
(* one call is in progress at a time; several gates, constructed with      *)
(* different configurations and policy packs, share the registry of issued *)
(* results.                                                                *)
(***************************************************************************)
EXTENDS GateChecks

CONSTANTS
    Gates,          \* the gates callers construct
    Requests,       \* the requests callers submit
    MaxEvaluations  \* bound on the number of calls, for model checking

ASSUME GatesAssumption == Gates \subseteq GateType
ASSUME RequestsAssumption == Requests \subseteq GovernedRequestType
ASSUME MaxEvaluationsAssumption == MaxEvaluations \in Nat

VARIABLES
    stage,        \* where the call in progress is; "idle" between calls
    gate,         \* the gate it was made on, Null between calls
    request,      \* its argument, Null between calls
    effective,    \* effectiveRequest: the argument, later the policy's view of it
    checked,      \* checkedInvariants
    fault,        \* the exception on its way to the catch block
    issued,       \* _gateIssuedResults, each with the call it answers
    rethrown,     \* the calls that ended with an exception
    evaluations   \* how many calls were made

vars == <<stage, gate, request, effective, checked, fault, issued, rethrown,
          evaluations>>

callVars == <<gate, request, issued, rethrown, evaluations>>

--------------------------------------------------------------------------------
(* evaluate *)

Init ==
    /\ stage = "idle"
    /\ gate = Null /\ request = Null /\ effective = Null
    /\ checked = {} /\ fault = NoFault
    /\ issued = {} /\ rethrown = {}
    /\ evaluations = 0

Call(g, r) ==
    /\ stage = "idle"
    /\ evaluations < MaxEvaluations
    /\ stage' = "shape"
    /\ gate' = g /\ request' = r /\ effective' = r
    /\ checked' = {} /\ fault' = NoFault
    /\ evaluations' = evaluations + 1
    /\ UNCHANGED <<issued, rethrown>>

\* An assertion pushes its invariant code, then raises a fault or returns.
Assert(here, code, raised, next) ==
    /\ stage = here
    /\ checked' = checked \cup {code}
    /\ fault' = raised
    /\ stage' = IF raised = NoFault THEN next ELSE "catch"
    /\ UNCHANGED <<callVars, effective>>

assertRequestShape ==
    Assert("shape", "INV-11", ShapeFault(request), "actor")

assertActorAuthorityClass ==
    Assert("actor", "INV-11", ActorFault(gate, request), "proposedAction")

assertKnownActionClass(here, class, next) ==
    Assert(here, "INV-11", ActionFault(class), next)

assertActionsMatch ==
    Assert("match", "INV-12", ActionsMatchFault(request), "actionPolicy")

BlockByActionPolicy ==
    /\ stage = "actionPolicy"
    /\ ActionPolicyBehaviourIs(gate, request, "blocked")
    /\ Assert("actionPolicy", "INV-11", ActionPolicyFault(gate, request), "policyPack")

DeriveApprovalRequirement ==
    /\ stage = "actionPolicy"
    /\ ~ ActionPolicyBehaviourIs(gate, request, "blocked")
    /\ effective' = EffectiveRequest(gate, request)
    /\ stage' = "policyPack"
    /\ UNCHANGED <<callVars, checked, fault>>

assertPolicyPack ==
    Assert("policyPack", "INV-01", PolicyPackFault(effective), "provenance")

\* Mutant: the logging check is not called.
assertProvenance_SkipsLogging ==
    Assert("provenance", "INV-02", ProvenanceFault(effective), "boundary")

assertProvenance ==
    Assert("provenance", "INV-02", ProvenanceFault(effective), "logging")

assertLoggingReady ==
    Assert("logging", "INV-04", LoggingFault(effective), "boundary")

assertProposalBoundary ==
    Assert("boundary", "INV-05", ProposalBoundaryFault(effective), "prohibitedUse")

assertProhibitedUse ==
    Assert("prohibitedUse", "INV-10", ProhibitedUseFault(effective), "controls")

assertControlStatus ==
    Assert("controls", "INV-08", ControlStatusFault(effective), "trust")

assertTrustState ==
    Assert("trust", "INV-09", TrustStateFault(effective), "approval")

assertApprovalState ==
    Assert("approval", "INV-03", ApprovalStateFault(effective), "chain")

EnforceApprovalChain ==
    /\ stage = "chain"
    /\ ChainApplies(gate, effective)
    /\ Assert("chain", "INV-03", ApprovalChainFault(gate, effective), "allow")

SkipApprovalChain ==
    /\ stage = "chain"
    /\ ~ ChainApplies(gate, effective)
    /\ stage' = "allow"
    /\ UNCHANGED <<callVars, effective, checked, fault>>

\* The call is over; checked and fault keep what they held until the next call.
Leave ==
    /\ stage' = "idle"
    /\ gate' = Null /\ request' = Null /\ effective' = Null
    /\ UNCHANGED <<checked, fault, evaluations>>

\* Register the result and hand it to the caller.
Return(result) ==
    /\ issued' = issued \cup {[gate |-> gate, request |-> request, result |-> result]}
    /\ UNCHANGED rethrown
    /\ Leave

ReturnAllow ==
    /\ stage = "allow"
    /\ Return(Allowed(effective, checked))

\* Mutant: the catch block does not ask whether the exception is a CerbaSealError.
ReturnBlocked_AnyError ==
    /\ stage = "catch"
    /\ Return(Blocked(effective, fault, checked))

ReturnBlocked ==
    /\ stage = "catch"
    /\ fault # "TypeError"
    /\ Return(Blocked(effective, fault, checked))

ReturnFallback ==
    /\ stage = "catch"
    /\ fault = "TypeError"
    /\ effective.shape # "unreadable"
    /\ Return(Fallback(effective, checked))

\* Mutant: no fallback, what is no CerbaSealError goes on to the caller.
Rethrow_AnyError ==
    /\ stage = "catch"
    /\ fault = "TypeError"
    /\ rethrown' = rethrown \cup {[gate |-> gate, request |-> request]}
    /\ UNCHANGED issued
    /\ Leave

\* Building the fallback envelope throws too: the first exception goes on.
Rethrow ==
    /\ stage = "catch"
    /\ fault = "TypeError"
    /\ effective.shape = "unreadable"
    /\ rethrown' = rethrown \cup {[gate |-> gate, request |-> request]}
    /\ UNCHANGED issued
    /\ Leave

Evaluate ==
    \/ assertRequestShape
    \/ assertActorAuthorityClass
    \/ assertKnownActionClass("proposedAction", request.proposedActionClass,
                              "requestedAction")
    \/ assertKnownActionClass("requestedAction", request.requestedActionClass, "match")
    \/ assertActionsMatch
    \/ BlockByActionPolicy
    \/ DeriveApprovalRequirement
    \/ assertPolicyPack
    \/ assertProvenance
    \/ assertLoggingReady
    \/ assertProposalBoundary
    \/ assertProhibitedUse
    \/ assertControlStatus
    \/ assertTrustState
    \/ assertApprovalState
    \/ EnforceApprovalChain
    \/ SkipApprovalChain
    \/ ReturnAllow
    \/ ReturnBlocked
    \/ ReturnFallback
    \/ Rethrow

Next == (\E g \in Gates, r \in Requests : Call(g, r)) \/ Evaluate

Spec == Init /\ [][Next]_vars

\* evaluate has no await and no loop: once called it runs to its end.
FairSpec == Spec /\ WF_vars(Evaluate)

--------------------------------------------------------------------------------
(* Properties *)

\* The invariants in the order the stages check them.
InvariantOrder ==
    <<"INV-11", "INV-12", "INV-01", "INV-02", "INV-04", "INV-05", "INV-10",
      "INV-08", "INV-09", "INV-03">>

\* linked_reason_codes of architecture/invariants, for the reasons that belong
\* to one invariant only.
InvariantOf ==
    [INVALID_PROPOSAL          |-> "INV-12", NO_POLICY_PACK           |-> "INV-01",
     NO_PROVENANCE             |-> "INV-02", LOGGING_NOT_READY        |-> "INV-04",
     AI_CANNOT_AUTHORIZE       |-> "INV-05", PROHIBITED_USE           |-> "INV-10",
     CONTROL_STALE_OR_INVALID  |-> "INV-08", TRUST_STATE_INVALID      |-> "INV-09",
     REQUIRED_APPROVAL_MISSING |-> "INV-03", INVALID_APPROVAL_AUTHORITY |-> "INV-03",
     PRIVILEGED_AUTH_NOT_SATISFIED |-> "INV-03",
     APPROVAL_SIGNATURE_MISSING    |-> "INV-03", UNKNOWN_ACTION_CLASS |-> "INV-11"]

Stages ==
    {"idle", "shape", "actor", "proposedAction", "requestedAction", "match",
     "actionPolicy", "policyPack", "provenance", "logging", "boundary",
     "prohibitedUse", "controls", "trust", "approval", "chain", "allow", "catch"}

GateResult ==
    [requestId             : RequestIds,
     workflowClass         : WorkflowLabels,
     finalState            : {"ALLOW", "HOLD", "REJECT"},
     permittedActionClass  : ActionLabels \cup {Null},
     humanApprovalRequired : BOOLEAN,
     humanApprovalPresent  : BOOLEAN,
     reason                : ReasonCodes \cup {"DECISION_ALLOWED"},
     checkedInvariants     : SUBSET InvariantCodes,
     releaseAuthorization  : ActionLabels \cup {Null},
     blockedActionRecord   : BOOLEAN]

\* The type of every variable; between calls there is no call, and during a
\* call there is one.
TypeOK ==
    /\ stage \in Stages
    /\ \/ /\ stage = "idle"
          /\ gate = Null /\ request = Null /\ effective = Null
       \/ /\ stage # "idle"
          /\ gate \in Gates /\ request \in GovernedRequestType
          /\ effective \in GovernedRequestType
    /\ checked \subseteq InvariantCodes
    /\ fault \in ReasonCodes \cup {NoFault, "TypeError"}
    /\ issued \subseteq [gate : Gates, request : GovernedRequestType, result : GateResult]
    /\ rethrown \subseteq [gate : Gates, request : GovernedRequestType]
    /\ evaluations \in 0 .. MaxEvaluations

Decision == INSTANCE GateDecision WITH
    call       <- IF stage = "idle" THEN Null ELSE [gate |-> gate, request |-> request],
    decisions  <- {[gate       |-> i.gate,
                    request    |-> i.request,
                    finalState |-> i.result.finalState,
                    reason     |-> i.result.reason] : i \in issued},
    unanswered <- rethrown

\* The stages implement the one-step promise: whatever order they run in, the
\* gate allows exactly what nothing stands against, holds exactly what only
\* lacks its approval, and rejects for a reason that applies
\* (execution-gate-service.ts, evaluate).
ImplementsGateDecision == Decision!Spec

\* The trace of a decision is honest: an ALLOW has been through every invariant
\* the gate checks, and a blocked result has been through all of them up to the
\* one its reason belongs to and none after it (trace.checkedInvariants).
TraceMatchesVerdict ==
    \A i \in issued :
        LET trace == i.result.checkedInvariants \ {"INV-07"}
            UpTo(n) == {InvariantOrder[k] : k \in 1 .. n}
        IN  \E n \in DOMAIN InvariantOrder :
              /\ trace = UpTo(n)
              /\ i.result.finalState = "ALLOW" => n = Len(InvariantOrder)
              /\ i.result.reason \in DOMAIN InvariantOf =>
                     InvariantOrder[n] = InvariantOf[i.result.reason]

\* A gate with the same configuration and no policy pack.
WithoutPolicy(g) ==
    [g EXCEPT !.actorMappings  = [c \in AuthorityLabels |-> Absent],
              !.workflowRules  = <<>>,
              !.approvalChains = [w \in WorkflowLabels |-> Absent],
              !.actionPolicies =
                  [w \in WorkflowLabels |-> [a \in ActionLabels |-> Absent]]]

\* The policy pack maps roles to classes of the gate, not to other roles.
MapsToClasses(g) ==
    \A c \in Keys(g.actorMappings) :
        g.actorMappings[c] \in CoreAuthorityClasses \cup g.extendedClasses

\* A policy pack restricts: what a gate with a policy pack allows, the gate
\* without it allows too, for the actor's canonical class
\* (cerbaseal-policy.ts: "It can never relax them").
PolicyOnlyRestricts ==
    \A i \in issued :
        i.result.finalState = "ALLOW" /\ MapsToClasses(i.gate) =>
            Decision!MayRelease(
                WithoutPolicy(i.gate),
                [i.request EXCEPT !.actorAuthorityClass =
                     Decision!CanonicalClass(i.gate, i.request)])

\* A held envelope says that an approval is required, whether the caller or the
\* policy pack asks for it: the catch block reports the policy-resolved request
\* (comment at execution-gate-service.ts:521).  For fraud_triage the flag is
\* the caller's own, which the tests fix (misuse-scenarios.test.ts:332).
HoldReportsRequirement ==
    \A i \in issued :
        i.result.finalState = "HOLD" =>
            \/ i.result.humanApprovalRequired
            \/ i.request.workflowClass \in WorkflowsRequiringApproval

\* Every result is what evaluate, as a function of the gate and the request,
\* returns, trace included, so repeating a call repeats its result ("deterministic
\* evaluation ensures replay consistency over time", replay-service.ts:6).  A call
\* throws only where the function does.
EvaluateIsFunction ==
    /\ \A i \in issued : i.result = evaluate(i.gate, i.request)
    /\ \A c \in rethrown : evaluate(c.gate, c.request) = Threw

\* Approving what was held releases it: if a held request comes back unchanged
\* but for an approval that one of the workflow's approvers gave for it in
\* time, the gate answers ALLOW.
ApprovesRequest(g, r) ==
    /\ r.approvalArtifact \notin {Null, Absent}
    /\ r.approvalArtifact.forRequestId = r.requestId
    /\ r.approvalArtifact.approvedAt >= r.createdAt
    /\ r.createdAt # InvalidDate
    /\ Decision!MayApprove(g, r, r.approvalArtifact.approverAuthorityClass)
    /\ r.approvalArtifact.privilegedAuthSatisfied
    /\ r.approvalArtifact.immutableSignature = "signed"

ApprovedResubmissionAllowed ==
    \A held, resubmitted \in issued :
        /\ held.result.finalState = "HOLD"
        /\ resubmitted.gate = held.gate
        /\ resubmitted.request =
              [held.request EXCEPT
                  !.approvalArtifact = resubmitted.request.approvalArtifact]
        /\ ApprovesRequest(resubmitted.gate, resubmitted.request)
        => resubmitted.result.finalState = "ALLOW"

\* Every call whose request can be read comes to its end with a registered
\* result: no stage is a dead end, and of the calls that are over none with such
\* a request ended with an exception ("All exceptions produce a controlled
\* decision artifact", execution-gate-service.ts:642).
CallsAreAnswered ==
    \A n \in 1 .. MaxEvaluations :
        (evaluations = n /\ stage # "idle" /\ request.shape # "unreadable")
            ~> (/\ evaluations = n /\ stage = "idle" /\ issued # {}
                /\ \A c \in rethrown : c.request.shape = "unreadable")

--------------------------------------------------------------------------------
(* The invariant that makes the verdicts right: what a call has established *)
(* by the time it reaches a stage, and why it is in the catch block.        *)

PassedShape         == Stages \ {"idle", "catch", "shape"}
PassedActor         == PassedShape \ {"actor"}
PassedActions       == PassedActor \ {"proposedAction", "requestedAction", "match"}
PassedActionPolicy  == PassedActions \ {"actionPolicy"}
PassedPolicyPack    == PassedActionPolicy \ {"policyPack"}
PassedProvenance    == PassedPolicyPack \ {"provenance"}
PassedLogging       == PassedProvenance \ {"logging"}
PassedBoundary      == PassedLogging \ {"boundary"}
PassedProhibitedUse == PassedBoundary \ {"prohibitedUse"}
PassedControls      == PassedProhibitedUse \ {"controls"}
PassedTrust         == PassedControls \ {"trust"}
PassedApproval      == PassedTrust \ {"approval"}
PassedChain         == PassedApproval \ {"chain"}

\* The artifact approves this request, chain aside.
ArtifactAccepted(r) ==
    LET a == r.approvalArtifact
    IN  /\ a \notin {Null, Absent}
        /\ a.forRequestId = r.requestId
        /\ r.createdAt # InvalidDate /\ a.approvedAt # InvalidDate
        /\ a.approvedAt >= r.createdAt
        /\ a.approverAuthorityClass \in HumanAuthorityClasses
        /\ a.privilegedAuthSatisfied
        /\ a.immutableSignature = "signed"

\* What is known of a request r to gate g at stage s.
EstablishedAt(s, g, r) ==
    /\ s \in PassedShape => r.shape = "ok"
    /\ s \in PassedActor => Decision!CanonicalClass(g, r) \in Decision!KnownClasses(g)
    /\ s \in PassedActor \ {"proposedAction"} =>
           r.proposedActionClass \in CoreActionClasses
    /\ s \in PassedActions \cup {"match"} =>
           r.requestedActionClass \in CoreActionClasses
    /\ s \in PassedActions => r.proposedActionClass = r.requestedActionClass
    /\ s \in PassedActionPolicy => ~ Decision!PolicyBehaviourIs(g, r, "blocked")
    /\ s \in PassedPolicyPack => r.policyPackRef # "null"
    /\ s \in PassedProvenance => r.provenanceRef = "complete"
    /\ s \in PassedLogging => r.loggingReady
    /\ s \in PassedBoundary =>
           /\ ~ r.authorityBearing
           /\ ~ (r.proposalSourceKind = "ai" /\ Decision!CanonicalClass(g, r) = "ai")
    /\ s \in PassedProhibitedUse => ~ r.prohibitedUse
    /\ s \in PassedControls => ~ r.sensitive \/ r.controlStatus = "valid"
    /\ s \in PassedTrust => r.trustState = "trusted"
    /\ s \in PassedApproval /\ Decision!ApprovalNeeded(g, r) => ArtifactAccepted(r)
    /\ s \in PassedChain /\ Decision!ApprovalNeeded(g, r) =>
           Decision!MayApprove(g, r, r.approvalArtifact.approverAuthorityClass)

\* Why a call of g with r may be in the catch block with exception f.
Justified(g, r, f) ==
    /\ f \in ReasonCodes \cup {"TypeError"}
    /\ f \in ReasonCodes \ {"REQUIRED_APPROVAL_MISSING"} =>
           Decision!StandsAgainst(g, r, f)
    /\ f = "REQUIRED_APPROVAL_MISSING" => Decision!AwaitsApproval(g, r)
    /\ f = "TypeError" => Decision!DataMissing(g, r)
    /\ r.shape = "unreadable" => f = "TypeError"

\* Which view of r the stage works on: the caller's until the policy is
\* applied, the policy's from then on.
ViewAt(s, g, r, e) ==
    /\ s \in PassedActionPolicy => e = EffectiveRequest(g, r)
    /\ s \in Stages \ ({"idle", "catch"} \cup PassedActionPolicy) => e = r

\* The stages lead to the verdict: every condition of an earlier stage holds,
\* an exception has its cause in the request, and the catch block sees the
\* policy's view whenever it was the approval that was missing.
GateInv ==
    /\ stage \notin {"idle", "catch"} => EstablishedAt(stage, gate, request)
    /\ stage # "idle" => ViewAt(stage, gate, request, effective)
    /\ stage = "catch" =>
          /\ Justified(gate, request, fault)
          /\ effective \in {request, EffectiveRequest(gate, request)}
          /\ fault = "REQUIRED_APPROVAL_MISSING" =>
                effective = EffectiveRequest(gate, request)

\* Every result ever issued is the verdict the promise gives for its call: an
\* ALLOW has nothing against it (fail closed), a HOLD only the missing
\* approval, and a REJECT a reason that applies.
VerdictsSound ==
    \A i \in issued :
        Decision!Verdict(i.gate, i.request, i.result.finalState, i.result.reason)
================================================================================
