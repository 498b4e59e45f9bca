------------------------------- MODULE GateChecks ------------------------------
(***************************************************************************)
(* The checks of ExecutionGateService, each as the fault it raises, and    *)
(* evaluate as a function of the gate and the request: the checks in their *)
(* order, the first fault wins.  ExecutionGate runs the same checks stage  *)
(* by stage; the components that call the gate use the function.           *)
(***************************************************************************)
EXTENDS GovernedRequest

--------------------------------------------------------------------------------
(* What the policy pack says about a request. *)

resolveActorClass(g, class) ==
    IF g.actorMappings[class] = Absent THEN class ELSE g.actorMappings[class]

allowedAuthorityClasses(g) ==
    CoreAuthorityClasses \cup g.extendedClasses \cup Keys(g.actorMappings)

\* Array.find: only the first rule for the workflow counts.
isPolicyApprovalRequired(g, workflow) ==
    \/ \E i \in DOMAIN g.workflowRules :
          /\ g.workflowRules[i].workflowClass = workflow
          /\ g.workflowRules[i].requiresApproval
          /\ \A j \in 1 .. (i - 1) : g.workflowRules[j].workflowClass # workflow
    \/ g.approvalChains[workflow] # Absent

ActionPolicyBehaviourIs(g, r, behaviour) ==
    g.actionPolicies[r.workflowClass][r.proposedActionClass] = behaviour

getApprovalChains(g, workflow) ==
    IF g.approvalChains[workflow] = Absent THEN {} ELSE g.approvalChains[workflow]

\* Mutant: the policy decides alone, and drops the requirement of the caller.
EffectiveRequest_PolicyDecides(g, r) ==
    [r EXCEPT
        !.actorAuthorityClass = resolveActorClass(g, @),
        !.approvalRequired =
            \/ isPolicyApprovalRequired(g, r.workflowClass)
            \/ ActionPolicyBehaviourIs(g, r, "requires_approval")]

\* Mutant: the role is checked in its canonical class but not replaced by it.
EffectiveRequest_KeepsRole(g, r) ==
    [r EXCEPT
        !.approvalRequired =
            \/ @
            \/ isPolicyApprovalRequired(g, r.workflowClass)
            \/ ActionPolicyBehaviourIs(g, r, "requires_approval")]

\* The request after actor mapping and with the approval the policy demands.
EffectiveRequest(g, r) ==
    [r EXCEPT
        !.actorAuthorityClass = resolveActorClass(g, @),
        !.approvalRequired =
            \/ @
            \/ isPolicyApprovalRequired(g, r.workflowClass)
            \/ ActionPolicyBehaviourIs(g, r, "requires_approval")]

WorkflowsRequiringApproval == {"fraud_triage"}

effectiveApprovalRequired(r) ==
    r.approvalRequired \/ r.workflowClass \in WorkflowsRequiringApproval

--------------------------------------------------------------------------------
(* The faults the assertions raise.  "TypeError" stands for any exception   *)
(* that is not a CerbaSealError.                                            *)

NoFault == "none"

Unless(condition, reason) == IF condition THEN NoFault ELSE reason

\* The only throw whose finalState is HOLD.
BlockedStateOf(reason) ==
    IF reason = "REQUIRED_APPROVAL_MISSING" THEN "HOLD" ELSE "REJECT"

ShapeFault(r) ==
    CASE r.shape = "ok"    -> NoFault
      [] r.shape = "blank" -> "MALFORMED_REQUEST"
      [] OTHER             -> "TypeError"

PolicyPackFault(r) == Unless(r.policyPackRef # "null", "NO_POLICY_PACK")

ProvenanceFault(r) ==
    CASE r.provenanceRef = "complete" -> NoFault
      [] r.provenanceRef = "absent"   -> "TypeError"
      [] OTHER                        -> "NO_PROVENANCE"

\* Mutant: the AI actor is stopped only if the caller asks for an approval, the
\* bug that "Fix 4" removed.
ProposalBoundaryFault_ApprovalOnly(r) ==
    Unless(/\ ~ r.authorityBearing
           /\ ~ (/\ r.proposalSourceKind = "ai" /\ r.actorAuthorityClass = "ai"
                 /\ r.approvalRequired),
           "AI_CANNOT_AUTHORIZE")

ProposalBoundaryFault(r) ==
    Unless(/\ ~ r.authorityBearing
           /\ ~ (r.proposalSourceKind = "ai" /\ r.actorAuthorityClass = "ai"),
           "AI_CANNOT_AUTHORIZE")

ControlStatusFault(r) ==
    CASE ~ r.sensitive \/ r.controlStatus = "valid" -> NoFault
      [] r.sensitive /\ r.controlStatus = "absent"  -> "TypeError"
      [] OTHER                                      -> "CONTROL_STALE_OR_INVALID"

TrustStateFault(r) ==
    CASE r.trustState = "trusted" -> NoFault
      [] r.trustState = "absent"  -> "TypeError"
      [] OTHER                    -> "TRUST_STATE_INVALID"

\* Mutant: any request's approval will do, the bug that "Fix 1" removed.
ArtifactFault_AnyRequest(r, a) ==
    IF r.createdAt = InvalidDate \/ a.approvedAt = InvalidDate
    THEN "MALFORMED_REQUEST"
    ELSE IF \/ a.approvedAt < r.createdAt
            \/ a.approverAuthorityClass \notin HumanAuthorityClasses
    THEN "INVALID_APPROVAL_AUTHORITY"
    ELSE IF ~ a.privilegedAuthSatisfied
    THEN "PRIVILEGED_AUTH_NOT_SATISFIED"
    ELSE CASE a.immutableSignature = "signed" -> NoFault
           [] a.immutableSignature = "blank"  -> "APPROVAL_SIGNATURE_MISSING"
           [] OTHER                           -> "TypeError"

\* The checks of an approval artifact that is there, in their order.
ArtifactFault(r, a) ==
    IF a.forRequestId # r.requestId
    THEN "INVALID_APPROVAL_AUTHORITY"
    ELSE IF r.createdAt = InvalidDate \/ a.approvedAt = InvalidDate
    THEN "MALFORMED_REQUEST"
    ELSE IF \/ a.approvedAt < r.createdAt
            \/ a.approverAuthorityClass \notin HumanAuthorityClasses
    THEN "INVALID_APPROVAL_AUTHORITY"
    ELSE IF ~ a.privilegedAuthSatisfied
    THEN "PRIVILEGED_AUTH_NOT_SATISFIED"
    ELSE CASE a.immutableSignature = "signed" -> NoFault
           [] a.immutableSignature = "blank"  -> "APPROVAL_SIGNATURE_MISSING"
           [] OTHER                           -> "TypeError"

ApprovalStateFault(r) ==
    IF ~ effectiveApprovalRequired(r) THEN NoFault
    ELSE CASE r.approvalArtifact = Null   -> "REQUIRED_APPROVAL_MISSING"
           [] r.approvalArtifact = Absent -> "TypeError"
           [] OTHER                       -> ArtifactFault(r, r.approvalArtifact)

\* The chain is looked at only if it names a class and an artifact is there.
ChainApplies(g, r) ==
    /\ getApprovalChains(g, r.workflowClass) # {}
    /\ r.approvalArtifact # Null

\* Mutant: the chain is compared with the actor instead of the approver.
ApprovalChainFault_Actor(g, r) ==
    IF ~ ChainApplies(g, r) THEN NoFault
    ELSE IF r.approvalArtifact = Absent THEN "TypeError"
    ELSE Unless(r.actorAuthorityClass \in getApprovalChains(g, r.workflowClass),
                "INVALID_APPROVAL_AUTHORITY")

ApprovalChainFault(g, r) ==
    IF ~ ChainApplies(g, r) THEN NoFault
    ELSE IF r.approvalArtifact = Absent THEN "TypeError"
    ELSE Unless(r.approvalArtifact.approverAuthorityClass
                    \in getApprovalChains(g, r.workflowClass),
                "INVALID_APPROVAL_AUTHORITY")

--------------------------------------------------------------------------------
(* evaluate as a function.                                                 *)

ActorFault(g, r) ==
    Unless(resolveActorClass(g, r.actorAuthorityClass) \in allowedAuthorityClasses(g),
           "MALFORMED_REQUEST")

ActionFault(class) == Unless(class \in CoreActionClasses, "UNKNOWN_ACTION_CLASS")

ActionsMatchFault(r) ==
    Unless(r.proposedActionClass = r.requestedActionClass, "INVALID_PROPOSAL")

ActionPolicyFault(g, r) ==
    Unless(~ ActionPolicyBehaviourIs(g, r, "blocked"), "MALFORMED_REQUEST")

LoggingFault(r) == Unless(r.loggingReady, "LOGGING_NOT_READY")

ProhibitedUseFault(r) == Unless(~ r.prohibitedUse, "PROHIBITED_USE")

\* The result object for the view of the request that evaluate holds: envelope,
\* release authorization, blocked action record.
Result(view, finalState, reason, permitted, trace) ==
    [requestId             |-> view.requestId,
     workflowClass         |-> view.workflowClass,
     finalState            |-> finalState,
     permittedActionClass  |-> permitted,
     humanApprovalRequired |-> view.approvalRequired,
     humanApprovalPresent  |-> view.approvalArtifact # Null,
     reason                |-> reason,
     checkedInvariants     |-> trace,
     releaseAuthorization  |-> permitted,
     blockedActionRecord   |-> finalState # "ALLOW"]

Allowed(view, trace) ==
    Result(view, "ALLOW", "DECISION_ALLOWED", view.proposedActionClass,
           trace \cup {"INV-07"})

Blocked(view, reason, trace) ==
    Result(view, BlockedStateOf(reason), reason, Null, trace \cup {"INV-07"})

Fallback(view, trace) ==
    Result(view, "REJECT", "MALFORMED_REQUEST", Null, trace \cup {"INV-11"})

\* The checks in the order of the code, and the invariant each one records.
Checks(g, r) ==
    LET e == EffectiveRequest(g, r)
        check(code, raised) == [code |-> code, fault |-> raised]
    IN  <<check("INV-11", ShapeFault(r)),
          check("INV-11", ActorFault(g, r)),
          check("INV-11", ActionFault(r.proposedActionClass)),
          check("INV-11", ActionFault(r.requestedActionClass)),
          check("INV-12", ActionsMatchFault(r)),
          check("INV-11", ActionPolicyFault(g, r)),
          check("INV-01", PolicyPackFault(e)),
          check("INV-02", ProvenanceFault(e)),
          check("INV-04", LoggingFault(e)),
          check("INV-05", ProposalBoundaryFault(e)),
          check("INV-10", ProhibitedUseFault(e)),
          check("INV-08", ControlStatusFault(e)),
          check("INV-09", TrustStateFault(e)),
          check("INV-03", ApprovalStateFault(e)),
          check("INV-03", ApprovalChainFault(g, e))>>

\* The checks from this one on see the request as the policy resolved it.
PolicyViewFrom == 7

\* Stands for the result of a call that ends with an exception.
Threw == Null

\* What evaluate returns, or Threw.
evaluate(g, r) ==
    LET checks  == Checks(g, r)
        failing == {n \in DOMAIN checks : checks[n].fault # NoFault}
        first   == CHOOSE n \in failing : \A m \in failing : n <= m
        reason  == checks[first].fault
        view    == IF first < PolicyViewFrom THEN r ELSE EffectiveRequest(g, r)
        trace(n) == {checks[k].code : k \in 1 .. n}
    IN  IF failing = {}
        THEN Allowed(EffectiveRequest(g, r), trace(Len(checks)))
        ELSE IF reason # "TypeError" THEN Blocked(view, reason, trace(first))
        ELSE IF r.shape # "unreadable" THEN Fallback(view, trace(first))
        ELSE Threw
================================================================================
