--------------------------- MODULE ReleaseConditions ---------------------------
(***************************************************************************)
(* When the gate, as it is built, releases, holds or rejects a request,    *)
(* with no order of evaluation: what has to hold of the request and the    *)
(* policy pack, whatever checks find it out and whichever comes first.     *)
(* Two conditions follow the code where a document asks for more: a        *)
(* request that leaves policyPackRef out is not one without a policy pack, *)
(* which the registry's INV-01 would have it be, and of several rules for  *)
(* one workflow the first decides, where a comment of the gate lets any of *)
(* them ask for an approval.  MCGateClaims states what the documents say.  *)
(***************************************************************************)
EXTENDS GovernedRequest

\* The class a client role name stands for.
CanonicalClass(g, r) ==
    IF r.actorAuthorityClass \in Keys(g.actorMappings)
    THEN g.actorMappings[r.actorAuthorityClass]
    ELSE r.actorAuthorityClass

KnownClasses(g) ==
    CoreAuthorityClasses \cup g.extendedClasses \cup Keys(g.actorMappings)

PolicyBehaviourIs(g, r, behaviour) ==
    g.actionPolicies[r.workflowClass][r.proposedActionClass] = behaviour

\* The first rule of the policy pack for workflow w asks for an approval.
RuleAsksApproval(g, w) ==
    \E i \in DOMAIN g.workflowRules :
        /\ g.workflowRules[i].workflowClass = w
        /\ g.workflowRules[i].requiresApproval
        /\ \A j \in 1 .. (i - 1) : g.workflowRules[j].workflowClass # w

\* Any source that asks for a human approval is enough; none can waive it.
ApprovalNeeded(g, r) ==
    \/ r.approvalRequired
    \/ r.workflowClass = "fraud_triage"
    \/ RuleAsksApproval(g, r.workflowClass)
    \/ r.workflowClass \in Keys(g.approvalChains)
    \/ PolicyBehaviourIs(g, r, "requires_approval")

\* Who may approve: a human class, in the workflow's chain if it names one.
MayApprove(g, r, class) ==
    /\ class \in HumanAuthorityClasses
    /\ (r.workflowClass \in Keys(g.approvalChains)) =>
          g.approvalChains[r.workflowClass] = {} \/
          class \in g.approvalChains[r.workflowClass]

\* The request needs an approval and carries an artifact.
ApprovalGiven(g, r) ==
    ApprovalNeeded(g, r) /\ r.approvalArtifact \notin {Null, Absent}

\* A member the decision depends on is missing or does not parse.
DataMissing(g, r) ==
    \/ r.shape # "ok"
    \/ r.provenanceRef = "absent"
    \/ r.trustState = "absent"
    \/ r.sensitive /\ r.controlStatus = "absent"
    \/ ApprovalNeeded(g, r) /\ r.approvalArtifact = Absent
    \/ /\ ApprovalGiven(g, r)
       /\ \/ r.createdAt = InvalidDate
          \/ r.approvalArtifact.approvedAt = InvalidDate
          \/ r.approvalArtifact.immutableSignature = "absent"

\* What stands against releasing r: the reason codes that apply to it.
StandsAgainst(g, r, reason) ==
    \/ /\ reason = "MALFORMED_REQUEST"
       /\ \/ DataMissing(g, r)
          \/ CanonicalClass(g, r) \notin KnownClasses(g)
          \/ PolicyBehaviourIs(g, r, "blocked")
    \/ /\ reason = "UNKNOWN_ACTION_CLASS"
       /\ ~ ({r.proposedActionClass, r.requestedActionClass}
             \subseteq CoreActionClasses)
    \/ /\ reason = "INVALID_PROPOSAL"
       /\ r.proposedActionClass # r.requestedActionClass
    \* Null only, not left out.
    \/ reason = "NO_POLICY_PACK" /\ r.policyPackRef = "null"
    \/ reason = "NO_PROVENANCE" /\ r.provenanceRef \in {"null", "incomplete"}
    \/ reason = "LOGGING_NOT_READY" /\ ~ r.loggingReady
    \/ /\ reason = "AI_CANNOT_AUTHORIZE"
       /\ \/ r.authorityBearing
          \/ r.proposalSourceKind = "ai" /\ CanonicalClass(g, r) = "ai"
    \/ reason = "PROHIBITED_USE" /\ r.prohibitedUse
    \/ /\ reason = "CONTROL_STALE_OR_INVALID"
       /\ r.sensitive
       /\ r.controlStatus \in {"invalid", "stale"}
    \/ reason = "TRUST_STATE_INVALID" /\ r.trustState = "untrusted"
    \/ /\ reason = "REQUIRED_APPROVAL_MISSING"
       /\ ApprovalNeeded(g, r)
       /\ r.approvalArtifact = Null
    \/ /\ ApprovalGiven(g, r)
       /\ \/ /\ reason = "INVALID_APPROVAL_AUTHORITY"
             /\ \/ r.approvalArtifact.forRequestId # r.requestId
                \/ r.approvalArtifact.approvedAt \in 0 .. (r.createdAt - 1)
                \/ ~ MayApprove(g, r, r.approvalArtifact.approverAuthorityClass)
          \/ /\ reason = "PRIVILEGED_AUTH_NOT_SATISFIED"
             /\ ~ r.approvalArtifact.privilegedAuthSatisfied
          \/ /\ reason = "APPROVAL_SIGNATURE_MISSING"
             /\ r.approvalArtifact.immutableSignature = "blank"

MayRelease(g, r) == \A reason \in ReasonCodes : ~ StandsAgainst(g, r, reason)

AwaitsApproval(g, r) ==
    \A reason \in ReasonCodes :
        StandsAgainst(g, r, reason) <=> reason = "REQUIRED_APPROVAL_MISSING"

Verdict(g, r, finalState, reason) ==
    \/ /\ finalState = "ALLOW" /\ reason = "DECISION_ALLOWED"
       /\ MayRelease(g, r)
    \/ /\ finalState = "HOLD" /\ reason = "REQUIRED_APPROVAL_MISSING"
       /\ AwaitsApproval(g, r)
    \/ /\ finalState = "REJECT"
       /\ reason \in ReasonCodes \ {"REQUIRED_APPROVAL_MISSING"}
       /\ StandsAgainst(g, r, reason)
================================================================================
