-------------------------- MODULE ExecutionGateProofs --------------------------
(***************************************************************************)
(* Proofs about ExecutionGate, for every set of gates and requests.        *)
(***************************************************************************)
EXTENDS Diagnostics, GateChecksProofs, TLAPS

--------------------------------------------------------------------------------
(* Type correctness.  It is inductive together with the fact that the catch *)
(* block is only entered with an exception.                                 *)

TypeInv == TypeOK /\ (stage = "catch" => fault # NoFault)

\* An assertion preserves the types whatever it checks.
LEMMA AssertType ==
    ASSUME TypeInv, NEW here \in Stages \ {"idle"}, NEW code \in InvariantCodes,
           NEW raised \in Faults, NEW next \in Stages \ {"idle", "catch"},
           Assert(here, code, raised, next)
    PROVE  TypeInv'
  BY DEF TypeInv, TypeOK, Assert, callVars, Faults, Stages

\* Between calls nothing is in progress, and the locals keep their types.
LEMMA LeaveType ==
    ASSUME TypeInv, Leave,
           issued' \subseteq [gate : Gates, request : GovernedRequestType,
                              result : GateResult],
           rethrown' \subseteq [gate : Gates, request : GovernedRequestType]
    PROVE  TypeInv'
  BY DEF TypeInv, TypeOK, Leave, Stages, NoFault

\* What evaluate builds is a GateResult.
LEMMA ResultType ==
    ASSUME TypeInv, stage # "idle",
           NEW finalState \in {"ALLOW", "HOLD", "REJECT"},
           NEW reason \in ReasonCodes \cup {"DECISION_ALLOWED"},
           NEW permitted \in ActionLabels \cup {Null},
           NEW trace \in SUBSET InvariantCodes
    PROVE  Result(effective, finalState, reason, permitted, trace) \in GateResult
  BY DEF TypeInv, TypeOK, Result, GateResult, GovernedRequestType

LEMMA ReturnType ==
    ASSUME TypeInv, stage # "idle",
           NEW result \in GateResult, Return(result)
    PROVE  TypeInv'
  BY LeaveType DEF TypeInv, TypeOK, Return

LEMMA EvaluateType ==
    ASSUME TypeInv, Evaluate
    PROVE  TypeInv'
  <1> USE DEF Faults
  <1>0. /\ stage # "idle" => /\ gate \in GateType
                             /\ request \in GovernedRequestType
                             /\ effective \in GovernedRequestType
        /\ checked \subseteq InvariantCodes
        /\ fault \in Faults
    BY GatesAssumption DEF TypeInv, TypeOK
  <1>1. CASE assertRequestShape
    <2>1. ShapeFault(request) \in Faults
      BY DEF ShapeFault, ReasonCodes
    <2>2. QED BY <1>1, <2>1, AssertType DEF assertRequestShape, Stages, InvariantCodes
  <1>2. CASE assertActorAuthorityClass
    BY <1>2, AssertType
    DEF assertActorAuthorityClass, ActorFault, Unless, Stages, InvariantCodes, ReasonCodes
  <1>3. ASSUME NEW class,
               \/ assertKnownActionClass("proposedAction", class, "requestedAction")
               \/ assertKnownActionClass("requestedAction", class, "match")
        PROVE  TypeInv'
    BY <1>3, AssertType
    DEF assertKnownActionClass, ActionFault, Unless, Stages, InvariantCodes, ReasonCodes
  <1>4. CASE assertActionsMatch
    BY <1>4, AssertType
    DEF assertActionsMatch, ActionsMatchFault, Unless, Stages, InvariantCodes, ReasonCodes
  <1>5. CASE BlockByActionPolicy
    BY <1>5, AssertType
    DEF BlockByActionPolicy, ActionPolicyFault, Unless, Stages, InvariantCodes, ReasonCodes
  <1>6. CASE DeriveApprovalRequirement
    <2>1. EffectiveRequest(gate, request) \in GovernedRequestType
      BY <1>0, <1>6, EffectiveRequestType DEF DeriveApprovalRequirement
    <2>2. QED
      BY <1>6, <2>1 DEF DeriveApprovalRequirement, TypeInv, TypeOK, callVars, Stages
  <1>7. CASE assertPolicyPack
    BY <1>7, AssertType
    DEF assertPolicyPack, PolicyPackFault, Unless, Stages, InvariantCodes, ReasonCodes
  <1>8. CASE assertProvenance
    <2>1. ProvenanceFault(effective) \in Faults
      BY DEF ProvenanceFault, ReasonCodes
    <2>2. QED BY <1>8, <2>1, AssertType DEF assertProvenance, Stages, InvariantCodes
  <1>9. CASE assertLoggingReady
    BY <1>9, AssertType
    DEF assertLoggingReady, LoggingFault, Unless, Stages, InvariantCodes, ReasonCodes
  <1>10. CASE assertProposalBoundary
    BY <1>10, AssertType
    DEF assertProposalBoundary, ProposalBoundaryFault, Unless, Stages,
        InvariantCodes, ReasonCodes
  <1>11. CASE assertProhibitedUse
    BY <1>11, AssertType
    DEF assertProhibitedUse, ProhibitedUseFault, Unless, Stages, InvariantCodes, ReasonCodes
  <1>12. CASE assertControlStatus
    <2>1. ControlStatusFault(effective) \in Faults
      BY DEF ControlStatusFault, ReasonCodes
    <2>2. QED BY <1>12, <2>1, AssertType DEF assertControlStatus, Stages, InvariantCodes
  <1>13. CASE assertTrustState
    <2>1. TrustStateFault(effective) \in Faults
      BY DEF TrustStateFault, ReasonCodes
    <2>2. QED BY <1>13, <2>1, AssertType DEF assertTrustState, Stages, InvariantCodes
  <1>14. CASE assertApprovalState
    <2>1. ArtifactFault(effective, effective.approvalArtifact) \in Faults
      BY DEF ArtifactFault, ReasonCodes
    <2>2. ApprovalStateFault(effective) \in Faults
      BY <2>1 DEF ApprovalStateFault, ReasonCodes
    <2>3. QED BY <1>14, <2>2, AssertType DEF assertApprovalState, Stages, InvariantCodes
  <1>15. CASE EnforceApprovalChain
    <2>1. ApprovalChainFault(gate, effective) \in Faults
      BY DEF ApprovalChainFault, Unless, ReasonCodes
    <2>2. QED BY <1>15, <2>1, AssertType DEF EnforceApprovalChain, Stages, InvariantCodes
  <1>16. CASE SkipApprovalChain
    BY <1>16 DEF SkipApprovalChain, TypeInv, TypeOK, callVars, Stages
  <1>17. CASE ReturnAllow
    <2>1. effective.proposedActionClass \in ActionLabels
      BY <1>0, <1>17 DEF ReturnAllow, GovernedRequestType
    <2>2. QED
      BY <1>0, <1>17, <2>1, ResultType, ReturnType
      DEF ReturnAllow, Allowed, InvariantCodes
  <1>18. CASE ReturnBlocked
    <2>1. fault \in ReasonCodes
      BY <1>18 DEF ReturnBlocked, TypeInv, TypeOK
    <2>2. BlockedStateOf(fault) \in {"ALLOW", "HOLD", "REJECT"}
      BY DEF BlockedStateOf
    <2>3. QED
      BY <1>0, <1>18, <2>1, <2>2, ResultType, ReturnType
      DEF ReturnBlocked, Blocked, InvariantCodes
  <1>19. CASE ReturnFallback
    BY <1>0, <1>19, ResultType, ReturnType
    DEF ReturnFallback, Fallback, InvariantCodes, ReasonCodes
  <1>20. CASE Rethrow
    BY <1>20, LeaveType DEF Rethrow, TypeInv, TypeOK
  <1>21. QED
    BY <1>1, <1>2, <1>3, <1>4, <1>5, <1>6, <1>7, <1>8, <1>9, <1>10, <1>11, <1>12,
       <1>13, <1>14, <1>15, <1>16, <1>17, <1>18, <1>19, <1>20
    DEF Evaluate

LEMMA CallType ==
    ASSUME TypeInv, NEW g \in Gates, NEW r \in Requests, Call(g, r)
    PROVE  TypeInv'
  BY RequestsAssumption, MaxEvaluationsAssumption DEF TypeInv, TypeOK, Call, Stages, NoFault

\* Every variable keeps its type in every behaviour of the gate.
THEOREM TypeCorrect == Spec => []TypeOK
  <1>1. Init => TypeInv
    BY MaxEvaluationsAssumption DEF Init, TypeInv, TypeOK, Stages, NoFault
  <1>2. TypeInv /\ [Next]_vars => TypeInv'
    <2> SUFFICES ASSUME TypeInv, [Next]_vars PROVE TypeInv'
      OBVIOUS
    <2>1. CASE UNCHANGED vars
      BY <2>1 DEF vars, TypeInv, TypeOK
    <2>2. QED
      BY <2>1, EvaluateType, CallType DEF Next
  <1>3. TypeInv => TypeOK
    BY DEF TypeInv
  <1>4. QED
    BY <1>1, <1>2, <1>3, PTL DEF Spec

--------------------------------------------------------------------------------
(* The policy's view of a request, in the words of the promise.             *)

LEMMA CanonicalClassIsResolved ==
    ASSUME NEW g \in GateType, NEW r \in GovernedRequestType
    PROVE  /\ Decision!CanonicalClass(g, r) = resolveActorClass(g, r.actorAuthorityClass)
           /\ Decision!KnownClasses(g) = allowedAuthorityClasses(g)
  BY DEF Decision!CanonicalClass, Decision!KnownClasses, Decision!Keys,
         Decision!CoreAuthorityClasses, resolveActorClass, allowedAuthorityClasses,
         Keys, CoreAuthorityClasses, GateType, Dictionary, GovernedRequestType

\* effectiveRequest carries the canonical class and exactly the approval
\* requirement of the promise; the rest is the caller's.
LEMMA EffectiveRequestIsPolicyView ==
    ASSUME NEW g \in GateType, NEW r \in GovernedRequestType,
           NEW e, e = EffectiveRequest(g, r)
    PROVE  /\ e.actorAuthorityClass = Decision!CanonicalClass(g, r)
           /\ effectiveApprovalRequired(e) <=> Decision!ApprovalNeeded(g, r)
           /\ e.requestId = r.requestId
           /\ e.workflowClass = r.workflowClass
           /\ e.proposalSourceKind = r.proposalSourceKind
           /\ e.authorityBearing = r.authorityBearing
           /\ e.sensitive = r.sensitive
           /\ e.prohibitedUse = r.prohibitedUse
           /\ e.policyPackRef = r.policyPackRef
           /\ e.provenanceRef = r.provenanceRef
           /\ e.approvalArtifact = r.approvalArtifact
           /\ e.loggingReady = r.loggingReady
           /\ e.controlStatus = r.controlStatus
           /\ e.trustState = r.trustState
           /\ e.createdAt = r.createdAt
  <1>1. e.actorAuthorityClass = Decision!CanonicalClass(g, r)
    BY CanonicalClassIsResolved DEF EffectiveRequest, GovernedRequestType
  <1>2. e.approvalRequired <=>
            \/ r.approvalRequired
            \/ isPolicyApprovalRequired(g, r.workflowClass)
            \/ ActionPolicyBehaviourIs(g, r, "requires_approval")
    BY DEF EffectiveRequest, GovernedRequestType
  <1>3. e.workflowClass = r.workflowClass /\ r.workflowClass \in WorkflowLabels
    BY DEF EffectiveRequest, GovernedRequestType
  <1>4. effectiveApprovalRequired(e) <=> Decision!ApprovalNeeded(g, r)
    BY <1>2, <1>3, PolicyAsks
    DEF effectiveApprovalRequired, WorkflowsRequiringApproval, RuleAsksApproval,
        Decision!ApprovalNeeded, Decision!RuleAsksApproval, Decision!PolicyBehaviourIs, Decision!Keys, Keys,
        ActionPolicyBehaviourIs
  <1>5. QED
    BY <1>1, <1>3, <1>4 DEF EffectiveRequest, GovernedRequestType

--------------------------------------------------------------------------------
(* The gate's invariant.                                                    *)

SoundInv == TypeInv /\ GateInv /\ VerdictsSound

\* An assertion preserves the invariant if it establishes what the next stage
\* relies on or raises an exception that has its cause in the request.
LEMMA AssertSound ==
    ASSUME SoundInv,
           NEW here \in Stages \ {"idle", "catch"}, NEW next \in Stages \ {"idle", "catch"},
           NEW code, NEW raised,
           Assert(here, code, raised, next),
           raised = NoFault => EstablishedAt(next, gate, request),
           raised # NoFault => Justified(gate, request, raised),
           ViewAt(next, gate, request, effective),
           raised = "REQUIRED_APPROVAL_MISSING" =>
               effective = EffectiveRequest(gate, request)
    PROVE  GateInv' /\ VerdictsSound'
  <1>1. /\ stage = here /\ fault' = raised
        /\ stage' = IF raised = NoFault THEN next ELSE "catch"
        /\ gate' = gate /\ request' = request /\ effective' = effective
        /\ issued' = issued
    BY DEF Assert, callVars
  <1>2. VerdictsSound'
    BY <1>1 DEF SoundInv, VerdictsSound
  <1>3. effective \in {request, EffectiveRequest(gate, request)}
    BY <1>1 DEF SoundInv, GateInv, ViewAt, Stages
  <1>4. CASE raised = NoFault
    <2>1. stage' = next
      BY <1>1, <1>4
    <2>2. EstablishedAt(stage', gate', request') /\ ViewAt(stage', gate', request', effective')
      BY <1>1, <1>4, <2>1
    <2>3. QED
      BY <1>2, <2>1, <2>2 DEF GateInv
  <1>5. CASE raised # NoFault
    <2>1. stage' = "catch"
      BY <1>1, <1>5
    <2>2. ViewAt(stage', gate', request', effective')
      BY <2>1 DEF ViewAt, PassedActionPolicy, PassedActions, PassedActor, PassedShape
    <2>3. Justified(gate', request', fault')
      BY <1>1, <1>5
    <2>4. /\ effective' \in {request', EffectiveRequest(gate', request')}
          /\ fault' = "REQUIRED_APPROVAL_MISSING" =>
                effective' = EffectiveRequest(gate', request')
      BY <1>1, <1>3
    <2>5. QED
      BY <1>2, <2>1, <2>2, <2>3, <2>4 DEF GateInv
  <1>6. QED
    BY <1>4, <1>5

\* A reason other than the missing approval justifies the catch block as soon
\* as it stands against a request that has the right shape.
LEMMA ReasonJustifies ==
    ASSUME NEW g, NEW r,
           NEW f \in ReasonCodes \ {"REQUIRED_APPROVAL_MISSING"},
           Decision!StandsAgainst(g, r, f), r.shape # "unreadable"
    PROVE  Justified(g, r, f)
  BY DEF Justified, ReasonCodes

LEMMA TypeErrorJustifies ==
    ASSUME NEW g, NEW r, Decision!DataMissing(g, r)
    PROVE  Justified(g, r, "TypeError")
  BY DEF Justified, ReasonCodes


\* The stages before and after the policy pack has been applied.
EarlyStages ==
    {"shape", "actor", "proposedAction", "requestedAction", "match", "actionPolicy"}
LateStages ==
    {"policyPack", "provenance", "logging", "boundary", "prohibitedUse", "controls",
     "trust", "approval", "chain", "allow"}

LEMMA ViewOfStage ==
    ASSUME NEW s, NEW g, NEW r, NEW e
    PROVE  /\ s \in EarlyStages => (ViewAt(s, g, r, e) <=> e = r)
           /\ s \in LateStages => (ViewAt(s, g, r, e) <=> e = EffectiveRequest(g, r))
  BY DEF ViewAt, EarlyStages, LateStages, PassedActionPolicy, PassedActions,
         PassedActor, PassedShape, Stages

\* A stage that works on the caller's request.
LEMMA EarlyStageSound ==
    ASSUME SoundInv, NEW here \in EarlyStages, NEW next \in EarlyStages,
           NEW code, NEW raised,
           Assert(here, code, raised, next),
           raised = NoFault => EstablishedAt(next, gate, request),
           raised # NoFault => Justified(gate, request, raised),
           raised # "REQUIRED_APPROVAL_MISSING"
    PROVE  GateInv' /\ VerdictsSound'
  <1>1. effective = request
    BY ViewOfStage DEF SoundInv, GateInv, Assert, EarlyStages
  <1>2. ViewAt(next, gate, request, effective)
    BY <1>1, ViewOfStage
  <1>3. QED
    BY <1>2, AssertSound DEF EarlyStages, Stages

\* A stage that works on the policy's view of it.
LEMMA LateStageSound ==
    ASSUME SoundInv, NEW here \in LateStages, NEW next \in LateStages,
           NEW code, NEW raised,
           Assert(here, code, raised, next),
           raised = NoFault => EstablishedAt(next, gate, request),
           raised # NoFault => Justified(gate, request, raised)
    PROVE  GateInv' /\ VerdictsSound'
  <1>1. effective = EffectiveRequest(gate, request)
    BY ViewOfStage DEF SoundInv, GateInv, Assert, LateStages
  <1>2. ViewAt(next, gate, request, effective)
    BY <1>1, ViewOfStage
  <1>3. QED
    BY <1>1, <1>2, AssertSound DEF LateStages, Stages

LEMMA EarlyStagesSound ==
    ASSUME SoundInv, \/ assertRequestShape
           \/ assertActorAuthorityClass
           \/ assertKnownActionClass("proposedAction", request.proposedActionClass,
                                     "requestedAction")
           \/ assertKnownActionClass("requestedAction", request.requestedActionClass,
                                     "match")
           \/ assertActionsMatch
    PROVE  GateInv' /\ VerdictsSound'
  <1> USE DEF EarlyStages, NoFault
  <1>0. /\ stage # "idle" =>
              gate \in GateType /\ request \in GovernedRequestType
        /\ stage \notin {"idle", "catch"} => EstablishedAt(stage, gate, request)
    BY GatesAssumption DEF SoundInv, TypeInv, TypeOK, GateInv
  <1>1. CASE assertRequestShape
    <2>1. ShapeFault(request) = NoFault => EstablishedAt("actor", gate, request)
      BY DEF ShapeFault, EstablishedAt, PassedShape, PassedActor, PassedActions,
             PassedActionPolicy, PassedPolicyPack, PassedProvenance, PassedLogging,
             PassedBoundary, PassedProhibitedUse, PassedControls, PassedTrust,
             PassedApproval, PassedChain
    <2>2. ShapeFault(request) # NoFault =>
             Justified(gate, request, ShapeFault(request))
      BY ReasonJustifies, TypeErrorJustifies
      DEF ShapeFault, Decision!StandsAgainst, Decision!DataMissing, ReasonCodes
    <2>3. QED
      BY <1>1, <2>1, <2>2, EarlyStageSound DEF assertRequestShape, ShapeFault
  <1>2. /\ stage \in EarlyStages \ {"shape"} => request.shape = "ok"
        /\ gate \in GateType /\ request \in GovernedRequestType =>
              Decision!CanonicalClass(gate, request) =
                  resolveActorClass(gate, request.actorAuthorityClass)
    BY <1>0, CanonicalClassIsResolved DEF EstablishedAt, PassedShape, Stages
  <1>3. CASE assertActorAuthorityClass
    <2> DEFINE known == resolveActorClass(gate, request.actorAuthorityClass)
                            \in allowedAuthorityClasses(gate)
    <2>1. stage = "actor" /\ Assert("actor", "INV-11",
                                    Unless(known, "MALFORMED_REQUEST"), "proposedAction")
      BY <1>3 DEF assertActorAuthorityClass, ActorFault, Assert
    <2>2. known <=> Decision!CanonicalClass(gate, request) \in Decision!KnownClasses(gate)
      BY <1>0, <2>1, CanonicalClassIsResolved
    <2>3. known => EstablishedAt("proposedAction", gate, request)
      BY <1>0, <2>1, <2>2
      DEF EstablishedAt, PassedShape, PassedActor, PassedActions,
          PassedActionPolicy, PassedPolicyPack, PassedProvenance, PassedLogging,
          PassedBoundary, PassedProhibitedUse, PassedControls, PassedTrust,
          PassedApproval, PassedChain, Stages
    <2>4. ~ known => Justified(gate, request, "MALFORMED_REQUEST")
      BY <1>2, <2>1, <2>2, ReasonJustifies DEF Decision!StandsAgainst, ReasonCodes
    <2>5. QED
      BY <2>1, <2>3, <2>4, EarlyStageSound DEF Unless
  <1>4. CASE assertKnownActionClass("proposedAction", request.proposedActionClass,
                                    "requestedAction")
    <2> DEFINE known == request.proposedActionClass \in CoreActionClasses
    <2>1. stage = "proposedAction"
      BY <1>4 DEF assertKnownActionClass, Assert
    <2>2. known => EstablishedAt("requestedAction", gate, request)
      BY <1>0, <2>1
      DEF EstablishedAt, Stages, PassedShape, PassedActor, PassedActions,
          PassedActionPolicy, PassedPolicyPack, PassedProvenance, PassedLogging,
          PassedBoundary, PassedProhibitedUse, PassedControls, PassedTrust,
          PassedApproval, PassedChain
    <2>3. ~ known => Justified(gate, request, "UNKNOWN_ACTION_CLASS")
      BY <1>2, <2>1, ReasonJustifies
      DEF Decision!StandsAgainst, Decision!CoreActionClasses, CoreActionClasses,
          ReasonCodes
    <2>4. QED
      BY <1>4, <2>2, <2>3, EarlyStageSound
      DEF assertKnownActionClass, ActionFault, Unless
  <1>5. CASE assertKnownActionClass("requestedAction", request.requestedActionClass,
                                    "match")
    <2> DEFINE known == request.requestedActionClass \in CoreActionClasses
    <2>1. stage = "requestedAction"
      BY <1>5 DEF assertKnownActionClass, Assert
    <2>2. known => EstablishedAt("match", gate, request)
      BY <1>0, <2>1
      DEF EstablishedAt, Stages, PassedShape, PassedActor, PassedActions,
          PassedActionPolicy, PassedPolicyPack, PassedProvenance, PassedLogging,
          PassedBoundary, PassedProhibitedUse, PassedControls, PassedTrust,
          PassedApproval, PassedChain
    <2>3. ~ known => Justified(gate, request, "UNKNOWN_ACTION_CLASS")
      BY <1>2, <2>1, ReasonJustifies
      DEF Decision!StandsAgainst, Decision!CoreActionClasses, CoreActionClasses,
          ReasonCodes
    <2>4. QED
      BY <1>5, <2>2, <2>3, EarlyStageSound
      DEF assertKnownActionClass, ActionFault, Unless
  <1>6. CASE assertActionsMatch
    <2> DEFINE match == request.proposedActionClass = request.requestedActionClass
    <2>1. stage = "match"
      BY <1>6 DEF assertActionsMatch, Assert
    <2>2. match => EstablishedAt("actionPolicy", gate, request)
      BY <1>0, <2>1
      DEF EstablishedAt, Stages, PassedShape, PassedActor, PassedActions,
          PassedActionPolicy, PassedPolicyPack, PassedProvenance, PassedLogging,
          PassedBoundary, PassedProhibitedUse, PassedControls, PassedTrust,
          PassedApproval, PassedChain
    <2>3. ~ match => Justified(gate, request, "INVALID_PROPOSAL")
      BY <1>2, <2>1, ReasonJustifies DEF Decision!StandsAgainst, ReasonCodes
    <2>4. QED
      BY <1>6, <2>2, <2>3, EarlyStageSound
      DEF assertActionsMatch, ActionsMatchFault, Unless
  <1>7. QED
    BY <1>1, <1>3, <1>4, <1>5, <1>6

\* Applying the policy pack: a blocked action stops here, anything else goes on
\* as the policy sees it.
LEMMA PolicyStageSound ==
    ASSUME SoundInv, BlockByActionPolicy \/ DeriveApprovalRequirement
    PROVE  GateInv' /\ VerdictsSound'
  <1>1. /\ stage = "actionPolicy"
        /\ EstablishedAt("actionPolicy", gate, request)
        /\ effective = request
        /\ ActionPolicyBehaviourIs(gate, request, "blocked") <=>
               Decision!PolicyBehaviourIs(gate, request, "blocked")
    BY ViewOfStage
    DEF BlockByActionPolicy, DeriveApprovalRequirement, SoundInv, GateInv, EarlyStages,
        ActionPolicyBehaviourIs, Decision!PolicyBehaviourIs
  <1>2. CASE BlockByActionPolicy
    <2>1. request.shape = "ok"
      BY <1>1 DEF EstablishedAt, PassedShape, Stages
    <2>2. Justified(gate, request, "MALFORMED_REQUEST")
      BY <1>1, <1>2, <2>1, ReasonJustifies
      DEF BlockByActionPolicy, Decision!StandsAgainst, ReasonCodes
    <2>3. Assert("actionPolicy", "INV-11", "MALFORMED_REQUEST", "policyPack")
      BY <1>2 DEF BlockByActionPolicy, ActionPolicyFault, Unless
    <2>4. Assert("actionPolicy", "INV-11", "MALFORMED_REQUEST", "actionPolicy")
      BY <2>3 DEF Assert, NoFault
    <2>5. QED
      BY <2>2, <2>4, EarlyStageSound DEF EarlyStages, NoFault
  <1>3. CASE DeriveApprovalRequirement
    <2>1. EstablishedAt("policyPack", gate, request)
      BY <1>1, <1>3
      DEF EstablishedAt, Stages, PassedShape, PassedActor, PassedActions,
          PassedActionPolicy, PassedPolicyPack, PassedProvenance, PassedLogging,
          PassedBoundary, PassedProhibitedUse, PassedControls, PassedTrust,
          PassedApproval, PassedChain, DeriveApprovalRequirement
    <2>2. ViewAt("policyPack", gate, request, EffectiveRequest(gate, request))
      BY ViewOfStage DEF LateStages
    <2>3. /\ stage' = "policyPack" /\ gate' = gate /\ request' = request
          /\ effective' = EffectiveRequest(gate, request) /\ issued' = issued
      BY <1>3 DEF DeriveApprovalRequirement, callVars
    <2>4. VerdictsSound'
      BY <2>3 DEF SoundInv, VerdictsSound
    <2>5. EstablishedAt(stage', gate', request') /\ ViewAt(stage', gate', request', effective')
      BY <2>1, <2>2, <2>3
    <2>6. QED
      BY <2>3, <2>4, <2>5 DEF GateInv
  <1>4. QED
    BY <1>2, <1>3

\* After the policy pack has been applied, the gate works on the policy's view
\* of a request that has the right shape.
LEMMA LateView ==
    ASSUME SoundInv, stage \in LateStages
    PROVE  /\ gate \in GateType /\ request \in GovernedRequestType
           /\ EstablishedAt(stage, gate, request)
           /\ request.shape = "ok"
           /\ effective = EffectiveRequest(gate, request)
           /\ effective \in GovernedRequestType
           /\ effective.actorAuthorityClass = Decision!CanonicalClass(gate, request)
           /\ effectiveApprovalRequired(effective) <=>
                  Decision!ApprovalNeeded(gate, request)
           /\ effective.requestId = request.requestId
           /\ effective.workflowClass = request.workflowClass
           /\ effective.proposalSourceKind = request.proposalSourceKind
           /\ effective.authorityBearing = request.authorityBearing
           /\ effective.sensitive = request.sensitive
           /\ effective.prohibitedUse = request.prohibitedUse
           /\ effective.policyPackRef = request.policyPackRef
           /\ effective.provenanceRef = request.provenanceRef
           /\ effective.approvalArtifact = request.approvalArtifact
           /\ effective.loggingReady = request.loggingReady
           /\ effective.controlStatus = request.controlStatus
           /\ effective.trustState = request.trustState
           /\ effective.createdAt = request.createdAt
  <1>1. /\ gate \in GateType /\ request \in GovernedRequestType
        /\ effective \in GovernedRequestType
    BY GatesAssumption DEF SoundInv, TypeInv, TypeOK, LateStages
  <1>2. EstablishedAt(stage, gate, request)
    BY DEF SoundInv, GateInv, LateStages
  <1>3. request.shape = "ok"
    BY <1>2 DEF EstablishedAt, PassedShape, Stages, LateStages
  <1>4. effective = EffectiveRequest(gate, request)
    BY ViewOfStage DEF SoundInv, GateInv, LateStages
  <1>5. QED
    BY <1>1, <1>2, <1>3, <1>4, EffectiveRequestIsPolicyView

LEMMA ConditionStagesSound ==
    ASSUME SoundInv, \/ assertPolicyPack
           \/ assertProvenance
           \/ assertLoggingReady
           \/ assertProposalBoundary
           \/ assertProhibitedUse
           \/ assertControlStatus
           \/ assertTrustState
    PROVE  GateInv' /\ VerdictsSound'
  <1> USE DEF LateStages, NoFault
  <1>1. stage \in LateStages
    BY DEF assertPolicyPack, assertProvenance, assertLoggingReady,
           assertProposalBoundary, assertProhibitedUse, assertControlStatus,
           assertTrustState, Assert
  <1>0. /\ gate \in GateType /\ request \in GovernedRequestType
        /\ EstablishedAt(stage, gate, request)
        /\ request.shape = "ok"
        /\ effective.actorAuthorityClass = Decision!CanonicalClass(gate, request)
        /\ effective.proposalSourceKind = request.proposalSourceKind
        /\ effective.authorityBearing = request.authorityBearing
        /\ effective.sensitive = request.sensitive
        /\ effective.prohibitedUse = request.prohibitedUse
        /\ effective.policyPackRef = request.policyPackRef
        /\ effective.provenanceRef = request.provenanceRef
        /\ effective.loggingReady = request.loggingReady
        /\ effective.controlStatus = request.controlStatus
        /\ effective.trustState = request.trustState
    BY <1>1, LateView
  <1>2. CASE assertPolicyPack
    <2> DEFINE raised == PolicyPackFault(effective)
    <2>1. stage = "policyPack"
      BY <1>2 DEF assertPolicyPack, Assert
    <2>2. raised = NoFault => EstablishedAt("provenance", gate, request)
      BY <1>0, <1>1, <2>1
      DEF EstablishedAt, Stages, PassedShape, PassedActor, PassedActions,
          PassedActionPolicy, PassedPolicyPack, PassedProvenance, PassedLogging,
          PassedBoundary, PassedProhibitedUse, PassedControls, PassedTrust,
          PassedApproval, PassedChain, PolicyPackFault, Unless
    <2>3. raised # NoFault => Justified(gate, request, raised)
      BY <1>0, <1>1, <2>1, ReasonJustifies
      DEF Decision!StandsAgainst, ReasonCodes, PolicyPackFault, Unless
    <2>4. QED
      BY <1>2, <2>2, <2>3, LateStageSound DEF assertPolicyPack
  <1>3. CASE assertProvenance
    <2> DEFINE raised == ProvenanceFault(effective)
    <2>1. stage = "provenance"
      BY <1>3 DEF assertProvenance, Assert
    <2>2. raised = NoFault => EstablishedAt("logging", gate, request)
      BY <1>0, <1>1, <2>1
      DEF EstablishedAt, Stages, PassedShape, PassedActor, PassedActions,
          PassedActionPolicy, PassedPolicyPack, PassedProvenance, PassedLogging,
          PassedBoundary, PassedProhibitedUse, PassedControls, PassedTrust,
          PassedApproval, PassedChain, ProvenanceFault
    <2>3. raised # NoFault => Justified(gate, request, raised)
      BY <1>0, <1>1, <2>1, ReasonJustifies, TypeErrorJustifies
      DEF Decision!StandsAgainst, ReasonCodes, Decision!DataMissing, ProvenanceFault, GovernedRequestType
    <2>4. QED
      BY <1>3, <2>2, <2>3, LateStageSound DEF assertProvenance
  <1>4. CASE assertLoggingReady
    <2> DEFINE raised == Unless(effective.loggingReady, "LOGGING_NOT_READY")
    <2>1. stage = "logging"
      BY <1>4 DEF assertLoggingReady, Assert
    <2>2. raised = NoFault => EstablishedAt("boundary", gate, request)
      BY <1>0, <1>1, <2>1
      DEF EstablishedAt, Stages, PassedShape, PassedActor, PassedActions,
          PassedActionPolicy, PassedPolicyPack, PassedProvenance, PassedLogging,
          PassedBoundary, PassedProhibitedUse, PassedControls, PassedTrust,
          PassedApproval, PassedChain, Unless
    <2>3. raised # NoFault => Justified(gate, request, raised)
      BY <1>0, <1>1, <2>1, ReasonJustifies
      DEF Decision!StandsAgainst, ReasonCodes, Unless
    <2>4. QED
      BY <1>4, <2>2, <2>3, LateStageSound DEF assertLoggingReady, LoggingFault
  <1>5. CASE assertProposalBoundary
    <2> DEFINE raised == ProposalBoundaryFault(effective)
    <2>1. stage = "boundary"
      BY <1>5 DEF assertProposalBoundary, Assert
    <2>2. raised = NoFault => EstablishedAt("prohibitedUse", gate, request)
      BY <1>0, <1>1, <2>1
      DEF EstablishedAt, Stages, PassedShape, PassedActor, PassedActions,
          PassedActionPolicy, PassedPolicyPack, PassedProvenance, PassedLogging,
          PassedBoundary, PassedProhibitedUse, PassedControls, PassedTrust,
          PassedApproval, PassedChain, ProposalBoundaryFault, Unless
    <2>3. raised # NoFault => Justified(gate, request, raised)
      BY <1>0, <1>1, <2>1, ReasonJustifies
      DEF Decision!StandsAgainst, ReasonCodes, ProposalBoundaryFault, Unless
    <2>4. QED
      BY <1>5, <2>2, <2>3, LateStageSound DEF assertProposalBoundary
  <1>6. CASE assertProhibitedUse
    <2> DEFINE raised == Unless(~ effective.prohibitedUse, "PROHIBITED_USE")
    <2>1. stage = "prohibitedUse"
      BY <1>6 DEF assertProhibitedUse, Assert
    <2>2. raised = NoFault => EstablishedAt("controls", gate, request)
      BY <1>0, <1>1, <2>1
      DEF EstablishedAt, Stages, PassedShape, PassedActor, PassedActions,
          PassedActionPolicy, PassedPolicyPack, PassedProvenance, PassedLogging,
          PassedBoundary, PassedProhibitedUse, PassedControls, PassedTrust,
          PassedApproval, PassedChain, Unless
    <2>3. raised # NoFault => Justified(gate, request, raised)
      BY <1>0, <1>1, <2>1, ReasonJustifies
      DEF Decision!StandsAgainst, ReasonCodes, Unless
    <2>4. QED
      BY <1>6, <2>2, <2>3, LateStageSound DEF assertProhibitedUse, ProhibitedUseFault
  <1>7. CASE assertControlStatus
    <2> DEFINE raised == ControlStatusFault(effective)
    <2>1. stage = "controls"
      BY <1>7 DEF assertControlStatus, Assert
    <2>2. raised = NoFault => EstablishedAt("trust", gate, request)
      BY <1>0, <1>1, <2>1
      DEF EstablishedAt, Stages, PassedShape, PassedActor, PassedActions,
          PassedActionPolicy, PassedPolicyPack, PassedProvenance, PassedLogging,
          PassedBoundary, PassedProhibitedUse, PassedControls, PassedTrust,
          PassedApproval, PassedChain, ControlStatusFault
    <2>3. raised # NoFault => Justified(gate, request, raised)
      BY <1>0, <1>1, <2>1, ReasonJustifies, TypeErrorJustifies
      DEF Decision!StandsAgainst, ReasonCodes, Decision!DataMissing, ControlStatusFault, GovernedRequestType
    <2>4. QED
      BY <1>7, <2>2, <2>3, LateStageSound DEF assertControlStatus
  <1>8. CASE assertTrustState
    <2> DEFINE raised == TrustStateFault(effective)
    <2>1. stage = "trust"
      BY <1>8 DEF assertTrustState, Assert
    <2>2. raised = NoFault => EstablishedAt("approval", gate, request)
      BY <1>0, <1>1, <2>1
      DEF EstablishedAt, Stages, PassedShape, PassedActor, PassedActions,
          PassedActionPolicy, PassedPolicyPack, PassedProvenance, PassedLogging,
          PassedBoundary, PassedProhibitedUse, PassedControls, PassedTrust,
          PassedApproval, PassedChain, TrustStateFault
    <2>3. raised # NoFault => Justified(gate, request, raised)
      BY <1>0, <1>1, <2>1, ReasonJustifies, TypeErrorJustifies
      DEF Decision!StandsAgainst, ReasonCodes, Decision!DataMissing, TrustStateFault, GovernedRequestType
    <2>4. QED
      BY <1>8, <2>2, <2>3, LateStageSound DEF assertTrustState
  <1>9. QED
    BY <1>2, <1>3, <1>4, <1>5, <1>6, <1>7, <1>8

\* What stands against a request that has passed every stage before the
\* approval is a matter of its approval.
LEMMA OnlyApprovalStands ==
    ASSUME NEW g \in GateType, NEW r \in GovernedRequestType,
           NEW s \in {"approval", "chain", "allow"}, EstablishedAt(s, g, r),
           NEW f \in ReasonCodes, Decision!StandsAgainst(g, r, f)
    PROVE  /\ Decision!ApprovalNeeded(g, r)
           /\ r.approvalArtifact = Null => f = "REQUIRED_APPROVAL_MISSING"
           /\ s # "approval" =>
                 /\ f = "INVALID_APPROVAL_AUTHORITY"
                 /\ ~ Decision!MayApprove(g, r, r.approvalArtifact.approverAuthorityClass)
  <1>1. /\ r.shape = "ok"
        /\ Decision!CanonicalClass(g, r) \in Decision!KnownClasses(g)
        /\ r.proposedActionClass \in CoreActionClasses
        /\ r.requestedActionClass = r.proposedActionClass
        /\ ~ Decision!PolicyBehaviourIs(g, r, "blocked")
    BY DEF EstablishedAt, Stages, PassedShape, PassedActor, PassedActions,
          PassedActionPolicy, PassedPolicyPack, PassedProvenance, PassedLogging,
          PassedBoundary, PassedProhibitedUse, PassedControls, PassedTrust,
          PassedApproval, PassedChain
  <1>2. /\ r.policyPackRef # "null"
        /\ r.provenanceRef = "complete"
        /\ r.loggingReady
        /\ ~ r.authorityBearing
        /\ ~ (r.proposalSourceKind = "ai" /\ Decision!CanonicalClass(g, r) = "ai")
    BY DEF EstablishedAt, Stages, PassedShape, PassedActor, PassedActions,
          PassedActionPolicy, PassedPolicyPack, PassedProvenance, PassedLogging,
          PassedBoundary, PassedProhibitedUse, PassedControls, PassedTrust,
          PassedApproval, PassedChain
  <1>3. /\ ~ r.prohibitedUse
        /\ ~ r.sensitive \/ r.controlStatus = "valid"
        /\ r.trustState = "trusted"
        /\ s # "approval" /\ Decision!ApprovalNeeded(g, r) => ArtifactAccepted(r)
    BY DEF EstablishedAt, Stages, PassedShape, PassedActor, PassedActions,
          PassedActionPolicy, PassedPolicyPack, PassedProvenance, PassedLogging,
          PassedBoundary, PassedProhibitedUse, PassedControls, PassedTrust,
          PassedApproval, PassedChain
  <1>4. CASE f = "MALFORMED_REQUEST"
    <2>1. Decision!DataMissing(g, r)
      BY <1>1, <1>4 DEF Decision!StandsAgainst
    <2>2. /\ Decision!ApprovalNeeded(g, r)
          /\ r.approvalArtifact # Null
          /\ ~ ArtifactAccepted(r)
      BY <1>1, <1>2, <1>3, <2>1, NullAssumption
      DEF Decision!DataMissing, Decision!ApprovalGiven, ArtifactAccepted,
          Decision!InvalidDate, InvalidDate
    <2>3. QED
      BY <1>3, <2>2
  <1>5. CASE f # "MALFORMED_REQUEST"
    <2>1. \/ /\ f = "REQUIRED_APPROVAL_MISSING"
             /\ Decision!ApprovalNeeded(g, r) /\ r.approvalArtifact = Null
          \/ /\ Decision!ApprovalGiven(g, r)
             /\ \/ /\ f = "INVALID_APPROVAL_AUTHORITY"
                   /\ \/ r.approvalArtifact.forRequestId # r.requestId
                      \/ r.approvalArtifact.approvedAt \in 0 .. (r.createdAt - 1)
                      \/ ~ Decision!MayApprove(g, r, r.approvalArtifact.approverAuthorityClass)
                \/ ~ r.approvalArtifact.privilegedAuthSatisfied
                \/ r.approvalArtifact.immutableSignature = "blank"
      BY <1>1, <1>2, <1>3, <1>5
      DEF Decision!StandsAgainst, Decision!CoreActionClasses, CoreActionClasses
    <2>2. ArtifactAccepted(r) =>
             /\ r.approvalArtifact \in ApprovalArtifact
             /\ r.approvalArtifact.approvedAt \notin 0 .. (r.createdAt - 1)
      BY DEF ArtifactAccepted, GovernedRequestType, ApprovalArtifact, Instant, InvalidDate
    <2>3. QED
      BY <1>3, <2>1, <2>2 DEF Decision!ApprovalGiven, ArtifactAccepted
  <1>6. QED
    BY <1>4, <1>5

\* Every way the artifact check can end.
LEMMA ArtifactFaultSound ==
    ASSUME NEW g \in GateType, NEW r \in GovernedRequestType, NEW e,
           e.requestId = r.requestId, e.createdAt = r.createdAt, r.shape = "ok",
           Decision!ApprovalNeeded(g, r), r.approvalArtifact \notin {Null, Absent},
           NEW f, f = ArtifactFault(e, r.approvalArtifact)
    PROVE  /\ f = NoFault => ArtifactAccepted(r)
           /\ f # NoFault => Justified(g, r, f)
           /\ f # "REQUIRED_APPROVAL_MISSING"
  <1> DEFINE a == r.approvalArtifact
  <1>1. /\ a \in ApprovalArtifact
        /\ Decision!ApprovalGiven(g, r)
        /\ Decision!InvalidDate = -1
    BY DEF GovernedRequestType, Decision!ApprovalGiven, Decision!InvalidDate
  <1>2. CASE a.forRequestId # r.requestId
    BY <1>1, <1>2, ReasonJustifies
    DEF ArtifactFault, NoFault, Decision!StandsAgainst, ReasonCodes
  <1>3. CASE /\ a.forRequestId = r.requestId
             /\ r.createdAt = InvalidDate \/ a.approvedAt = InvalidDate
    <2>1. Decision!DataMissing(g, r)
      BY <1>1, <1>3 DEF Decision!DataMissing, InvalidDate
    <2>2. QED
      BY <1>1, <1>3, <2>1, ReasonJustifies
      DEF ArtifactFault, NoFault, Decision!StandsAgainst, ReasonCodes
  <1>4. CASE /\ a.forRequestId = r.requestId
             /\ r.createdAt # InvalidDate /\ a.approvedAt # InvalidDate
             /\ \/ a.approvedAt < r.createdAt
                \/ a.approverAuthorityClass \notin HumanAuthorityClasses
    <2>1. \/ a.approvedAt \in 0 .. (r.createdAt - 1)
          \/ ~ Decision!MayApprove(g, r, a.approverAuthorityClass)
      BY <1>1, <1>4
      DEF ApprovalArtifact, GovernedRequestType, Instant, InvalidDate,
          Decision!MayApprove, Decision!HumanAuthorityClasses, HumanAuthorityClasses
    <2>2. f = "INVALID_APPROVAL_AUTHORITY"
      BY <1>4 DEF ArtifactFault
    <2>3. QED
      BY <1>1, <2>1, <2>2, ReasonJustifies DEF NoFault, Decision!StandsAgainst, ReasonCodes
  <1>5. CASE /\ a.forRequestId = r.requestId
             /\ r.createdAt # InvalidDate /\ a.approvedAt # InvalidDate
             /\ ~ (a.approvedAt < r.createdAt)
             /\ a.approverAuthorityClass \in HumanAuthorityClasses
    <2>1. CASE ~ a.privilegedAuthSatisfied
      BY <1>1, <1>5, <2>1, ReasonJustifies
      DEF ArtifactFault, NoFault, Decision!StandsAgainst, ReasonCodes
    <2>2. CASE a.privilegedAuthSatisfied /\ a.immutableSignature = "signed"
      <3>1. a.approvedAt >= r.createdAt
        BY <1>1, <1>5 DEF ApprovalArtifact, GovernedRequestType, Instant, InvalidDate
      <3>2. f = NoFault
        BY <1>5, <2>2 DEF ArtifactFault
      <3>3. QED
        BY <1>5, <2>2, <3>1, <3>2 DEF ArtifactAccepted, NoFault
    <2>3. CASE a.privilegedAuthSatisfied /\ a.immutableSignature = "blank"
      BY <1>1, <1>5, <2>3, ReasonJustifies
      DEF ArtifactFault, NoFault, Decision!StandsAgainst, ReasonCodes
    <2>4. CASE a.privilegedAuthSatisfied /\ a.immutableSignature = "absent"
      <3>1. f = "TypeError"
        BY <1>5, <2>4 DEF ArtifactFault
      <3>2. QED
        BY <1>1, <2>4, <3>1, TypeErrorJustifies DEF Decision!DataMissing, NoFault
    <2>5. QED
      BY <1>1, <2>1, <2>2, <2>3, <2>4 DEF ApprovalArtifact
  <1>6. QED
    BY <1>2, <1>3, <1>4, <1>5

LEMMA ApprovalStageSound ==
    ASSUME SoundInv, assertApprovalState
    PROVE  GateInv' /\ VerdictsSound'
  <1> DEFINE raised == ApprovalStateFault(effective)
  <1>1. stage = "approval"
    BY DEF assertApprovalState, Assert
  <1>2. /\ gate \in GateType /\ request \in GovernedRequestType
        /\ EstablishedAt("approval", gate, request)
        /\ request.shape = "ok"
        /\ effectiveApprovalRequired(effective) <=> Decision!ApprovalNeeded(gate, request)
        /\ effective.requestId = request.requestId
        /\ effective.createdAt = request.createdAt
        /\ effective.approvalArtifact = request.approvalArtifact
    BY <1>1, LateView DEF LateStages
  <1>3. /\ raised = NoFault /\ Decision!ApprovalNeeded(gate, request) =>
               ArtifactAccepted(request)
        /\ raised # NoFault => Justified(gate, request, raised)
    <2>1. CASE ~ Decision!ApprovalNeeded(gate, request)
      BY <1>2, <2>1 DEF ApprovalStateFault
    <2>2. CASE Decision!ApprovalNeeded(gate, request) /\ request.approvalArtifact = Null
      <3>1. raised = "REQUIRED_APPROVAL_MISSING"
        BY <1>2, <2>2, NullAssumption DEF ApprovalStateFault
      <3>2. Decision!StandsAgainst(gate, request, "REQUIRED_APPROVAL_MISSING")
        BY <2>2 DEF Decision!StandsAgainst
      <3>3. Decision!AwaitsApproval(gate, request)
        BY <1>2, <2>2, <3>2, OnlyApprovalStands
        DEF Decision!AwaitsApproval, Decision!ReasonCodes, ReasonCodes
      <3>4. QED
        BY <1>2, <3>1, <3>3 DEF Justified, NoFault, ReasonCodes
    <2>3. CASE Decision!ApprovalNeeded(gate, request) /\ request.approvalArtifact = Absent
      <3>1. raised = "TypeError"
        BY <1>2, <2>3, NullAssumption DEF ApprovalStateFault
      <3>2. QED
        BY <2>3, <3>1, TypeErrorJustifies DEF Decision!DataMissing, NoFault
    <2>4. CASE /\ Decision!ApprovalNeeded(gate, request)
               /\ request.approvalArtifact \notin {Null, Absent}
      <3>1. raised = ArtifactFault(effective, request.approvalArtifact)
        BY <1>2, <2>4 DEF ApprovalStateFault
      <3>2. QED
        BY <1>2, <2>4, <3>1, ArtifactFaultSound
    <2>5. QED
      BY <2>1, <2>2, <2>3, <2>4
  <1>4. raised = NoFault => EstablishedAt("chain", gate, request)
    BY <1>2, <1>3
    DEF EstablishedAt, Stages, PassedShape, PassedActor, PassedActions,
          PassedActionPolicy, PassedPolicyPack, PassedProvenance, PassedLogging,
          PassedBoundary, PassedProhibitedUse, PassedControls, PassedTrust,
          PassedApproval, PassedChain
  <1>5. QED
    BY <1>3, <1>4, LateStageSound DEF assertApprovalState, LateStages

\* The chain is enforced on any artifact that is there, needed or not: a chain
\* makes the approval needed.
LEMMA ChainStageSound ==
    ASSUME SoundInv, EnforceApprovalChain \/ SkipApprovalChain
    PROVE  GateInv' /\ VerdictsSound'
  <1> DEFINE raised == ApprovalChainFault(gate, effective)
             chain  == getApprovalChains(gate, request.workflowClass)
             class  == request.approvalArtifact.approverAuthorityClass
  <1>1. stage = "chain"
    BY DEF EnforceApprovalChain, SkipApprovalChain
  <1>2. /\ gate \in GateType /\ request \in GovernedRequestType
        /\ EstablishedAt("chain", gate, request)
        /\ request.shape = "ok"
        /\ effective = EffectiveRequest(gate, request)
        /\ effective.workflowClass = request.workflowClass
        /\ effective.approvalArtifact = request.approvalArtifact
    BY <1>1, LateView DEF LateStages
  <1>3. Decision!ApprovalNeeded(gate, request) => ArtifactAccepted(request)
    BY <1>2
    DEF EstablishedAt, Stages, PassedShape, PassedActor, PassedActions,
          PassedActionPolicy, PassedPolicyPack, PassedProvenance, PassedLogging,
          PassedBoundary, PassedProhibitedUse, PassedControls, PassedTrust,
          PassedApproval, PassedChain
  <1>4. /\ request.workflowClass \in WorkflowLabels
        /\ chain # {} => Decision!ApprovalNeeded(gate, request)
        /\ (\A C \in SUBSET AuthorityLabels : Absent # C)
        /\ class \in HumanAuthorityClasses =>
              (Decision!MayApprove(gate, request, class) <=> chain = {} \/ class \in chain)
    BY <1>2, NullAssumption
    DEF getApprovalChains, Decision!ApprovalNeeded, Decision!MayApprove,
        Decision!Keys, Decision!HumanAuthorityClasses, HumanAuthorityClasses,
        GateType, Dictionary, GovernedRequestType
  <1>5. ASSUME Decision!ApprovalNeeded(gate, request) =>
                   Decision!MayApprove(gate, request, class)
        PROVE  EstablishedAt("allow", gate, request)
    BY <1>2, <1>5
    DEF EstablishedAt, Stages, PassedShape, PassedActor, PassedActions,
          PassedActionPolicy, PassedPolicyPack, PassedProvenance, PassedLogging,
          PassedBoundary, PassedProhibitedUse, PassedControls, PassedTrust,
          PassedApproval, PassedChain
  <1>6. CASE EnforceApprovalChain
    <2>1. chain # {} /\ request.approvalArtifact # Null
      BY <1>2, <1>6 DEF EnforceApprovalChain, ChainApplies
    <2>2. ArtifactAccepted(request)
      BY <1>3, <1>4, <2>1
    <2>3. raised = Unless(class \in chain, "INVALID_APPROVAL_AUTHORITY")
      BY <1>2, <2>1, <2>2 DEF ApprovalChainFault, ChainApplies, ArtifactAccepted
    <2>4. CASE class \in chain
      <3>1. raised = NoFault /\ EstablishedAt("allow", gate, request)
        BY <1>4, <1>5, <2>2, <2>3, <2>4 DEF ArtifactAccepted, Unless
      <3>2. QED
        BY <1>6, <3>1, LateStageSound DEF EnforceApprovalChain, LateStages
    <2>5. CASE class \notin chain
      <3>1. Decision!StandsAgainst(gate, request, "INVALID_APPROVAL_AUTHORITY")
        BY <1>4, <2>1, <2>2, <2>5
        DEF ArtifactAccepted, Decision!StandsAgainst, Decision!ApprovalGiven
      <3>2. raised = "INVALID_APPROVAL_AUTHORITY" /\ Justified(gate, request, raised)
        BY <1>2, <2>3, <2>5, <3>1, ReasonJustifies DEF Unless, ReasonCodes
      <3>3. QED
        BY <1>6, <3>2, LateStageSound DEF EnforceApprovalChain, LateStages, NoFault
    <2>6. QED
      BY <2>4, <2>5
  <1>7. CASE SkipApprovalChain
    <2>1. chain = {} \/ request.approvalArtifact = Null
      BY <1>2, <1>7 DEF SkipApprovalChain, ChainApplies
    <2>2. EstablishedAt("allow", gate, request)
      BY <1>3, <1>4, <1>5, <2>1 DEF ArtifactAccepted
    <2>3. /\ stage' = "allow" /\ gate' = gate /\ request' = request
          /\ effective' = effective /\ issued' = issued
      BY <1>7 DEF SkipApprovalChain, callVars
    <2>4. ViewAt("allow", gate, request, effective)
      BY <1>2, ViewOfStage DEF LateStages
    <2>5. /\ EstablishedAt(stage', gate', request')
          /\ ViewAt(stage', gate', request', effective')
      BY <2>2, <2>3, <2>4
    <2>6. QED
      BY <2>3, <2>5 DEF GateInv, SoundInv, VerdictsSound
  <1>8. QED
    BY <1>6, <1>7

\* Leaving evaluate with a result that is the verdict for the call.
LEMMA ReturnSound ==
    ASSUME SoundInv, NEW result, Return(result),
           Decision!Verdict(gate, request, result.finalState, result.reason)
    PROVE  GateInv' /\ VerdictsSound'
  <1>1. /\ stage' = "idle"
        /\ issued' = issued \cup
              {[gate |-> gate, request |-> request, result |-> result]}
    BY DEF Return, Leave
  <1>2. VerdictsSound'
    BY <1>1 DEF SoundInv, VerdictsSound
  <1>3. QED
    BY <1>1, <1>2 DEF GateInv

LEMMA VerdictFields ==
    ASSUME NEW view, NEW finalState, NEW reason, NEW permitted, NEW trace
    PROVE  /\ Result(view, finalState, reason, permitted, trace).finalState = finalState
           /\ Result(view, finalState, reason, permitted, trace).reason = reason
  BY DEF Result

\* A call that returns can be read and returns its verdict.
LEMMA ReturnsVerdict ==
    ASSUME SoundInv, ReturnAllow \/ ReturnBlocked \/ ReturnFallback
    PROVE  /\ stage # "idle" /\ request.shape # "unreadable"
           /\ \E result :
                 /\ Return(result)
                 /\ Decision!Verdict(gate, request, result.finalState, result.reason)
  <1>1. stage = "catch" =>
           /\ gate \in GateType /\ request \in GovernedRequestType
           /\ Justified(gate, request, fault)
           /\ effective \in {request, EffectiveRequest(gate, request)}
           /\ fault # NoFault
    BY GatesAssumption DEF SoundInv, TypeInv, TypeOK, GateInv
  <1>2. CASE ReturnAllow
    <2>1. /\ gate \in GateType /\ request \in GovernedRequestType
          /\ EstablishedAt("allow", gate, request)
          /\ request.shape = "ok"
      BY <1>2, LateView DEF ReturnAllow, LateStages
    <2>2. Decision!ApprovalNeeded(gate, request) =>
             Decision!MayApprove(gate, request,
                                 request.approvalArtifact.approverAuthorityClass)
      BY <2>1
      DEF EstablishedAt, Stages, PassedShape, PassedActor, PassedActions,
          PassedActionPolicy, PassedPolicyPack, PassedProvenance, PassedLogging,
          PassedBoundary, PassedProhibitedUse, PassedControls, PassedTrust,
          PassedApproval, PassedChain
    <2>3. Decision!MayRelease(gate, request)
      BY <2>1, <2>2, OnlyApprovalStands
      DEF Decision!MayRelease, Decision!ReasonCodes, ReasonCodes
    <2>4. Decision!Verdict(gate, request, "ALLOW", "DECISION_ALLOWED")
      BY <2>3 DEF Decision!Verdict
    <2>5. QED
      BY <1>2, <2>1, <2>4, VerdictFields DEF ReturnAllow, Allowed
  <1>3. CASE ReturnBlocked
    <2>1. /\ fault \in ReasonCodes /\ Justified(gate, request, fault)
          /\ request.shape # "unreadable"
      BY <1>1, <1>3 DEF ReturnBlocked, Justified
    <2>2. Decision!Verdict(gate, request, BlockedStateOf(fault), fault)
      BY <2>1 DEF Justified, BlockedStateOf, Decision!Verdict, Decision!ReasonCodes,
                  ReasonCodes
    <2>3. QED
      BY <1>3, <2>1, <2>2, VerdictFields DEF ReturnBlocked, Blocked
  <1>4. CASE ReturnFallback
    <2>1. Decision!DataMissing(gate, request)
      BY <1>1, <1>4 DEF ReturnFallback, Justified
    <2>2. Decision!Verdict(gate, request, "REJECT", "MALFORMED_REQUEST")
      BY <2>1 DEF Decision!Verdict, Decision!StandsAgainst, Decision!ReasonCodes
    <2>3. request.shape # "unreadable"
      BY <1>1, <1>4, EffectiveRequestType DEF ReturnFallback
    <2>4. QED
      BY <1>4, <2>2, <2>3, VerdictFields DEF ReturnFallback, Fallback
  <1>5. QED
    BY <1>2, <1>3, <1>4

LEMMA ReturnsSound ==
    ASSUME SoundInv, ReturnAllow \/ ReturnBlocked \/ ReturnFallback \/ Rethrow
    PROVE  GateInv' /\ VerdictsSound'
  <1>1. CASE ReturnAllow \/ ReturnBlocked \/ ReturnFallback
    BY <1>1, ReturnsVerdict, ReturnSound
  <1>2. CASE Rethrow
    BY <1>2 DEF Rethrow, Leave, GateInv, SoundInv, VerdictsSound
  <1>3. QED
    BY <1>1, <1>2

LEMMA CallSound ==
    ASSUME SoundInv, NEW g \in Gates, NEW r \in Requests, Call(g, r)
    PROVE  GateInv' /\ VerdictsSound'
  <1>1. /\ stage' = "shape" /\ gate' = g /\ request' = r /\ effective' = r
        /\ issued' = issued
    BY DEF Call
  <1>2. EstablishedAt("shape", g, r)
    BY DEF EstablishedAt, Stages, PassedShape, PassedActor, PassedActions,
          PassedActionPolicy, PassedPolicyPack, PassedProvenance, PassedLogging,
          PassedBoundary, PassedProhibitedUse, PassedControls, PassedTrust,
          PassedApproval, PassedChain
  <1>3. ViewAt("shape", g, r, r)
    BY ViewOfStage DEF EarlyStages
  <1>4. EstablishedAt(stage', gate', request') /\ ViewAt(stage', gate', request', effective')
    BY <1>1, <1>2, <1>3
  <1>5. QED
    BY <1>1, <1>4 DEF GateInv, SoundInv, VerdictsSound

LEMMA StepSound ==
    ASSUME SoundInv, [Next]_vars
    PROVE  SoundInv'
  <1>1. TypeInv'
    BY EvaluateType, CallType DEF SoundInv, Next, vars, TypeInv, TypeOK
  <1>2. GateInv' /\ VerdictsSound'
    <2>1. CASE Evaluate
      BY <2>1, EarlyStagesSound, PolicyStageSound, ConditionStagesSound,
         ApprovalStageSound, ChainStageSound, ReturnsSound
      DEF Evaluate
    <2>2. CASE UNCHANGED vars
      BY <2>2 DEF vars, SoundInv, GateInv, VerdictsSound
    <2>3. QED
      BY <2>1, <2>2, CallSound DEF Next
  <1>3. QED
    BY <1>1, <1>2 DEF SoundInv

LEMMA InitSound == Init => SoundInv
  BY MaxEvaluationsAssumption
  DEF Init, SoundInv, TypeInv, TypeOK, GateInv, VerdictsSound, Stages, NoFault

\* The stages lead to the verdict: what a call has been through is established
\* for its request, and what is in the catch block has its cause there.
THEOREM StagesAreSound == Spec => []GateInv
  <1>1. SoundInv /\ [Next]_vars => SoundInv'
    BY StepSound
  <1>2. SoundInv => GateInv
    BY DEF SoundInv
  <1>3. QED
    BY <1>1, <1>2, InitSound, PTL DEF Spec

\* Fail closed: every decision ever issued is the verdict the promise gives for
\* its call; what is allowed has no reason code against it.
THEOREM VerdictsAreSound == Spec => []VerdictsSound
  <1>1. SoundInv /\ [Next]_vars => SoundInv'
    BY StepSound
  <1>2. SoundInv => VerdictsSound
    BY DEF SoundInv
  <1>3. QED
    BY <1>1, <1>2, InitSound, PTL DEF Spec

--------------------------------------------------------------------------------
(* The gate implements the one-step promise.                                *)

\* A step inside a call is invisible to the promise.
LEMMA InnerStepStutters ==
    ASSUME NEW here, here # "idle", NEW next, next # "idle",
           stage = here, stage' = next,
           UNCHANGED <<gate, request, issued, rethrown>>
    PROVE  UNCHANGED Decision!vars
  BY DEF Decision!vars

LEMMA AssertStutters ==
    ASSUME NEW here \in Stages \ {"idle"}, NEW next \in Stages \ {"idle"},
           NEW code, NEW raised, Assert(here, code, raised, next)
    PROVE  UNCHANGED Decision!vars
  BY InnerStepStutters DEF Assert, callVars

LEMMA EvaluateStutters ==
    ASSUME Evaluate, ~ (ReturnAllow \/ ReturnBlocked \/ ReturnFallback \/ Rethrow)
    PROVE  UNCHANGED Decision!vars
  <1>1. CASE DeriveApprovalRequirement \/ SkipApprovalChain
    BY <1>1, InnerStepStutters DEF DeriveApprovalRequirement, SkipApprovalChain, callVars
  <1>2. CASE BlockByActionPolicy \/ EnforceApprovalChain
    BY <1>2, AssertStutters DEF BlockByActionPolicy, EnforceApprovalChain, Stages
  <1>3. CASE \/ assertRequestShape \/ assertActorAuthorityClass \/ assertActionsMatch
             \/ assertPolicyPack \/ assertProvenance \/ assertLoggingReady
             \/ assertProposalBoundary \/ assertProhibitedUse \/ assertControlStatus
             \/ assertTrustState \/ assertApprovalState
    BY <1>3, AssertStutters
    DEF assertRequestShape, assertActorAuthorityClass, assertActionsMatch,
        assertPolicyPack, assertProvenance, assertLoggingReady, assertProposalBoundary,
        assertProhibitedUse, assertControlStatus, assertTrustState, assertApprovalState,
        Stages
  <1>4. ASSUME NEW class,
               \/ assertKnownActionClass("proposedAction", class, "requestedAction")
               \/ assertKnownActionClass("requestedAction", class, "match")
        PROVE  UNCHANGED Decision!vars
    BY <1>4, AssertStutters DEF assertKnownActionClass, Stages
  <1>5. QED
    BY <1>1, <1>2, <1>3, <1>4 DEF Evaluate

\* Returning a verdict is the step that answers the call.
LEMMA ReturnAnswers ==
    ASSUME SoundInv, ReturnAllow \/ ReturnBlocked \/ ReturnFallback
    PROVE  Decision!Answer
  <1> DEFINE theCall == [gate |-> gate, request |-> request]
             answer(result) == [gate |-> gate, request |-> request, result |-> result]
             abstract(i) == [gate |-> i.gate, request |-> i.request,
                             finalState |-> i.result.finalState,
                             reason |-> i.result.reason]
  <1>1. stage # "idle" /\ request.shape # "unreadable"
    BY ReturnsVerdict
  <1>2. PICK result :
           /\ Return(result)
           /\ Decision!Verdict(gate, request, result.finalState, result.reason)
    BY ReturnsVerdict
  <1>3. /\ stage' = "idle" /\ issued' = issued \cup {answer(result)}
        /\ rethrown' = rethrown
    BY <1>2 DEF Return, Leave
  <1>4. theCall # Null
    BY <1>1, NullAssumption, GatesAssumption DEF SoundInv, TypeInv, TypeOK
  <1>5. /\ result.finalState \in {"ALLOW", "HOLD", "REJECT"}
        /\ result.reason \in Decision!ReasonCodes \cup {"DECISION_ALLOWED"}
    BY <1>2 DEF Decision!Verdict, Decision!ReasonCodes
  <1>6. {abstract(i) : i \in issued'} =
            {abstract(i) : i \in issued} \cup
            {[gate |-> theCall.gate, request |-> theCall.request,
              finalState |-> result.finalState, reason |-> result.reason]}
    <2>1. abstract(answer(result)) =
              [gate |-> theCall.gate, request |-> theCall.request,
               finalState |-> result.finalState, reason |-> result.reason]
      OBVIOUS
    <2> HIDE DEF abstract, answer, theCall
    <2>2. {abstract(i) : i \in issued'} =
              {abstract(i) : i \in issued} \cup {abstract(answer(result))}
      BY <1>3
    <2>3. QED
      BY <2>1, <2>2
  <1>7. QED
    BY <1>1, <1>2, <1>3, <1>4, <1>5, <1>6 DEF Decision!Answer

LEMMA RethrowThrows ==
    ASSUME SoundInv, Rethrow
    PROVE  Decision!Throw
  <1>1. stage = "catch" /\ stage' = "idle" /\ issued' = issued
    BY DEF Rethrow, Leave
  <1>2. /\ gate \in GateType /\ request \in GovernedRequestType
        /\ effective \in {request, EffectiveRequest(gate, request)}
    BY <1>1, GatesAssumption DEF SoundInv, TypeInv, TypeOK, GateInv
  <1>3. request.shape = "unreadable"
    BY <1>2, EffectiveRequestType DEF Rethrow
  <1>4. [gate |-> gate, request |-> request] # Null
    BY <1>2, NullAssumption
  <1>5. QED
    BY <1>1, <1>3, <1>4 DEF Rethrow, Decision!Throw

LEMMA CallSubmits ==
    ASSUME NEW g \in Gates, NEW r \in Requests, Call(g, r)
    PROVE  Decision!Submit
  BY DEF Call, Decision!Submit

LEMMA StepImplements ==
    ASSUME SoundInv, [Next]_vars
    PROVE  [Decision!Next]_(Decision!vars)
  <1>1. CASE UNCHANGED vars
    BY <1>1 DEF vars, Decision!vars
  <1>2. CASE ReturnAllow \/ ReturnBlocked \/ ReturnFallback
    BY <1>2, ReturnAnswers DEF Decision!Next
  <1>3. CASE Rethrow
    BY <1>3, RethrowThrows DEF Decision!Next
  <1>4. QED
    BY <1>1, <1>2, <1>3, EvaluateStutters, CallSubmits DEF Next, Decision!Next

LEMMA InitImplements == Init => Decision!Init
  BY DEF Init, Decision!Init

\* Whatever the configuration, the policy packs and the requests: the stages
\* together do what the one-step promise says, in one visible step per call.
THEOREM GateImplementsDecision == Spec => ImplementsGateDecision
  <1>1. SoundInv /\ [Next]_vars => SoundInv'
    BY StepSound
  <1>2. SoundInv /\ [Next]_vars => [Decision!Next]_(Decision!vars)
    BY StepImplements
  <1>3. QED
    BY <1>1, <1>2, InitSound, InitImplements, PTL
    DEF Spec, ImplementsGateDecision, Decision!Spec

--------------------------------------------------------------------------------
(* What callers and operators rely on, from the verdicts.                   *)

\* A policy pack can only add to what stands against a request.
LEMMA PolicyAddsReasons ==
    ASSUME NEW g \in GateType, NEW r \in GovernedRequestType, MapsToClasses(g),
           Decision!MayRelease(g, r)
    PROVE  Decision!MayRelease(WithoutPolicy(g),
               [r EXCEPT !.actorAuthorityClass = Decision!CanonicalClass(g, r)])
  <1> DEFINE h == WithoutPolicy(g)
             q == [r EXCEPT !.actorAuthorityClass = Decision!CanonicalClass(g, r)]
  <1>1. /\ h.extendedClasses = g.extendedClasses
        /\ Decision!Keys(h.actorMappings) = {}
        /\ DOMAIN h.workflowRules = {}
        /\ Decision!Keys(h.approvalChains) = {}
        /\ \A w \in WorkflowLabels, c \in ActionLabels : h.actionPolicies[w][c] = Absent
    BY DEF WithoutPolicy, GateType, Decision!Keys
  <1>2. /\ q.requestId = r.requestId /\ q.shape = r.shape
        /\ q.workflowClass = r.workflowClass
        /\ q.actorAuthorityClass = Decision!CanonicalClass(g, r)
        /\ q.proposedActionClass = r.proposedActionClass
        /\ q.requestedActionClass = r.requestedActionClass
        /\ q.proposalSourceKind = r.proposalSourceKind
        /\ q.authorityBearing = r.authorityBearing
        /\ q.sensitive = r.sensitive /\ q.prohibitedUse = r.prohibitedUse
        /\ q.policyPackRef = r.policyPackRef /\ q.provenanceRef = r.provenanceRef
        /\ q.approvalRequired = r.approvalRequired
        /\ q.approvalArtifact = r.approvalArtifact
        /\ q.loggingReady = r.loggingReady /\ q.controlStatus = r.controlStatus
        /\ q.trustState = r.trustState /\ q.createdAt = r.createdAt
    BY DEF GovernedRequestType
  <1> HIDE DEF h, q
  <1>3. Decision!CanonicalClass(h, q) = Decision!CanonicalClass(g, r)
    BY <1>1, <1>2 DEF Decision!CanonicalClass
  <1>4. Decision!CanonicalClass(g, r) \in Decision!KnownClasses(g)
    BY DEF Decision!MayRelease, Decision!StandsAgainst, Decision!ReasonCodes
  <1>5. Decision!CanonicalClass(h, q) \in Decision!KnownClasses(h)
    BY <1>1, <1>3, <1>4
    DEF Decision!KnownClasses, Decision!CanonicalClass, MapsToClasses, Keys,
        Decision!Keys, CoreAuthorityClasses, Decision!CoreAuthorityClasses
  <1>6. /\ r.workflowClass \in WorkflowLabels /\ r.proposedActionClass \in ActionLabels
        /\ \A b \in PolicyActionBehavior : b # Absent
    BY NullAssumption DEF GovernedRequestType
  <1>7. \A b \in PolicyActionBehavior : ~ Decision!PolicyBehaviourIs(h, q, b)
    BY <1>1, <1>2, <1>6 DEF Decision!PolicyBehaviourIs
  <1>8. Decision!ApprovalNeeded(h, q) => Decision!ApprovalNeeded(g, r)
    BY <1>1, <1>2, <1>7
    DEF Decision!ApprovalNeeded, Decision!RuleAsksApproval, PolicyActionBehavior
  <1>9. \A class : Decision!MayApprove(g, r, class) => Decision!MayApprove(h, q, class)
    BY <1>1, <1>2 DEF Decision!MayApprove
  <1>10. Decision!DataMissing(h, q) => Decision!DataMissing(g, r)
    BY <1>2, <1>8 DEF Decision!DataMissing, Decision!ApprovalGiven
  <1>11. ASSUME NEW f \in ReasonCodes, Decision!StandsAgainst(h, q, f)
         PROVE  Decision!StandsAgainst(g, r, f)
    BY <1>2, <1>3, <1>5, <1>7, <1>8, <1>9, <1>10, <1>11
    DEF Decision!StandsAgainst, Decision!ApprovalGiven, PolicyActionBehavior
  <1>12. QED
    BY <1>11 DEF Decision!MayRelease, Decision!ReasonCodes, ReasonCodes, h, q

\* "It can never relax them": whatever the policy pack, it allows nothing that
\* the gate without it would not.
THEOREM PolicyPackNeverRelaxes == Spec => []PolicyOnlyRestricts
  <1>1. TypeOK /\ VerdictsSound => PolicyOnlyRestricts
    BY GatesAssumption, PolicyAddsReasons
    DEF TypeOK, VerdictsSound, PolicyOnlyRestricts, Decision!Verdict
  <1>2. QED
    BY <1>1, TypeCorrect, VerdictsAreSound, PTL

\* A request that only waits for its approval is released once it is approved.
LEMMA ApprovalReleases ==
    ASSUME NEW g \in GateType, NEW r \in GovernedRequestType,
           Decision!AwaitsApproval(g, r), NEW a \in ApprovalArtifact,
           NEW q, q = [r EXCEPT !.approvalArtifact = a], ApprovesRequest(g, q)
    PROVE  Decision!MayRelease(g, q)
  <1>1. /\ q.approvalArtifact = a
        /\ q.requestId = r.requestId /\ q.shape = r.shape
        /\ q.workflowClass = r.workflowClass
        /\ q.actorAuthorityClass = r.actorAuthorityClass
        /\ q.proposedActionClass = r.proposedActionClass
        /\ q.requestedActionClass = r.requestedActionClass
        /\ q.proposalSourceKind = r.proposalSourceKind
        /\ q.authorityBearing = r.authorityBearing
        /\ q.sensitive = r.sensitive /\ q.prohibitedUse = r.prohibitedUse
        /\ q.policyPackRef = r.policyPackRef /\ q.provenanceRef = r.provenanceRef
        /\ q.approvalRequired = r.approvalRequired
        /\ q.loggingReady = r.loggingReady /\ q.controlStatus = r.controlStatus
        /\ q.trustState = r.trustState /\ q.createdAt = r.createdAt
    BY DEF GovernedRequestType
  <1>2. a # Absent /\ a # Null /\ r.createdAt \in Instant
    BY NullAssumption DEF GovernedRequestType
  <1>3. /\ a.forRequestId = r.requestId
        /\ a.approvedAt >= r.createdAt /\ r.createdAt # InvalidDate
        /\ Decision!MayApprove(g, r, a.approverAuthorityClass)
        /\ a.privilegedAuthSatisfied /\ a.immutableSignature = "signed"
    BY <1>1 DEF ApprovesRequest, Decision!MayApprove
  <1>4. a.approvedAt # InvalidDate /\ a.approvedAt \notin 0 .. (r.createdAt - 1)
    BY <1>2, <1>3 DEF ApprovalArtifact, Instant, InvalidDate
  <1>5. /\ Decision!CanonicalClass(g, q) = Decision!CanonicalClass(g, r)
        /\ Decision!ApprovalNeeded(g, q) <=> Decision!ApprovalNeeded(g, r)
        /\ \A b : Decision!PolicyBehaviourIs(g, q, b) <=> Decision!PolicyBehaviourIs(g, r, b)
        /\ \A c : Decision!MayApprove(g, q, c) <=> Decision!MayApprove(g, r, c)
    BY <1>1
    DEF Decision!CanonicalClass, Decision!ApprovalNeeded, Decision!PolicyBehaviourIs,
        Decision!MayApprove
  <1>6. Decision!DataMissing(g, q) => Decision!DataMissing(g, r)
    BY <1>1, <1>2, <1>3, <1>4, <1>5
    DEF Decision!DataMissing, Decision!ApprovalGiven, Decision!InvalidDate, InvalidDate
  <1>7. ASSUME NEW f \in ReasonCodes, Decision!StandsAgainst(g, q, f)
        PROVE  Decision!StandsAgainst(g, r, f) /\ f # "REQUIRED_APPROVAL_MISSING"
    BY <1>1, <1>2, <1>3, <1>4, <1>5, <1>6, <1>7
    DEF Decision!StandsAgainst, Decision!ApprovalGiven
  <1>8. QED
    BY <1>7 DEF Decision!AwaitsApproval, Decision!MayRelease, Decision!ReasonCodes,
                ReasonCodes

\* Approving what was held releases it, whoever asks and whatever the policy.
THEOREM ApprovalReleasesHeld == Spec => []ApprovedResubmissionAllowed
  <1>1. TypeOK /\ VerdictsSound => ApprovedResubmissionAllowed
    <2> SUFFICES ASSUME TypeOK, VerdictsSound,
                        NEW held \in issued, NEW resubmitted \in issued,
                        held.result.finalState = "HOLD",
                        resubmitted.gate = held.gate,
                        resubmitted.request =
                            [held.request EXCEPT
                                !.approvalArtifact = resubmitted.request.approvalArtifact],
                        ApprovesRequest(resubmitted.gate, resubmitted.request)
                 PROVE  resubmitted.result.finalState = "ALLOW"
      BY DEF ApprovedResubmissionAllowed
    <2>1. /\ held.gate \in GateType
          /\ held.request \in GovernedRequestType
          /\ resubmitted.request \in GovernedRequestType
      BY GatesAssumption DEF TypeOK
    <2>2. resubmitted.request.approvalArtifact \in ApprovalArtifact
      BY <2>1 DEF ApprovesRequest, GovernedRequestType
    <2>3. Decision!AwaitsApproval(held.gate, held.request)
      BY DEF VerdictsSound, Decision!Verdict
    <2>4. Decision!MayRelease(held.gate, resubmitted.request)
      BY <2>1, <2>2, <2>3, ApprovalReleases
    <2>5. QED
      BY <2>4
      DEF VerdictsSound, Decision!Verdict, Decision!MayRelease, Decision!AwaitsApproval,
          Decision!ReasonCodes
  <1>2. QED
    BY <1>1, TypeCorrect, VerdictsAreSound, PTL

\* Only ReturnBlocked issues a HOLD, and its envelope is built from the policy's
\* view of the request.
LEMMA StepReportsRequirement ==
    ASSUME SoundInv, HoldReportsRequirement,
           [Next]_vars
    PROVE  HoldReportsRequirement'
  <1>1. CASE ReturnBlocked
    <2> DEFINE new == [gate |-> gate, request |-> request,
                       result |-> Blocked(effective, fault, checked)]
    <2>1. /\ issued' = issued \cup {new}
          /\ new.request = request
          /\ new.result.finalState = BlockedStateOf(fault)
          /\ new.result.humanApprovalRequired = effective.approvalRequired
      BY <1>1 DEF ReturnBlocked, Return, Blocked, Result
    <2>2. ASSUME BlockedStateOf(fault) = "HOLD"
          PROVE  \/ effective.approvalRequired
                 \/ request.workflowClass \in WorkflowsRequiringApproval
      <3>1. /\ gate \in GateType /\ request \in GovernedRequestType
            /\ Decision!AwaitsApproval(gate, request)
            /\ effective = EffectiveRequest(gate, request)
        BY <1>1, <2>2, GatesAssumption
        DEF ReturnBlocked, BlockedStateOf, SoundInv, TypeInv, TypeOK, GateInv, Justified
      <3>2. Decision!ApprovalNeeded(gate, request)
        BY <3>1 DEF Decision!AwaitsApproval, Decision!StandsAgainst, Decision!ReasonCodes
      <3>3. QED
        BY <3>1, <3>2, EffectiveRequestIsPolicyView DEF effectiveApprovalRequired
    <2> HIDE DEF new
    <2>3. QED
      BY <2>1, <2>2 DEF HoldReportsRequirement
  <1>2. CASE ReturnAllow
    <2> DEFINE new == [gate |-> gate, request |-> request,
                       result |-> Allowed(effective, checked)]
    <2>1. issued' = issued \cup {new} /\ new.result.finalState = "ALLOW"
      BY <1>2, VerdictFields DEF ReturnAllow, Allowed, Return
    <2> HIDE DEF new
    <2>2. QED
      BY <2>1 DEF HoldReportsRequirement
  <1>3. CASE ReturnFallback
    <2> DEFINE new == [gate |-> gate, request |-> request,
                       result |-> Fallback(effective, checked)]
    <2>1. issued' = issued \cup {new} /\ new.result.finalState = "REJECT"
      BY <1>3, VerdictFields DEF ReturnFallback, Fallback, Return
    <2> HIDE DEF new
    <2>2. QED
      BY <2>1 DEF HoldReportsRequirement
  <1>4. CASE UNCHANGED issued
    BY <1>4 DEF HoldReportsRequirement
  <1>5. ASSUME NEW here, NEW code, NEW raised, NEW next, Assert(here, code, raised, next)
        PROVE  UNCHANGED issued
    BY <1>5 DEF Assert, callVars
  <1>6. QED
    BY <1>1, <1>2, <1>3, <1>4, <1>5
    DEF Next, Evaluate, vars, Call, assertRequestShape, assertActorAuthorityClass,
        assertKnownActionClass, assertActionsMatch, BlockByActionPolicy,
        DeriveApprovalRequirement, assertPolicyPack, assertProvenance,
        assertLoggingReady, assertProposalBoundary, assertProhibitedUse,
        assertControlStatus, assertTrustState, assertApprovalState,
        EnforceApprovalChain, SkipApprovalChain, Rethrow, callVars

\* A held envelope reports the requirement whether it came from the caller, a
\* workflow rule, an approval chain or an action policy.
THEOREM HoldsReportRequirement == Spec => []HoldReportsRequirement
  <1>1. SoundInv /\ HoldReportsRequirement /\ [Next]_vars
            => SoundInv' /\ HoldReportsRequirement'
    BY StepSound, StepReportsRequirement
  <1>2. Init => HoldReportsRequirement
    BY DEF Init, HoldReportsRequirement
  <1>3. QED
    BY <1>1, <1>2, InitSound, PTL DEF Spec

--------------------------------------------------------------------------------
(* The stages compute evaluate: where a call is tells how many checks have  *)
(* passed, and the locals hold what these have recorded.                    *)

\* How many checks a call has passed when it reaches a stage.
ChecksBefore ==
    [shape |-> 0, actor |-> 1, proposedAction |-> 2, requestedAction |-> 3, match |-> 4,
     actionPolicy |-> 5, policyPack |-> 6, provenance |-> 7, logging |-> 8,
     boundary |-> 9, prohibitedUse |-> 10, controls |-> 11, trust |-> 12,
     approval |-> 13, chain |-> 14, allow |-> 15]

\* A result comes from passing every check or from the first that fails, and
\* only of a request that can be read.
ComputedFrom(g, r, result) ==
    /\ \/ /\ PassedFirst(g, r, 15)
          /\ result = Allowed(EffectiveRequest(g, r), CodesOf(g, r, 15))
       \/ \E n : FirstFault(g, r, n) /\ result = ResultOfFault(g, r, n)
    /\ r.shape # "unreadable"

ThrownBy(g, r) ==
    /\ r.shape = "unreadable"
    /\ \E n : FirstFault(g, r, n) /\ Checks(g, r)[n].fault = "TypeError"

TraceInv ==
    /\ stage # "idle" => ViewAt(stage, gate, request, effective)
    /\ stage \notin {"idle", "catch"} =>
          /\ PassedFirst(gate, request, ChecksBefore[stage])
          /\ checked = CodesOf(gate, request, ChecksBefore[stage])
    /\ stage = "catch" =>
          \E n : /\ FirstFault(gate, request, n)
                 /\ fault = Checks(gate, request)[n].fault
                 /\ checked = CodesOf(gate, request, n)
                 /\ effective = ViewOf(gate, request, n)
    /\ \A i \in issued : ComputedFrom(i.gate, i.request, i.result)
    /\ \A c \in rethrown : ThrownBy(c.gate, c.request)

LEMMA NextCheck ==
    ASSUME NEW g, NEW r, NEW n \in 0 .. 14, NEW m, m = n + 1
    PROVE  /\ PassedFirst(g, r, n) /\ Checks(g, r)[m].fault = NoFault =>
                  PassedFirst(g, r, m)
           /\ PassedFirst(g, r, n) /\ Checks(g, r)[m].fault # NoFault =>
                  FirstFault(g, r, m)
           /\ CodesOf(g, r, m) = CodesOf(g, r, n) \cup {Checks(g, r)[m].code}
  <1>1. \A k : k \in 1 .. m <=> k \in 1 .. n \/ k = m
    OBVIOUS
  <1>2. CodesOf(g, r, m) = CodesOf(g, r, n) \cup {Checks(g, r)[m].code}
    BY <1>1, Zenon DEF CodesOf
  <1>3. m - 1 = n /\ m \in 1 .. 15
    OBVIOUS
  <1>4. QED
    BY <1>1, <1>2, <1>3 DEF PassedFirst, FirstFault

\* A check that passes and whose invariant an earlier one has recorded.
LEMMA SilentCheck ==
    ASSUME NEW g, NEW r, NEW n \in 0 .. 14, NEW m, m = n + 1,
           PassedFirst(g, r, n), Checks(g, r)[m].fault = NoFault,
           NEW k \in 1 .. n, Checks(g, r)[m].code = Checks(g, r)[k].code
    PROVE  PassedFirst(g, r, m) /\ CodesOf(g, r, m) = CodesOf(g, r, n)
  <1>1. Checks(g, r)[m].code \in CodesOf(g, r, n)
    BY DEF CodesOf
  <1>2. CodesOf(g, r, m) = CodesOf(g, r, n) \cup {Checks(g, r)[m].code}
    BY NextCheck
  <1>3. PassedFirst(g, r, m)
    BY NextCheck
  <1> DEFINE before == CodesOf(g, r, n)
  <1> DEFINE code == Checks(g, r)[m].code
  <1>4. code \in before /\ CodesOf(g, r, m) = before \cup {code}
    BY <1>1, <1>2
  <1> HIDE DEF before, code
  <1>5. CodesOf(g, r, m) = before
    BY <1>4
  <1>6. QED
    BY <1>3, <1>5 DEF before

\* An assertion that is the next check keeps the count.
LEMMA AssertTraces ==
    ASSUME TypeInv, TraceInv, NEW n \in 0 .. 14,
           NEW here \in Stages \ {"idle", "catch"}, ChecksBefore[here] = n,
           NEW next \in Stages \ {"idle", "catch"}, ChecksBefore[next] = n + 1,
           NEW code, code = Checks(gate, request)[n + 1].code,
           NEW raised, raised = Checks(gate, request)[n + 1].fault,
           Assert(here, code, raised, next),
           effective = ViewOf(gate, request, n + 1),
           raised = NoFault => ViewAt(next, gate, request, effective)
    PROVE  TraceInv'
  <1>1. /\ stage = here /\ fault' = raised /\ checked' = checked \cup {code}
        /\ stage' = IF raised = NoFault THEN next ELSE "catch"
        /\ gate' = gate /\ request' = request /\ effective' = effective
        /\ issued' = issued /\ rethrown' = rethrown
    BY DEF Assert, callVars
  <1>2. PassedFirst(gate, request, n) /\ checked = CodesOf(gate, request, n)
    BY <1>1 DEF TraceInv
  <1>3. checked' = CodesOf(gate, request, n + 1)
    BY <1>1, <1>2, NextCheck
  <1>4. /\ \A i \in issued' : ComputedFrom(i.gate, i.request, i.result)
        /\ \A c \in rethrown' : ThrownBy(c.gate, c.request)
    BY <1>1 DEF TraceInv
  <1>5. CASE raised = NoFault
    <2>1. PassedFirst(gate, request, n + 1) /\ stage' = next
      BY <1>1, <1>2, <1>5, NextCheck
    <2>2. ViewAt(stage', gate', request', effective')
      BY <1>1, <1>5, <2>1
    <2>3. /\ PassedFirst(gate', request', ChecksBefore[stage'])
          /\ checked' = CodesOf(gate', request', ChecksBefore[stage'])
      BY <1>1, <1>3, <2>1
    <2>4. QED
      BY <1>4, <2>1, <2>2, <2>3 DEF TraceInv
  <1>6. CASE raised # NoFault
    <2>1. FirstFault(gate, request, n + 1) /\ stage' = "catch"
      BY <1>1, <1>2, <1>6, NextCheck
    <2>2. ViewAt(stage', gate', request', effective')
      BY <2>1 DEF ViewAt, PassedActionPolicy, PassedActions, PassedActor, PassedShape
    <2>3. \E k : /\ FirstFault(gate', request', k)
                 /\ fault' = Checks(gate', request')[k].fault
                 /\ checked' = CodesOf(gate', request', k)
                 /\ effective' = ViewOf(gate', request', k)
      BY <1>1, <1>3, <2>1
    <2>4. QED
      BY <1>4, <2>1, <2>2, <2>3 DEF TraceInv
  <1>7. QED
    BY <1>5, <1>6

LEMMA EarlyStagesTrace ==
    ASSUME TypeInv, TraceInv,
           \/ assertRequestShape
           \/ assertActorAuthorityClass
           \/ assertKnownActionClass("proposedAction", request.proposedActionClass,
                                     "requestedAction")
           \/ assertKnownActionClass("requestedAction", request.requestedActionClass,
                                     "match")
           \/ assertActionsMatch
           \/ BlockByActionPolicy
    PROVE  TraceInv'
  <1>1. /\ stage \in EarlyStages /\ effective = request
        /\ \A n \in 1 .. 6 : effective = ViewOf(gate, request, n)
        /\ \A s \in EarlyStages : ViewAt(s, gate, request, effective)
    BY ViewOfStage
    DEF TraceInv, EarlyStages, ViewOf, PolicyViewFrom, assertRequestShape,
        assertActorAuthorityClass, assertKnownActionClass, assertActionsMatch,
        BlockByActionPolicy, Assert
  <1> USE DEF EarlyStages, Stages, ChecksBefore
  <1>2. CASE assertRequestShape
    BY <1>1, <1>2, AssertTraces, CheckList, CheckCodes DEF assertRequestShape
  <1>3. CASE assertActorAuthorityClass
    BY <1>1, <1>3, AssertTraces, CheckList, CheckCodes DEF assertActorAuthorityClass
  <1>4. CASE assertKnownActionClass("proposedAction", request.proposedActionClass,
                                    "requestedAction")
    BY <1>1, <1>4, AssertTraces, CheckList, CheckCodes DEF assertKnownActionClass
  <1>5. CASE assertKnownActionClass("requestedAction", request.requestedActionClass,
                                    "match")
    BY <1>1, <1>5, AssertTraces, CheckList, CheckCodes DEF assertKnownActionClass
  <1>6. CASE assertActionsMatch
    BY <1>1, <1>6, AssertTraces, CheckList, CheckCodes DEF assertActionsMatch
  <1>7. CASE BlockByActionPolicy
    <2>1. ActionPolicyFault(gate, request) # NoFault
      BY <1>7 DEF BlockByActionPolicy, ActionPolicyFault, Unless, NoFault
    <2>2. QED
      BY <1>1, <1>7, <2>1, AssertTraces, CheckList, CheckCodes DEF BlockByActionPolicy
  <1>8. QED
    BY <1>2, <1>3, <1>4, <1>5, <1>6, <1>7

LEMMA LateStagesTrace ==
    ASSUME TypeInv, TraceInv,
           \/ assertPolicyPack
           \/ assertProvenance
           \/ assertLoggingReady
           \/ assertProposalBoundary
           \/ assertProhibitedUse
           \/ assertControlStatus
           \/ assertTrustState
           \/ assertApprovalState
           \/ EnforceApprovalChain
    PROVE  TraceInv'
  <1>1. /\ stage \in LateStages /\ effective = EffectiveRequest(gate, request)
        /\ \A n \in 7 .. 15 : effective = ViewOf(gate, request, n)
        /\ \A s \in LateStages : ViewAt(s, gate, request, effective)
    BY ViewOfStage
    DEF TraceInv, LateStages, ViewOf, PolicyViewFrom, assertPolicyPack,
        assertProvenance, assertLoggingReady, assertProposalBoundary,
        assertProhibitedUse, assertControlStatus, assertTrustState,
        assertApprovalState, EnforceApprovalChain, Assert
  <1> USE DEF LateStages, Stages, ChecksBefore
  <1>2. CASE assertPolicyPack
    BY <1>1, <1>2, AssertTraces, CheckList, CheckCodes DEF assertPolicyPack
  <1>3. CASE assertProvenance
    BY <1>1, <1>3, AssertTraces, CheckList, CheckCodes DEF assertProvenance
  <1>4. CASE assertLoggingReady
    BY <1>1, <1>4, AssertTraces, CheckList, CheckCodes DEF assertLoggingReady
  <1>5. CASE assertProposalBoundary
    BY <1>1, <1>5, AssertTraces, CheckList, CheckCodes DEF assertProposalBoundary
  <1>6. CASE assertProhibitedUse
    BY <1>1, <1>6, AssertTraces, CheckList, CheckCodes DEF assertProhibitedUse
  <1>7. CASE assertControlStatus
    BY <1>1, <1>7, AssertTraces, CheckList, CheckCodes DEF assertControlStatus
  <1>8. CASE assertTrustState
    BY <1>1, <1>8, AssertTraces, CheckList, CheckCodes DEF assertTrustState
  <1>9. CASE assertApprovalState
    BY <1>1, <1>9, AssertTraces, CheckList, CheckCodes DEF assertApprovalState
  <1>10. CASE EnforceApprovalChain
    BY <1>1, <1>10, AssertTraces, CheckList, CheckCodes DEF EnforceApprovalChain
  <1>11. QED
    BY <1>2, <1>3, <1>4, <1>5, <1>6, <1>7, <1>8, <1>9, <1>10

\* The two steps that pass a check without recording its invariant: it is one
\* that an earlier check has recorded.
LEMMA SilentStagesTrace ==
    ASSUME TypeInv, TraceInv, DeriveApprovalRequirement \/ SkipApprovalChain
    PROVE  TraceInv'
  <1>1. CASE DeriveApprovalRequirement
    <2>1. /\ stage = "actionPolicy" /\ stage' = "policyPack"
          /\ gate' = gate /\ request' = request /\ checked' = checked
          /\ effective' = EffectiveRequest(gate, request)
          /\ issued' = issued /\ rethrown' = rethrown
      BY <1>1 DEF DeriveApprovalRequirement, callVars
    <2>2. PassedFirst(gate, request, 5) /\ checked = CodesOf(gate, request, 5)
      BY <2>1 DEF TraceInv, ChecksBefore
    <2>3. Checks(gate, request)[6].fault = NoFault
      BY <1>1, CheckList DEF DeriveApprovalRequirement, ActionPolicyFault, Unless
    <2>4. PassedFirst(gate, request, 6) /\ CodesOf(gate, request, 6) = CodesOf(gate, request, 5)
      <3>1. Checks(gate, request)[6].code = Checks(gate, request)[1].code
        BY CheckCodes
      <3>2. 1 \in 1 .. 5 /\ 6 = 5 + 1 /\ 5 \in 0 .. 14
        OBVIOUS
      <3>3. QED
        BY <2>2, <2>3, <3>1, <3>2, SilentCheck
    <2>5. ViewAt(stage', gate', request', effective')
      BY <2>1, ViewOfStage DEF LateStages
    <2>6. /\ PassedFirst(gate', request', ChecksBefore[stage'])
          /\ checked' = CodesOf(gate', request', ChecksBefore[stage'])
      BY <2>1, <2>2, <2>4 DEF ChecksBefore
    <2>7. QED
      BY <2>1, <2>5, <2>6 DEF TraceInv
  <1>2. CASE SkipApprovalChain
    <2>1. /\ stage = "chain" /\ stage' = "allow"
          /\ gate' = gate /\ request' = request /\ checked' = checked
          /\ effective' = effective /\ issued' = issued /\ rethrown' = rethrown
      BY <1>2 DEF SkipApprovalChain, callVars
    <2>2. /\ PassedFirst(gate, request, 14) /\ checked = CodesOf(gate, request, 14)
          /\ effective = EffectiveRequest(gate, request)
      BY <2>1, ViewOfStage DEF TraceInv, ChecksBefore, LateStages
    <2>3. Checks(gate, request)[15].fault = NoFault
      BY <1>2, <2>2, CheckList DEF SkipApprovalChain, ApprovalChainFault
    <2>4. /\ PassedFirst(gate, request, 15)
          /\ CodesOf(gate, request, 15) = CodesOf(gate, request, 14)
      <3>1. Checks(gate, request)[15].code = Checks(gate, request)[14].code
        BY CheckCodes
      <3>2. 14 \in 1 .. 14 /\ 15 = 14 + 1 /\ 14 \in 0 .. 14
        OBVIOUS
      <3>3. QED
        BY <2>2, <2>3, <3>1, <3>2, SilentCheck
    <2>5. ViewAt(stage', gate', request', effective')
      BY <2>1, <2>2, ViewOfStage DEF LateStages
    <2>6. /\ PassedFirst(gate', request', ChecksBefore[stage'])
          /\ checked' = CodesOf(gate', request', ChecksBefore[stage'])
      BY <2>1, <2>2, <2>4 DEF ChecksBefore
    <2>7. QED
      BY <2>1, <2>5, <2>6 DEF TraceInv
  <1>3. QED
    BY <1>1, <1>2

\* Only the first check raises anything for a request that cannot be read.
LEMMA UnreadableFailsFirst ==
    ASSUME NEW g, NEW r, r.shape = "unreadable"
    PROVE  /\ Checks(g, r)[1].fault = "TypeError"
           /\ ~ PassedFirst(g, r, 15)
           /\ \A n : FirstFault(g, r, n) => n = 1
  <1>1. Checks(g, r)[1].fault = "TypeError"
    BY CheckList DEF ShapeFault
  <1>2. QED
    BY <1>1 DEF PassedFirst, FirstFault, NoFault

LEMMA ReturnTraces ==
    ASSUME TypeInv, TraceInv, NEW result, Return(result),
           ComputedFrom(gate, request, result)
    PROVE  TraceInv'
  <1> DEFINE new == [gate |-> gate, request |-> request, result |-> result]
  <1>1. /\ stage' = "idle" /\ issued' = issued \cup {new} /\ rethrown' = rethrown
        /\ new.gate = gate /\ new.request = request /\ new.result = result
    BY DEF Return, Leave
  <1> HIDE DEF new
  <1>2. QED
    BY <1>1 DEF TraceInv

LEMMA ReturnsTrace ==
    ASSUME TypeInv, TraceInv, ReturnAllow \/ ReturnBlocked \/ ReturnFallback
    PROVE  TraceInv'
  <1>1. CASE ReturnAllow
    <2>1. /\ PassedFirst(gate, request, 15) /\ checked = CodesOf(gate, request, 15)
          /\ effective = EffectiveRequest(gate, request)
      BY <1>1, ViewOfStage DEF ReturnAllow, TraceInv, ChecksBefore, LateStages
    <2>2. ComputedFrom(gate, request, Allowed(effective, checked))
      BY <2>1, UnreadableFailsFirst DEF ComputedFrom
    <2>3. QED
      BY <1>1, <2>2, ReturnTraces DEF ReturnAllow
  <1>2. CASE ReturnBlocked \/ ReturnFallback
    <2>1. stage = "catch"
      BY <1>2 DEF ReturnBlocked, ReturnFallback
    <2>2. PICK n : /\ FirstFault(gate, request, n)
                   /\ fault = Checks(gate, request)[n].fault
                   /\ checked = CodesOf(gate, request, n)
                   /\ effective = ViewOf(gate, request, n)
      BY <2>1 DEF TraceInv
    <2>3. gate \in GateType /\ request \in GovernedRequestType
      BY <2>1, GatesAssumption DEF TypeInv, TypeOK
    <2>4. effective.shape = request.shape
      BY <2>2, <2>3, EffectiveRequestType DEF ViewOf
    <2>5. CASE ReturnBlocked
      <3>1. fault # "TypeError" /\ Return(Blocked(effective, fault, checked))
        BY <2>5 DEF ReturnBlocked
      <3>2. Blocked(effective, fault, checked) = ResultOfFault(gate, request, n)
        BY <2>2, <3>1 DEF ResultOfFault
      <3>3. request.shape # "unreadable"
        BY <2>2, <3>1, UnreadableFailsFirst
      <3>4. ComputedFrom(gate, request, Blocked(effective, fault, checked))
        BY <2>2, <3>2, <3>3 DEF ComputedFrom
      <3>5. QED
        BY <3>1, <3>4, ReturnTraces
    <2>6. CASE ReturnFallback
      <3>1. /\ fault = "TypeError" /\ effective.shape # "unreadable"
            /\ Return(Fallback(effective, checked))
        BY <2>6 DEF ReturnFallback
      <3>2. Fallback(effective, checked) = ResultOfFault(gate, request, n)
        BY <2>2, <2>4, <3>1 DEF ResultOfFault
      <3>3. ComputedFrom(gate, request, Fallback(effective, checked))
        BY <2>2, <2>4, <3>1, <3>2 DEF ComputedFrom
      <3>4. QED
        BY <3>1, <3>3, ReturnTraces
    <2>7. QED
      BY <1>2, <2>5, <2>6
  <1>3. QED
    BY <1>1, <1>2

LEMMA RethrowTraces ==
    ASSUME TypeInv, TraceInv, Rethrow
    PROVE  TraceInv'
  <1> DEFINE new == [gate |-> gate, request |-> request]
  <1>1. /\ stage = "catch" /\ stage' = "idle" /\ fault = "TypeError"
        /\ effective.shape = "unreadable"
        /\ issued' = issued /\ rethrown' = rethrown \cup {new}
    BY DEF Rethrow, Leave
  <1>2. PICK n : /\ FirstFault(gate, request, n)
                 /\ fault = Checks(gate, request)[n].fault
                 /\ effective = ViewOf(gate, request, n)
    BY <1>1 DEF TraceInv
  <1>3. gate \in GateType /\ request \in GovernedRequestType
    BY <1>1, GatesAssumption DEF TypeInv, TypeOK
  <1>4. request.shape = "unreadable"
    BY <1>1, <1>2, <1>3, EffectiveRequestType DEF ViewOf
  <1>5. ThrownBy(gate, request)
    BY <1>1, <1>2, <1>4 DEF ThrownBy
  <1>6. new.gate = gate /\ new.request = request
    OBVIOUS
  <1> HIDE DEF new
  <1>7. QED
    BY <1>1, <1>5, <1>6 DEF TraceInv

LEMMA CallTraces ==
    ASSUME TraceInv, NEW g \in Gates, NEW r \in Requests, Call(g, r)
    PROVE  TraceInv'
  <1>1. /\ stage' = "shape" /\ gate' = g /\ request' = r /\ effective' = r
        /\ checked' = {} /\ issued' = issued /\ rethrown' = rethrown
    BY DEF Call
  <1>2. ViewAt(stage', gate', request', effective')
    BY <1>1, ViewOfStage DEF EarlyStages
  <1>3. PassedFirst(g, r, 0) /\ CodesOf(g, r, 0) = {}
    BY DEF PassedFirst, CodesOf
  <1>4. /\ PassedFirst(gate', request', ChecksBefore[stage'])
        /\ checked' = CodesOf(gate', request', ChecksBefore[stage'])
    BY <1>1, <1>3 DEF ChecksBefore
  <1>5. QED
    BY <1>1, <1>2, <1>4 DEF TraceInv

LEMMA StepTraces ==
    ASSUME TypeInv, TraceInv, [Next]_vars
    PROVE  TypeInv' /\ TraceInv'
  <1>1. TypeInv'
    BY EvaluateType, CallType DEF Next, vars, TypeInv, TypeOK
  <1>2. CASE UNCHANGED vars
    BY <1>1, <1>2 DEF vars, TraceInv
  <1>3. CASE Evaluate
    BY <1>1, <1>3, EarlyStagesTrace, LateStagesTrace, SilentStagesTrace, ReturnsTrace,
       RethrowTraces
    DEF Evaluate
  <1>4. QED
    BY <1>1, <1>2, <1>3, CallTraces DEF Next

LEMMA InitTraces == Init => TypeInv /\ TraceInv
  BY MaxEvaluationsAssumption
  DEF Init, TypeInv, TypeOK, TraceInv, Stages, NoFault

\* What is computed from a request is what evaluate returns for it.
LEMMA ComputedIsEvaluate ==
    ASSUME NEW g, NEW r
    PROVE  /\ \A result : ComputedFrom(g, r, result) => result = evaluate(g, r)
           /\ ThrownBy(g, r) => evaluate(g, r) = Threw
  BY EvaluatePasses, EvaluateFails DEF ComputedFrom, ThrownBy, ResultOfFault

\* Deterministic: whatever the gates, their policies and the order of the
\* calls, every result ever issued, trace included, is what evaluate as a
\* function of the gate and the request returns (replay-service.ts:6).
THEOREM EvaluateIsDeterministic == Spec => []EvaluateIsFunction
  <1>1. TypeInv /\ TraceInv /\ [Next]_vars => TypeInv' /\ TraceInv'
    BY StepTraces
  <1>2. TraceInv => EvaluateIsFunction
    BY ComputedIsEvaluate DEF TraceInv, EvaluateIsFunction
  <1>3. QED
    BY <1>1, <1>2, InitTraces, PTL DEF Spec

--------------------------------------------------------------------------------
(* What a trace tells about the verdict. *)

\* What each check may raise.
Raises ==
    <<{"MALFORMED_REQUEST", "TypeError"}, {"MALFORMED_REQUEST"}, {"UNKNOWN_ACTION_CLASS"},
      {"UNKNOWN_ACTION_CLASS"}, {"INVALID_PROPOSAL"}, {"MALFORMED_REQUEST"},
      {"NO_POLICY_PACK"}, {"NO_PROVENANCE", "TypeError"}, {"LOGGING_NOT_READY"},
      {"AI_CANNOT_AUTHORIZE"}, {"PROHIBITED_USE"},
      {"CONTROL_STALE_OR_INVALID", "TypeError"}, {"TRUST_STATE_INVALID", "TypeError"},
      {"REQUIRED_APPROVAL_MISSING", "INVALID_APPROVAL_AUTHORITY", "MALFORMED_REQUEST",
       "PRIVILEGED_AUTH_NOT_SATISFIED", "APPROVAL_SIGNATURE_MISSING", "TypeError"},
      {"INVALID_APPROVAL_AUTHORITY", "TypeError"}>>

LEMMA ChecksRaise ==
    ASSUME NEW g, NEW r, NEW n \in 1 .. 15, NEW f, f = Checks(g, r)[n].fault
    PROVE  f \in Raises[n] \cup {NoFault}
  <1> USE DEF Raises, Unless
  <1>1. CASE n \in 1 .. 6
    BY <1>1, CheckList
    DEF ShapeFault, ActorFault, ActionFault, ActionsMatchFault, ActionPolicyFault
  <1>2. CASE n \in 7 .. 10
    BY <1>2, CheckList
    DEF PolicyPackFault, ProvenanceFault, LoggingFault, ProposalBoundaryFault
  <1>3. CASE n \in 11 .. 13
    BY <1>3, CheckList DEF ProhibitedUseFault, ControlStatusFault, TrustStateFault
  <1>4. CASE n = 14
    BY <1>4, CheckList DEF ApprovalStateFault, ArtifactFault
  <1>5. CASE n = 15
    BY <1>5, CheckList DEF ApprovalChainFault
  <1>6. QED
    BY <1>1, <1>2, <1>3, <1>4, <1>5

\* How many invariants the first n checks record.
Place(n) == IF n <= 4 THEN 1 ELSE IF n <= 6 THEN 2 ELSE IF n = 15 THEN 10 ELSE n - 4

LEMMA PlaceOfCode ==
    ASSUME NEW g, NEW r, NEW k \in 1 .. 15
    PROVE  /\ Place(k) \in 1 .. 10
           /\ k # 6 => Checks(g, r)[k].code = InvariantOrder[Place(k)]
           /\ k = 6 => Checks(g, r)[k].code = InvariantOrder[1]
  <1> USE DEF Place, InvariantOrder
  <1>1. CASE k \in 1 .. 6
    BY <1>1, CheckCodes
  <1>2. CASE k \in 7 .. 11
    BY <1>2, CheckCodes
  <1>3. CASE k \in 12 .. 15
    BY <1>3, CheckCodes
  <1>4. QED
    BY <1>1, <1>2, <1>3

\* What the first n checks record is an initial part of the order in which the
\* invariants are checked.
LEMMA CodesInOrder ==
    ASSUME NEW g, NEW r, NEW n \in 1 .. 15
    PROVE  CodesOf(g, r, n) = {InvariantOrder[k] : k \in 1 .. Place(n)}
  <1>1. ASSUME NEW k \in 1 .. n
        PROVE  Checks(g, r)[k].code \in {InvariantOrder[j] : j \in 1 .. Place(n)}
    <2>1. CASE k = 6
      <3>1. 1 \in 1 .. Place(n)
        BY DEF Place
      <3>2. QED
        BY <2>1, <3>1, PlaceOfCode
    <2>2. CASE k # 6
      <3>1. k \in 1 .. 15 /\ Place(k) \in 1 .. Place(n)
        BY DEF Place
      <3>2. QED
        BY <2>2, <3>1, PlaceOfCode
    <2>3. QED
      BY <2>1, <2>2
  <1>2. ASSUME NEW j \in 1 .. Place(n)
        PROVE  InvariantOrder[j] \in CodesOf(g, r, n)
    <2> DEFINE k == IF j = 1 THEN 1 ELSE IF j = 2 THEN 5 ELSE j + 4
    <2>1. k \in 1 .. n /\ k \in 1 .. 15 /\ k # 6 /\ Place(k) = j
      BY DEF Place
    <2> HIDE DEF k
    <2>2. Checks(g, r)[k].code = InvariantOrder[j]
      BY <2>1, PlaceOfCode
    <2>3. QED
      BY <2>1, <2>2 DEF CodesOf
  <1>3. QED
    BY <1>1, <1>2 DEF CodesOf

\* The reason a check raises is one of the invariant it records.
LEMMA ReasonInPlace ==
    ASSUME NEW g, NEW r, NEW n \in 1 .. 15, NEW f \in Raises[n],
           f \in DOMAIN InvariantOf
    PROVE  InvariantOrder[Place(n)] = InvariantOf[f]
  <1> USE DEF Raises, InvariantOf, InvariantOrder, Place
  <1>1. CASE n \in 1 .. 6
    BY <1>1
  <1>2. CASE n \in 7 .. 10
    BY <1>2
  <1>3. CASE n \in 11 .. 13
    BY <1>3
  <1>4. CASE n \in 14 .. 15
    BY <1>4
  <1>5. QED
    BY <1>1, <1>2, <1>3, <1>4

\* The parts of a result that come from the check that stopped the request, or
\* from none.
LEMMA ResultOfTrace ==
    ASSUME NEW g, NEW r, NEW result, ComputedFrom(g, r, result)
    PROVE  \/ /\ PassedFirst(g, r, 15)
              /\ result.finalState = "ALLOW" /\ result.reason = "DECISION_ALLOWED"
              /\ result.checkedInvariants = CodesOf(g, r, 15) \cup {"INV-07"}
           \/ \E n : LET f == Checks(g, r)[n].fault
                     IN  /\ FirstFault(g, r, n)
                         /\ result.finalState # "ALLOW"
                         /\ \/ /\ f # "TypeError" /\ result.reason = f
                               /\ result.checkedInvariants =
                                      CodesOf(g, r, n) \cup {"INV-07"}
                            \/ /\ f = "TypeError" /\ result.reason = "MALFORMED_REQUEST"
                               /\ result.checkedInvariants =
                                      CodesOf(g, r, n) \cup {"INV-11"}
  <1>1. CASE /\ PassedFirst(g, r, 15)
             /\ result = Allowed(EffectiveRequest(g, r), CodesOf(g, r, 15))
    BY <1>1, ResultFields DEF Allowed
  <1>2. ASSUME NEW n, FirstFault(g, r, n), result = ResultOfFault(g, r, n)
        PROVE  LET f == Checks(g, r)[n].fault
               IN  /\ result.finalState # "ALLOW"
                   /\ \/ /\ f # "TypeError" /\ result.reason = f
                         /\ result.checkedInvariants = CodesOf(g, r, n) \cup {"INV-07"}
                      \/ /\ f = "TypeError" /\ result.reason = "MALFORMED_REQUEST"
                         /\ result.checkedInvariants = CodesOf(g, r, n) \cup {"INV-11"}
    <2> DEFINE f == Checks(g, r)[n].fault
    <2>1. CASE f # "TypeError"
      <3>1. result = Blocked(ViewOf(g, r, n), f, CodesOf(g, r, n))
        BY <1>2, <2>1 DEF ResultOfFault
      <3>2. QED
        BY <2>1, <3>1, ResultFields DEF Blocked, BlockedStateOf
    <2>2. CASE f = "TypeError"
      <3>1. result = Fallback(ViewOf(g, r, n), CodesOf(g, r, n))
        BY <1>2, <2>2 DEF ResultOfFault, ComputedFrom
      <3>2. QED
        BY <2>2, <3>1, ResultFields DEF Fallback
    <2>3. QED
      BY <2>1, <2>2
  <1>3. QED
    BY <1>1, <1>2 DEF ComputedFrom

\* The trace of one result.
LEMMA ComputedTrace ==
    ASSUME NEW g, NEW r, NEW result, ComputedFrom(g, r, result)
    PROVE  \E n \in 1 .. 15 :
              /\ result.checkedInvariants \ {"INV-07"} = CodesOf(g, r, n)
              /\ result.finalState = "ALLOW" => n = 15
              /\ result.reason \in DOMAIN InvariantOf =>
                     InvariantOrder[Place(n)] = InvariantOf[result.reason]
  <1>1. ASSUME NEW n \in 1 .. 15
        PROVE  "INV-07" \notin CodesOf(g, r, n) /\ "INV-11" \in CodesOf(g, r, n)
    <2>1. \A k \in 1 .. 10 : InvariantOrder[k] # "INV-07"
      BY DEF InvariantOrder
    <2>2. Place(n) \in 1 .. 10 /\ InvariantOrder[1] = "INV-11"
      BY DEF Place, InvariantOrder
    <2>3. \A k \in 1 .. Place(n) : k \in 1 .. 10
      BY <2>2
    <2>4. 1 \in 1 .. Place(n)
      BY <2>2
    <2>5. QED
      BY <2>1, <2>2, <2>3, <2>4, CodesInOrder
  <1>2. CASE /\ result.finalState = "ALLOW" /\ result.reason = "DECISION_ALLOWED"
             /\ result.checkedInvariants = CodesOf(g, r, 15) \cup {"INV-07"}
    <2>1. "DECISION_ALLOWED" \notin DOMAIN InvariantOf /\ 15 \in 1 .. 15
      BY DEF InvariantOf
    <2>2. result.checkedInvariants \ {"INV-07"} = CodesOf(g, r, 15)
      BY <1>1, <1>2, <2>1
    <2>3. QED
      BY <1>2, <2>1, <2>2
  <1>3. ASSUME NEW n, FirstFault(g, r, n), result.finalState # "ALLOW",
               NEW f, f = Checks(g, r)[n].fault,
               \/ /\ f # "TypeError" /\ result.reason = f
                  /\ result.checkedInvariants = CodesOf(g, r, n) \cup {"INV-07"}
               \/ /\ f = "TypeError" /\ result.reason = "MALFORMED_REQUEST"
                  /\ result.checkedInvariants = CodesOf(g, r, n) \cup {"INV-11"}
        PROVE  /\ n \in 1 .. 15
               /\ result.checkedInvariants \ {"INV-07"} = CodesOf(g, r, n)
               /\ result.reason \in DOMAIN InvariantOf =>
                     InvariantOrder[Place(n)] = InvariantOf[result.reason]
    <2>1. n \in 1 .. 15 /\ f # NoFault
      BY <1>3 DEF FirstFault
    <2>2. result.checkedInvariants \ {"INV-07"} = CodesOf(g, r, n)
      BY <1>1, <1>3, <2>1
    <2>3. "MALFORMED_REQUEST" \notin DOMAIN InvariantOf
      BY DEF InvariantOf
    <2>4. f \in Raises[n]
      BY <1>3, <2>1, ChecksRaise
    <2>5. QED
      BY <1>3, <2>1, <2>2, <2>3, <2>4, ReasonInPlace
  <1>4. QED
    BY <1>2, <1>3, ResultOfTrace

\* The trace of a result tells how far the request came: it names the invariants
\* in the order of the code up to the one that was violated, and all of them for
\* a release (execution-gate-service.ts, checkedInvariants.push before each assert).
THEOREM TracesMatchVerdicts == Spec => []TraceMatchesVerdict
  <1>1. TypeInv /\ TraceInv /\ [Next]_vars => TypeInv' /\ TraceInv'
    BY StepTraces
  <1>2. ASSUME TraceInv PROVE TraceMatchesVerdict
    <2> SUFFICES ASSUME NEW i \in issued
                 PROVE  \E m \in DOMAIN InvariantOrder :
                           /\ i.result.checkedInvariants \ {"INV-07"} =
                                  {InvariantOrder[k] : k \in 1 .. m}
                           /\ i.result.finalState = "ALLOW" => m = Len(InvariantOrder)
                           /\ i.result.reason \in DOMAIN InvariantOf =>
                                  InvariantOrder[m] = InvariantOf[i.result.reason]
      BY DEF TraceMatchesVerdict
    <2>1. PICK n \in 1 .. 15 :
              /\ i.result.checkedInvariants \ {"INV-07"} = CodesOf(i.gate, i.request, n)
              /\ i.result.finalState = "ALLOW" => n = 15
              /\ i.result.reason \in DOMAIN InvariantOf =>
                     InvariantOrder[Place(n)] = InvariantOf[i.result.reason]
      BY <1>2, ComputedTrace DEF TraceInv
    <2>2. /\ Place(n) \in DOMAIN InvariantOrder
          /\ n = 15 => Place(n) = Len(InvariantOrder)
      BY DEF Place, InvariantOrder
    <2>3. QED
      BY <2>1, <2>2, CodesInOrder
  <1>3. QED
    BY <1>1, <1>2, InitTraces, PTL DEF Spec

--------------------------------------------------------------------------------
(* What a diagnostic report makes of a result. *)

\* What a report judges by the members of the request is what the check of the
\* same member raises.
LEMMA ChecksOfMembers ==
    ASSUME NEW g \in GateType, NEW r \in GovernedRequestType
    PROVE  LET C == Checks(g, r)
           IN  /\ r.policyPackRef = "null" => C[7].fault = "NO_POLICY_PACK"
               /\ r.provenanceRef \in {"null", "incomplete"} =>
                      C[8].fault = "NO_PROVENANCE"
               /\ ~ r.loggingReady => C[9].fault = "LOGGING_NOT_READY"
               /\ r.prohibitedUse => C[11].fault = "PROHIBITED_USE"
               /\ r.sensitive /\ r.controlStatus \in {"invalid", "stale"} =>
                      C[12].fault = "CONTROL_STALE_OR_INVALID"
               /\ r.trustState = "untrusted" => C[13].fault = "TRUST_STATE_INVALID"
               /\ r.approvalRequired /\ r.approvalArtifact = Null =>
                      C[14].fault = "REQUIRED_APPROVAL_MISSING"
  <1> DEFINE e == EffectiveRequest(g, r)
  <1>1. /\ e.policyPackRef = r.policyPackRef /\ e.provenanceRef = r.provenanceRef
        /\ e.loggingReady = r.loggingReady /\ e.prohibitedUse = r.prohibitedUse
        /\ e.sensitive = r.sensitive /\ e.controlStatus = r.controlStatus
        /\ e.trustState = r.trustState /\ e.approvalArtifact = r.approvalArtifact
        /\ r.approvalRequired => e.approvalRequired
    BY DEF EffectiveRequest, GovernedRequestType
  <1>2. LET C == Checks(g, r)
        IN  /\ C[7].fault = PolicyPackFault(e) /\ C[8].fault = ProvenanceFault(e)
            /\ C[9].fault = LoggingFault(e) /\ C[11].fault = ProhibitedUseFault(e)
            /\ C[12].fault = ControlStatusFault(e) /\ C[13].fault = TrustStateFault(e)
            /\ C[14].fault = ApprovalStateFault(e)
    BY CheckList
  <1> HIDE DEF e
  <1>3. /\ r.policyPackRef = "null" => PolicyPackFault(e) = "NO_POLICY_PACK"
        /\ r.provenanceRef \in {"null", "incomplete"} =>
               ProvenanceFault(e) = "NO_PROVENANCE"
        /\ ~ r.loggingReady => LoggingFault(e) = "LOGGING_NOT_READY"
        /\ r.prohibitedUse => ProhibitedUseFault(e) = "PROHIBITED_USE"
    BY <1>1
    DEF PolicyPackFault, ProvenanceFault, LoggingFault, ProhibitedUseFault, Unless
  <1>4. /\ r.sensitive /\ r.controlStatus \in {"invalid", "stale"} =>
               ControlStatusFault(e) = "CONTROL_STALE_OR_INVALID"
        /\ r.trustState = "untrusted" => TrustStateFault(e) = "TRUST_STATE_INVALID"
        /\ r.approvalRequired /\ r.approvalArtifact = Null =>
               ApprovalStateFault(e) = "REQUIRED_APPROVAL_MISSING"
    <2>1. /\ r.sensitive /\ r.controlStatus \in {"invalid", "stale"} =>
                 ControlStatusFault(e) = "CONTROL_STALE_OR_INVALID"
          /\ r.trustState = "untrusted" => TrustStateFault(e) = "TRUST_STATE_INVALID"
      BY <1>1 DEF ControlStatusFault, TrustStateFault
    <2>2. ASSUME r.approvalRequired, r.approvalArtifact = Null
          PROVE  ApprovalStateFault(e) = "REQUIRED_APPROVAL_MISSING"
      <3>1. effectiveApprovalRequired(e) /\ e.approvalArtifact = Null /\ Null # Absent
        BY <1>1, <2>2, NullAssumption DEF effectiveApprovalRequired
      <3>2. QED
        BY <3>1 DEF ApprovalStateFault
    <2>3. QED
      BY <2>1, <2>2
  <1>5. QED
    BY <1>2, <1>3, <1>4

\* A result whose trace names the invariant of a check that raises a reason is
\* the result of that check.
LEMMA StoppedThere ==
    ASSUME NEW g, NEW r, NEW result, ComputedFrom(g, r, result),
           NEW p \in 7 .. 14, InvariantOrder[p - 4] \in result.checkedInvariants,
           Checks(g, r)[p].fault \notin {NoFault, "TypeError"}
    PROVE  result.reason = Checks(g, r)[p].fault
  <1>1. /\ InvariantOrder[p - 4] \notin {"INV-07", "INV-11"}
        /\ \A j \in 1 .. 10 : InvariantOrder[j] = InvariantOrder[p - 4] => j = p - 4
    BY DEF InvariantOrder
  <1>2. ASSUME NEW n \in 1 .. 15, InvariantOrder[p - 4] \in CodesOf(g, r, n)
        PROVE  p <= n
    <2>1. PICK j \in 1 .. Place(n) : InvariantOrder[j] = InvariantOrder[p - 4]
      BY <1>2, CodesInOrder
    <2>2. Place(n) \in 1 .. 10
      BY DEF Place
    <2>3. p - 4 <= Place(n)
      BY <1>1, <2>1, <2>2
    <2>4. QED
      BY <2>3 DEF Place
  <1>3. CASE /\ PassedFirst(g, r, 15)
             /\ result.checkedInvariants = CodesOf(g, r, 15) \cup {"INV-07"}
    BY <1>3 DEF PassedFirst
  <1>4. ASSUME NEW n, FirstFault(g, r, n), NEW f, f = Checks(g, r)[n].fault,
               \/ /\ f # "TypeError" /\ result.reason = f
                  /\ result.checkedInvariants = CodesOf(g, r, n) \cup {"INV-07"}
               \/ /\ f = "TypeError" /\ result.reason = "MALFORMED_REQUEST"
                  /\ result.checkedInvariants = CodesOf(g, r, n) \cup {"INV-11"}
        PROVE  result.reason = Checks(g, r)[p].fault
    <2>1. n \in 1 .. 15 /\ p <= n
      BY <1>1, <1>2, <1>4 DEF FirstFault
    <2>2. p = n
      <3>1. \A k \in 1 .. (n - 1) : Checks(g, r)[k].fault = NoFault
        BY <1>4 DEF FirstFault, PassedFirst
      <3>2. p \notin 1 .. (n - 1)
        BY <3>1
      <3>3. QED
        BY <2>1, <3>2
    <2>3. QED
      BY <1>4, <2>2
  <1>5. QED
    BY <1>3, <1>4, ResultOfTrace

\* Only the invariant of the reason can be FAIL.
LEMMA FailedCheckIsTheCause ==
    ASSUME NEW g \in GateType, NEW r \in GovernedRequestType,
           NEW result, ComputedFrom(g, r, result),
           NEW code \in FailedChecks(r, result)
    PROVE  \/ result.reason \in DOMAIN InvariantOf /\ code = InvariantOf[result.reason]
           \/ result.reason = "MALFORMED_REQUEST" /\ code = "INV-11"
  <1>1. code \in ViolatedBy(r, result.reason) /\ code \in result.checkedInvariants
    BY DEF FailedChecks
  <1>2. CASE code = "INV-01" /\ r.policyPackRef = "null"
    <2>1. code = InvariantOrder[7 - 4] /\ 7 \in 7 .. 14
      BY <1>2 DEF InvariantOrder
    <2>2. Checks(g, r)[7].fault = "NO_POLICY_PACK"
      BY <1>2, ChecksOfMembers
    <2>3. result.reason = "NO_POLICY_PACK"
      BY <1>1, <2>1, <2>2, StoppedThere DEF NoFault
    <2>4. QED
      BY <1>2, <2>3 DEF InvariantOf
  <1>3. CASE code = "INV-02" /\ r.provenanceRef \in {"null", "incomplete"}
    <2>1. code = InvariantOrder[8 - 4] /\ 8 \in 7 .. 14
      BY <1>3 DEF InvariantOrder
    <2>2. Checks(g, r)[8].fault = "NO_PROVENANCE"
      BY <1>3, ChecksOfMembers
    <2>3. result.reason = "NO_PROVENANCE"
      BY <1>1, <2>1, <2>2, StoppedThere DEF NoFault
    <2>4. QED
      BY <1>3, <2>3 DEF InvariantOf
  <1>4. CASE code = "INV-03" /\ r.approvalRequired /\ r.approvalArtifact = Null
    <2>1. code = InvariantOrder[14 - 4] /\ 14 \in 7 .. 14
      BY <1>4 DEF InvariantOrder
    <2>2. Checks(g, r)[14].fault = "REQUIRED_APPROVAL_MISSING"
      BY <1>4, ChecksOfMembers
    <2>3. result.reason = "REQUIRED_APPROVAL_MISSING"
      BY <1>1, <2>1, <2>2, StoppedThere DEF NoFault
    <2>4. QED
      BY <1>4, <2>3 DEF InvariantOf
  <1>5. CASE code = "INV-04" /\ ~ r.loggingReady
    <2>1. code = InvariantOrder[9 - 4] /\ 9 \in 7 .. 14
      BY <1>5 DEF InvariantOrder
    <2>2. Checks(g, r)[9].fault = "LOGGING_NOT_READY"
      BY <1>5, ChecksOfMembers
    <2>3. result.reason = "LOGGING_NOT_READY"
      BY <1>1, <2>1, <2>2, StoppedThere DEF NoFault
    <2>4. QED
      BY <1>5, <2>3 DEF InvariantOf
  <1>6. CASE code = "INV-08" /\ r.sensitive /\ r.controlStatus \in {"invalid", "stale"}
    <2>1. code = InvariantOrder[12 - 4] /\ 12 \in 7 .. 14
      BY <1>6 DEF InvariantOrder
    <2>2. Checks(g, r)[12].fault = "CONTROL_STALE_OR_INVALID"
      BY <1>6, ChecksOfMembers
    <2>3. result.reason = "CONTROL_STALE_OR_INVALID"
      BY <1>1, <2>1, <2>2, StoppedThere DEF NoFault
    <2>4. QED
      BY <1>6, <2>3 DEF InvariantOf
  <1>7. CASE code = "INV-09" /\ r.trustState = "untrusted"
    <2>1. code = InvariantOrder[13 - 4] /\ 13 \in 7 .. 14
      BY <1>7 DEF InvariantOrder
    <2>2. Checks(g, r)[13].fault = "TRUST_STATE_INVALID"
      BY <1>7, ChecksOfMembers
    <2>3. result.reason = "TRUST_STATE_INVALID"
      BY <1>1, <2>1, <2>2, StoppedThere DEF NoFault
    <2>4. QED
      BY <1>7, <2>3 DEF InvariantOf
  <1>8. CASE code = "INV-10" /\ r.prohibitedUse
    <2>1. code = InvariantOrder[11 - 4] /\ 11 \in 7 .. 14
      BY <1>8 DEF InvariantOrder
    <2>2. Checks(g, r)[11].fault = "PROHIBITED_USE"
      BY <1>8, ChecksOfMembers
    <2>3. result.reason = "PROHIBITED_USE"
      BY <1>1, <2>1, <2>2, StoppedThere DEF NoFault
    <2>4. QED
      BY <1>8, <2>3 DEF InvariantOf
  <1>9. CASE \/ code = "INV-05" /\ result.reason = "AI_CANNOT_AUTHORIZE"
             \/ /\ code = "INV-11"
                /\ result.reason \in {"MALFORMED_REQUEST", "UNKNOWN_ACTION_CLASS"}
             \/ code = "INV-12" /\ result.reason = "INVALID_PROPOSAL"
    BY <1>9 DEF InvariantOf
  <1>10. QED
    BY <1>1, <1>2, <1>3, <1>4, <1>5, <1>6, <1>7, <1>8, <1>9 DEF ViolatedBy

ApprovalReasons ==
    {"REQUIRED_APPROVAL_MISSING", "INVALID_APPROVAL_AUTHORITY",
     "PRIVILEGED_AUTH_NOT_SATISFIED", "APPROVAL_SIGNATURE_MISSING"}

\* A reason of ReasonCodes is told in one section, an approval reason only if the
\* request itself asked for the approval.
LEMMA OneFailedSection ==
    ASSUME NEW r, NEW result, result.reason \in ReasonCodes
    PROVE  \/ \E section \in FailedSections(r, result) :
                 FailedSections(r, result) = {section}
           \/ /\ FailedSections(r, result) = {}
              /\ ~ r.approvalRequired /\ result.reason \in ApprovalReasons
  <1>1. CASE result.reason \in {"MALFORMED_REQUEST", "UNKNOWN_ACTION_CLASS"}
    <2>1. FailedSections(r, result) = {"input"}
      BY <1>1 DEF FailedSections
    <2>2. QED
      BY <2>1
  <1>2. CASE result.reason \in {"NO_POLICY_PACK", "NO_PROVENANCE"}
    <2>1. FailedSections(r, result) = {"policyAndProvenance"}
      BY <1>2 DEF FailedSections
    <2>2. QED
      BY <2>1
  <1>3. CASE result.reason \in {"AI_CANNOT_AUTHORIZE", "INVALID_PROPOSAL"}
    <2>1. FailedSections(r, result) = {"proposalBoundary"}
      BY <1>3 DEF FailedSections
    <2>2. QED
      BY <2>1
  <1>4. CASE result.reason \in {"CONTROL_STALE_OR_INVALID", "TRUST_STATE_INVALID",
                                "PROHIBITED_USE", "LOGGING_NOT_READY"}
    <2>1. FailedSections(r, result) = {"controlAndTrust"}
      BY <1>4 DEF FailedSections
    <2>2. QED
      BY <2>1
  <1>5. CASE result.reason \in ApprovalReasons /\ r.approvalRequired
    <2>1. FailedSections(r, result) = {"approval"}
      BY <1>5 DEF FailedSections, ApprovalReasons
    <2>2. QED
      BY <2>1
  <1>6. CASE result.reason \in ApprovalReasons /\ ~ r.approvalRequired
    <2>1. FailedSections(r, result) = {}
      BY <1>6 DEF FailedSections, ApprovalReasons
    <2>2. QED
      BY <1>6, <2>1
  <1>7. QED
    BY <1>1, <1>2, <1>3, <1>4, <1>5, <1>6 DEF ReasonCodes, ApprovalReasons

\* The two services advise the same where both know what to do.
LEMMA AdviceAgrees ==
    ASSUME NEW result, result.finalState = "ALLOW" => result.reason = "DECISION_ALLOWED"
    PROVE  /\ buildRecommendedAction(result, TRUE) \in
                  {createOperatorActionReport(result).recommendedAction, "support"}
           /\ result.finalState = "ALLOW" =>
                  /\ createOperatorActionReport(result).severity = "INFO"
                  /\ deriveSeverity(result, TRUE) = "INFO"
  <1>1. CASE result.finalState = "ALLOW"
    <2>1. /\ buildRecommendedAction(result, TRUE) = "none"
          /\ deriveSeverity(result, TRUE) = "INFO"
      BY <1>1 DEF buildRecommendedAction, deriveSeverity
    <2>2. /\ createOperatorActionReport(result).recommendedAction = "none"
          /\ createOperatorActionReport(result).severity = "INFO"
      <3> DEFINE told ==
                    CASE result.finalState = "ALLOW" -> "none"
                      [] result.reason \in
                            {"INVALID_APPROVAL_AUTHORITY", "PRIVILEGED_AUTH_NOT_SATISFIED",
                             "APPROVAL_SIGNATURE_MISSING"} -> "approval artifact"
                      [] result.reason \in
                            {"MALFORMED_REQUEST", "INVALID_PROPOSAL",
                             "UNKNOWN_ACTION_CLASS"} -> "request structure"
                      [] OTHER -> result.reason
      <3>1. told = "none"
        BY <1>1
      <3> HIDE DEF told
      <3>2. createOperatorActionReport(result) =
                [recommendedAction |-> told,
                 severity |->
                    CASE told = "none" -> "INFO"
                      [] told \in {"REQUIRED_APPROVAL_MISSING", "NO_POLICY_PACK",
                                   "NO_PROVENANCE", "request structure"} -> "WARNING"
                      [] OTHER -> "CRITICAL"]
        BY DEF createOperatorActionReport, told
      <3>3. QED
        BY <3>1, <3>2
    <2>3. QED
      BY <2>1, <2>2
  <1>2. CASE /\ result.finalState # "ALLOW"
             /\ result.reason \in
                   {"REQUIRED_APPROVAL_MISSING", "NO_PROVENANCE", "NO_POLICY_PACK",
                    "PROHIBITED_USE", "TRUST_STATE_INVALID", "CONTROL_STALE_OR_INVALID"}
    BY <1>2 DEF buildRecommendedAction, createOperatorActionReport
  <1>3. CASE /\ result.finalState # "ALLOW"
             /\ result.reason \notin
                   {"REQUIRED_APPROVAL_MISSING", "NO_PROVENANCE", "NO_POLICY_PACK",
                    "PROHIBITED_USE", "TRUST_STATE_INVALID", "CONTROL_STALE_OR_INVALID"}
    BY <1>3 DEF buildRecommendedAction, createOperatorActionReport
  <1>4. QED
    BY <1>1, <1>2, <1>3

\* A report blames what stopped the request and nothing else, and agrees with the
\* advice to the operator, for every request that reads the members the report
\* looks at (diagnostic-report-service.ts:145, 277).
THEOREM ReportsBlame == Spec => []ReportsBlameTheCause
  <1>1. TypeInv /\ TraceInv /\ [Next]_vars => TypeInv' /\ TraceInv'
    BY StepTraces
  <1>2. ASSUME TypeOK, TraceInv, VerdictsSound PROVE ReportsBlameTheCause
    <2> SUFFICES ASSUME NEW i \in issued, createReport(i.request, i.result, TRUE) # Threw
                 PROVE  LET report   == createReport(i.request, i.result, TRUE)
                            operator == createOperatorActionReport(i.result)
                            cause    == i.result.reason
                        IN  /\ report.failedChecks \subseteq
                                  {InvariantOf[reason] :
                                      reason \in DOMAIN InvariantOf \cap {cause}}
                                  \cup (IF cause = "MALFORMED_REQUEST"
                                        THEN {"INV-11"} ELSE {})
                            /\ IF i.result.finalState = "ALLOW"
                               THEN /\ report.failedSections = {}
                                    /\ report.severity = "INFO"
                                    /\ operator.severity = "INFO"
                               ELSE \/ \E section \in report.failedSections :
                                          report.failedSections = {section}
                                    \/ /\ report.failedSections = {}
                                       /\ ~ i.request.approvalRequired
                                       /\ Decision!ApprovalNeeded(i.gate, i.request)
                            /\ report.recommendedNextAction \in
                                  {operator.recommendedAction, "support"}
      BY DEF ReportsBlameTheCause
    <2> DEFINE report == createReport(i.request, i.result, TRUE)
               cause  == i.result.reason
    <2>1. /\ i.gate \in GateType /\ i.request \in GovernedRequestType
          /\ ComputedFrom(i.gate, i.request, i.result)
          /\ Decision!Verdict(i.gate, i.request, i.result.finalState, cause)
      BY <1>2, GatesAssumption DEF TypeOK, TraceInv, VerdictsSound
    <2>2. /\ report.severity = deriveSeverity(i.result, TRUE)
          /\ report.failedChecks = FailedChecks(i.request, i.result)
          /\ report.failedSections = FailedSections(i.request, i.result)
          /\ report.recommendedNextAction = buildRecommendedAction(i.result, TRUE)
      BY DEF createReport
    <2> HIDE DEF report
    <2>3. report.failedChecks \subseteq
              {InvariantOf[reason] : reason \in DOMAIN InvariantOf \cap {cause}}
              \cup (IF cause = "MALFORMED_REQUEST" THEN {"INV-11"} ELSE {})
      <3> SUFFICES ASSUME NEW code \in FailedChecks(i.request, i.result)
                   PROVE  \/ cause \in DOMAIN InvariantOf /\ code = InvariantOf[cause]
                          \/ cause = "MALFORMED_REQUEST" /\ code = "INV-11"
        BY <2>2
      <3>1. QED
        BY <2>1, FailedCheckIsTheCause
    <2>4. CASE i.result.finalState = "ALLOW"
      <3>1. cause = "DECISION_ALLOWED"
        BY <2>1, <2>4 DEF Decision!Verdict
      <3>2. FailedSections(i.request, i.result) = {}
        BY <3>1 DEF FailedSections
      <3>3. QED
        BY <2>2, <2>3, <2>4, <3>1, <3>2, AdviceAgrees DEF report
    <2>5. CASE i.result.finalState # "ALLOW"
      <3>1. /\ cause \in ReasonCodes
            /\ cause \in ApprovalReasons => Decision!ApprovalNeeded(i.gate, i.request)
        BY <2>1, <2>5
        DEF Decision!Verdict, Decision!AwaitsApproval, Decision!StandsAgainst,
            Decision!ApprovalGiven, Decision!ReasonCodes, ReasonCodes, ApprovalReasons
      <3>2. \/ \E section \in report.failedSections : report.failedSections = {section}
            \/ /\ report.failedSections = {} /\ ~ i.request.approvalRequired
               /\ cause \in ApprovalReasons
        BY <2>2, <3>1, OneFailedSection
      <3>3. report.recommendedNextAction \in
                {createOperatorActionReport(i.result).recommendedAction, "support"}
        BY <2>2, <2>5, AdviceAgrees
      <3>4. QED
        BY <2>3, <2>5, <3>1, <3>2, <3>3 DEF report
    <2>6. QED
      BY <2>4, <2>5
  <1>3. QED
    BY <1>1, <1>2, InitTraces, TypeCorrect, VerdictsAreSound, PTL DEF Spec
================================================================================
