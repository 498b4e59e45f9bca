---------------------------- MODULE GateChecksProofs ----------------------------
(***************************************************************************)
(* Proofs about evaluate as a function: its result is the verdict that the *)
(* release conditions give, for every gate and every request.  The proofs  *)
(* about the gate and about the components that call it rest on these.     *)
(***************************************************************************)
EXTENDS EvidenceRecords, ReleaseConditions, WellFoundedInduction,
        SequenceTheorems, TLAPS

--------------------------------------------------------------------------------
(* Numbers *)

\* A set of numbers that is not empty has a least member.
LEMMA LeastExists ==
    ASSUME NEW S \in SUBSET Nat, S # {}
    PROVE  \E n \in S : \A m \in S : n <= m
  <1>1. PICK n \in S : \A m \in S : ~ (<<m, n>> \in OpToRel(<, Nat))
    BY NatLessThanWellFounded, WFMin
  <1>2. \A m \in S : ~ (m < n)
    BY <1>1 DEF OpToRel
  <1>3. QED
    BY <1>2

\* A set of places in a list that is not empty has a last one.
LEMMA GreatestExists ==
    ASSUME NEW n \in Nat, NEW S \in SUBSET (1 .. n), S # {}
    PROVE  \E i \in S : \A j \in S : j <= i
  <1>1. PICK T : T = {n - i : i \in S}
    OBVIOUS
  <1>2. T \in SUBSET Nat /\ T # {}
    <2>1. \A i \in S : n - i \in Nat
      OBVIOUS
    <2>2. PICK i \in S : TRUE
      OBVIOUS
    <2>3. n - i \in T
      BY <1>1
    <2>4. QED
      BY <1>1, <2>1, <2>3
  <1>3. PICK m \in T : \A k \in T : m <= k
    BY <1>2, LeastExists
  <1>4. PICK i \in S : m = n - i
    BY <1>1
  <1>5. ASSUME NEW j \in S PROVE j <= i
    <2>1. n - j \in T
      BY <1>1
    <2>2. n - i <= n - j
      BY <1>3, <1>4, <2>1
    <2>3. i \in Int /\ j \in Int
      OBVIOUS
    <2>4. QED
      BY <2>2, <2>3
  <1>6. QED
    BY <1>5

--------------------------------------------------------------------------------
(* The policy's view of a request is a request. *)

LEMMA ResolvedClassType ==
    ASSUME NEW g \in GateType, NEW c \in AuthorityLabels
    PROVE  resolveActorClass(g, c) \in AuthorityLabels
  BY DEF resolveActorClass, GateType, Dictionary

LEMMA EffectiveRequestType ==
    ASSUME NEW g \in GateType, NEW r \in GovernedRequestType
    PROVE  /\ EffectiveRequest(g, r) \in GovernedRequestType
           /\ EffectiveRequest(g, r).shape = r.shape
  <1>1. resolveActorClass(g, r.actorAuthorityClass) \in AuthorityLabels
    BY ResolvedClassType DEF GovernedRequestType
  <1>2. (\/ r.approvalRequired
         \/ isPolicyApprovalRequired(g, r.workflowClass)
         \/ ActionPolicyBehaviourIs(g, r, "requires_approval")) \in BOOLEAN
    BY DEF GovernedRequestType, isPolicyApprovalRequired, ActionPolicyBehaviourIs
  <1>3. QED
    BY <1>1, <1>2 DEF EffectiveRequest, GovernedRequestType

--------------------------------------------------------------------------------
(* The policy's view of a request, in the words of the release conditions.  *)

LEMMA PolicyAsks ==
    ASSUME NEW g \in GateType, NEW w \in WorkflowLabels
    PROVE  isPolicyApprovalRequired(g, w) <=>
              RuleAsksApproval(g, w) \/ w \in Keys(g.approvalChains)
  <1>1. w \in Keys(g.approvalChains) <=> g.approvalChains[w] # Absent
    BY DEF Keys, GateType, Dictionary
  <1>2. QED
    BY <1>1 DEF isPolicyApprovalRequired, RuleAsksApproval

\* The comment above isPolicyApprovalRequired lets any rule for the workflow ask
\* for an approval.  Of a policy pack that has at most one rule for a workflow,
\* which loadCerbaSealPolicy does not check, it says what the code does
\* (execution-gate-service.ts:476-478, 490).
THEOREM FirstRuleIsAnyRule ==
    ASSUME NEW g \in GateType, OneRulePerWorkflow(g), NEW w \in WorkflowLabels
    PROVE  RuleAsksApproval(g, w) <=>
              \E i \in DOMAIN g.workflowRules :
                  /\ g.workflowRules[i].workflowClass = w
                  /\ g.workflowRules[i].requiresApproval
  <1>1. ASSUME NEW i \in DOMAIN g.workflowRules, NEW j \in 1 .. (i - 1),
               g.workflowRules[i].workflowClass = w,
               g.workflowRules[j].workflowClass = w
        PROVE  FALSE
    <2>1. g.workflowRules \in Seq(WorkflowRule)
      BY DEF GateType
    <2>2. i \in 1 .. Len(g.workflowRules) /\ Len(g.workflowRules) \in Nat
      BY <2>1
    <2>3. j \in DOMAIN g.workflowRules /\ j # i
      BY <2>1, <2>2
    <2>4. QED
      BY <1>1, <2>3 DEF OneRulePerWorkflow
  <1>2. QED
    BY <1>1 DEF RuleAsksApproval

LEMMA ResolvedIsCanonical ==
    ASSUME NEW g \in GateType, NEW r \in GovernedRequestType
    PROVE  /\ CanonicalClass(g, r) = resolveActorClass(g, r.actorAuthorityClass)
           /\ KnownClasses(g) = allowedAuthorityClasses(g)
  BY DEF CanonicalClass, KnownClasses, resolveActorClass, allowedAuthorityClasses,
         Keys, GateType, Dictionary, GovernedRequestType

\* effectiveRequest carries the canonical class and exactly the approval
\* requirement of the release conditions; the rest is the caller's.
LEMMA PolicyView ==
    ASSUME NEW g \in GateType, NEW r \in GovernedRequestType,
           NEW e, e = EffectiveRequest(g, r)
    PROVE  /\ e.actorAuthorityClass = CanonicalClass(g, r)
           /\ effectiveApprovalRequired(e) <=> ApprovalNeeded(g, r)
           /\ e.requestId = r.requestId
           /\ e.workflowClass = r.workflowClass
           /\ e.proposedActionClass = r.proposedActionClass
           /\ e.proposalSourceKind = r.proposalSourceKind
           /\ e.authorityBearing = r.authorityBearing
           /\ e.sensitive = r.sensitive
           /\ e.prohibitedUse = r.prohibitedUse
           /\ e.policyPackRef = r.policyPackRef
           /\ e.provenanceRef = r.provenanceRef
           /\ e.approvalArtifact = r.approvalArtifact
           /\ e.loggingReady = r.loggingReady
           /\ e.controlStatus = r.controlStatus
           /\ e.trustState = r.trustState
           /\ e.createdAt = r.createdAt
  <1>1. e.actorAuthorityClass = CanonicalClass(g, r)
    BY ResolvedIsCanonical DEF EffectiveRequest, GovernedRequestType
  <1>2. e.approvalRequired <=>
            \/ r.approvalRequired
            \/ isPolicyApprovalRequired(g, r.workflowClass)
            \/ ActionPolicyBehaviourIs(g, r, "requires_approval")
    BY DEF EffectiveRequest, GovernedRequestType
  <1>3. e.workflowClass = r.workflowClass /\ r.workflowClass \in WorkflowLabels
    BY DEF EffectiveRequest, GovernedRequestType
  <1>4. effectiveApprovalRequired(e) <=> ApprovalNeeded(g, r)
    BY <1>2, <1>3, PolicyAsks
    DEF effectiveApprovalRequired, WorkflowsRequiringApproval,
        ApprovalNeeded, PolicyBehaviourIs, Keys, ActionPolicyBehaviourIs
  <1>5. QED
    BY <1>1, <1>3, <1>4 DEF EffectiveRequest, GovernedRequestType

--------------------------------------------------------------------------------
(* The fifteen checks, one by one. *)

\* What each check raises, and the invariant it records.
LEMMA CheckList ==
    ASSUME NEW g, NEW r
    PROVE  LET e == EffectiveRequest(g, r)
               C == Checks(g, r)
           IN  /\ DOMAIN C = 1 .. 15 /\ Len(C) = 15
               /\ C[1].fault = ShapeFault(r)
               /\ C[2].fault = ActorFault(g, r)
               /\ C[3].fault = ActionFault(r.proposedActionClass)
               /\ C[4].fault = ActionFault(r.requestedActionClass)
               /\ C[5].fault = ActionsMatchFault(r)
               /\ C[6].fault = ActionPolicyFault(g, r)
               /\ C[7].fault = PolicyPackFault(e)
               /\ C[8].fault = ProvenanceFault(e)
               /\ C[9].fault = LoggingFault(e)
               /\ C[10].fault = ProposalBoundaryFault(e)
               /\ C[11].fault = ProhibitedUseFault(e)
               /\ C[12].fault = ControlStatusFault(e)
               /\ C[13].fault = TrustStateFault(e)
               /\ C[14].fault = ApprovalStateFault(e)
               /\ C[15].fault = ApprovalChainFault(g, e)
  BY DEF Checks

LEMMA CheckCodes ==
    ASSUME NEW g, NEW r
    PROVE  LET C == Checks(g, r)
           IN  /\ \A n \in {1, 2, 3, 4, 6} : C[n].code = "INV-11"
               /\ C[5].code = "INV-12" /\ C[7].code = "INV-01"
               /\ C[8].code = "INV-02" /\ C[9].code = "INV-04"
               /\ C[10].code = "INV-05" /\ C[11].code = "INV-10"
               /\ C[12].code = "INV-08" /\ C[13].code = "INV-09"
               /\ C[14].code = "INV-03" /\ C[15].code = "INV-03"
  BY DEF Checks

\* What a check may raise.
Faults == ReasonCodes \cup {NoFault, "TypeError"}

\* What is behind a fault f of the request: the reason applies to it, or the
\* exception comes from data that is missing.
Caused(g, r, f) ==
    /\ f \in Faults
    /\ f \in ReasonCodes \ {"REQUIRED_APPROVAL_MISSING"} => StandsAgainst(g, r, f)
    /\ f = "TypeError" => DataMissing(g, r)

\* The checks before the approval raise nothing without a cause, and what they
\* let pass has the property they check.
LEMMA CallerChecksSound ==
    ASSUME NEW g \in GateType, NEW r \in GovernedRequestType, NEW n \in 1 .. 6,
           NEW f, f = Checks(g, r)[n].fault
    PROVE  /\ Caused(g, r, f) /\ f # "REQUIRED_APPROVAL_MISSING"
           /\ r.shape # "ok" /\ n = 1 => f # NoFault
           /\ r.shape = "unreadable" /\ n = 1 => f = "TypeError"
           /\ n = 2 /\ f = NoFault => CanonicalClass(g, r) \in KnownClasses(g)
           /\ n = 3 /\ f = NoFault => r.proposedActionClass \in CoreActionClasses
           /\ n = 4 /\ f = NoFault => r.requestedActionClass \in CoreActionClasses
           /\ n = 5 /\ f = NoFault => r.proposedActionClass = r.requestedActionClass
           /\ n = 6 /\ f = NoFault => ~ PolicyBehaviourIs(g, r, "blocked")
  <1> USE DEF Faults, Caused, NoFault, ReasonCodes, Unless
  <1>1. CASE n = 1
    <2>1. f = ShapeFault(r)
      BY <1>1, CheckList
    <2>2. QED
      BY <1>1, <2>1 DEF ShapeFault, StandsAgainst, DataMissing
  <1>2. CASE n = 2
    <2>1. f = Unless(CanonicalClass(g, r) \in KnownClasses(g), "MALFORMED_REQUEST")
      BY <1>2, CheckList, ResolvedIsCanonical DEF ActorFault
    <2>2. QED
      BY <1>2, <2>1 DEF StandsAgainst
  <1>3. CASE n = 3
    <2>1. f = ActionFault(r.proposedActionClass)
      BY <1>3, CheckList
    <2>2. QED
      BY <1>3, <2>1 DEF ActionFault, StandsAgainst
  <1>4. CASE n = 4
    <2>1. f = ActionFault(r.requestedActionClass)
      BY <1>4, CheckList
    <2>2. QED
      BY <1>4, <2>1 DEF ActionFault, StandsAgainst
  <1>5. CASE n = 5
    <2>1. f = ActionsMatchFault(r)
      BY <1>5, CheckList
    <2>2. QED
      BY <1>5, <2>1 DEF ActionsMatchFault, StandsAgainst
  <1>6. CASE n = 6
    <2>1. f = ActionPolicyFault(g, r)
      BY <1>6, CheckList
    <2>2. QED
      BY <1>6, <2>1
      DEF ActionPolicyFault, ActionPolicyBehaviourIs, PolicyBehaviourIs, StandsAgainst
  <1>7. QED
    BY <1>1, <1>2, <1>3, <1>4, <1>5, <1>6

LEMMA PolicyChecksSound ==
    ASSUME NEW g \in GateType, NEW r \in GovernedRequestType,
           NEW n \in 7 .. 13, NEW f, f = Checks(g, r)[n].fault
    PROVE  /\ Caused(g, r, f) /\ f # "REQUIRED_APPROVAL_MISSING"
           /\ n = 7 /\ f = NoFault => r.policyPackRef # "null"
           /\ n = 8 /\ f = NoFault => r.provenanceRef = "complete"
           /\ n = 9 /\ f = NoFault => r.loggingReady
           /\ n = 10 /\ f = NoFault =>
                 /\ ~ r.authorityBearing
                 /\ ~ (r.proposalSourceKind = "ai" /\ CanonicalClass(g, r) = "ai")
           /\ n = 11 /\ f = NoFault => ~ r.prohibitedUse
           /\ n = 12 /\ f = NoFault => ~ r.sensitive \/ r.controlStatus = "valid"
           /\ n = 13 /\ f = NoFault => r.trustState = "trusted"
  <1> DEFINE e == EffectiveRequest(g, r)
  <1>0. /\ e.actorAuthorityClass = CanonicalClass(g, r)
        /\ e.proposalSourceKind = r.proposalSourceKind
        /\ e.authorityBearing = r.authorityBearing
        /\ e.sensitive = r.sensitive /\ e.prohibitedUse = r.prohibitedUse
        /\ e.policyPackRef = r.policyPackRef /\ e.provenanceRef = r.provenanceRef
        /\ e.loggingReady = r.loggingReady /\ e.controlStatus = r.controlStatus
        /\ e.trustState = r.trustState
    BY PolicyView
  <1> HIDE DEF e
  <1> USE DEF Faults, Caused, NoFault, ReasonCodes, Unless
  <1>1. CASE n = 7
    <2>1. f = PolicyPackFault(e)
      BY <1>1, CheckList DEF e
    <2>2. QED
      BY <1>0, <1>1, <2>1 DEF PolicyPackFault, StandsAgainst
  <1>2. CASE n = 8
    <2>1. f = ProvenanceFault(e)
      BY <1>2, CheckList DEF e
    <2>2. QED
      BY <1>0, <1>2, <2>1
      DEF ProvenanceFault, StandsAgainst, DataMissing, GovernedRequestType
  <1>3. CASE n = 9
    <2>1. f = LoggingFault(e)
      BY <1>3, CheckList DEF e
    <2>2. QED
      BY <1>0, <1>3, <2>1 DEF LoggingFault, StandsAgainst
  <1>4. CASE n = 10
    <2>1. f = ProposalBoundaryFault(e)
      BY <1>4, CheckList DEF e
    <2>2. QED
      BY <1>0, <1>4, <2>1 DEF ProposalBoundaryFault, StandsAgainst
  <1>5. CASE n = 11
    <2>1. f = ProhibitedUseFault(e)
      BY <1>5, CheckList DEF e
    <2>2. QED
      BY <1>0, <1>5, <2>1 DEF ProhibitedUseFault, StandsAgainst
  <1>6. CASE n = 12
    <2>1. f = ControlStatusFault(e)
      BY <1>6, CheckList DEF e
    <2>2. QED
      BY <1>0, <1>6, <2>1
      DEF ControlStatusFault, StandsAgainst, DataMissing, GovernedRequestType
  <1>7. CASE n = 13
    <2>1. f = TrustStateFault(e)
      BY <1>7, CheckList DEF e
    <2>2. QED
      BY <1>0, <1>7, <2>1
      DEF TrustStateFault, StandsAgainst, DataMissing, GovernedRequestType
  <1>8. QED
    BY <1>1, <1>2, <1>3, <1>4, <1>5, <1>6, <1>7

\* The artifact of r approves r, chain aside.
ApprovesChainAside(r) ==
    LET a == r.approvalArtifact
    IN  /\ a \in ApprovalArtifact
        /\ a.forRequestId = r.requestId
        /\ r.createdAt # InvalidDate /\ a.approvedAt # InvalidDate
        /\ a.approvedAt \notin 0 .. (r.createdAt - 1)
        /\ a.approverAuthorityClass \in HumanAuthorityClasses
        /\ a.privilegedAuthSatisfied
        /\ a.immutableSignature = "signed"

\* Every way the check of an artifact can end.
LEMMA ArtifactCheckSound ==
    ASSUME NEW g \in GateType, NEW r \in GovernedRequestType, NEW e,
           e.requestId = r.requestId, e.createdAt = r.createdAt,
           ApprovalNeeded(g, r), r.approvalArtifact \notin {Null, Absent},
           NEW f, f = ArtifactFault(e, r.approvalArtifact)
    PROVE  /\ f = NoFault => ApprovesChainAside(r)
           /\ Caused(g, r, f) /\ f # "REQUIRED_APPROVAL_MISSING"
  <1> DEFINE a == r.approvalArtifact
  <1> USE DEF Faults, Caused, NoFault, ReasonCodes
  <1>1. a \in ApprovalArtifact /\ ApprovalGiven(g, r)
    BY DEF GovernedRequestType, ApprovalGiven
  <1>2. CASE a.forRequestId # r.requestId
    BY <1>1, <1>2 DEF ArtifactFault, StandsAgainst
  <1>3. CASE /\ a.forRequestId = r.requestId
             /\ r.createdAt = InvalidDate \/ a.approvedAt = InvalidDate
    <2>1. DataMissing(g, r)
      BY <1>1, <1>3 DEF DataMissing
    <2>2. QED
      BY <1>1, <1>3, <2>1 DEF ArtifactFault, StandsAgainst
  <1>4. CASE /\ a.forRequestId = r.requestId
             /\ r.createdAt # InvalidDate /\ a.approvedAt # InvalidDate
             /\ \/ a.approvedAt < r.createdAt
                \/ a.approverAuthorityClass \notin HumanAuthorityClasses
    <2>1. \/ a.approvedAt \in 0 .. (r.createdAt - 1)
          \/ ~ MayApprove(g, r, a.approverAuthorityClass)
      BY <1>1, <1>4
      DEF ApprovalArtifact, GovernedRequestType, Instant, InvalidDate, MayApprove
    <2>2. f = "INVALID_APPROVAL_AUTHORITY"
      BY <1>4 DEF ArtifactFault
    <2>3. QED
      BY <1>1, <2>1, <2>2 DEF StandsAgainst
  <1>5. CASE /\ a.forRequestId = r.requestId
             /\ r.createdAt # InvalidDate /\ a.approvedAt # InvalidDate
             /\ ~ (a.approvedAt < r.createdAt)
             /\ a.approverAuthorityClass \in HumanAuthorityClasses
    <2>1. CASE ~ a.privilegedAuthSatisfied
      BY <1>1, <1>5, <2>1 DEF ArtifactFault, StandsAgainst
    <2>2. CASE a.privilegedAuthSatisfied /\ a.immutableSignature = "signed"
      <3>1. a.approvedAt \notin 0 .. (r.createdAt - 1)
        BY <1>1, <1>5 DEF ApprovalArtifact, GovernedRequestType, Instant, InvalidDate
      <3>2. f = NoFault
        BY <1>5, <2>2 DEF ArtifactFault
      <3>3. QED
        BY <1>1, <1>5, <2>2, <3>1, <3>2 DEF ApprovesChainAside
    <2>3. CASE a.privilegedAuthSatisfied /\ a.immutableSignature = "blank"
      BY <1>1, <1>5, <2>3 DEF ArtifactFault, StandsAgainst
    <2>4. CASE a.privilegedAuthSatisfied /\ a.immutableSignature = "absent"
      <3>1. f = "TypeError"
        BY <1>5, <2>4 DEF ArtifactFault
      <3>2. QED
        BY <1>1, <2>4, <3>1 DEF DataMissing
    <2>5. QED
      BY <1>1, <2>1, <2>2, <2>3, <2>4 DEF ApprovalArtifact
  <1>6. QED
    BY <1>2, <1>3, <1>4, <1>5

LEMMA ApprovalCheckSound ==
    ASSUME NEW g \in GateType, NEW r \in GovernedRequestType,
           NEW f, f = Checks(g, r)[14].fault
    PROVE  /\ Caused(g, r, f)
           /\ f = NoFault /\ ApprovalNeeded(g, r) => ApprovesChainAside(r)
           /\ f = "REQUIRED_APPROVAL_MISSING" =>
                 ApprovalNeeded(g, r) /\ r.approvalArtifact = Null
  <1> DEFINE e == EffectiveRequest(g, r)
  <1>1. /\ effectiveApprovalRequired(e) <=> ApprovalNeeded(g, r)
        /\ e.requestId = r.requestId /\ e.createdAt = r.createdAt
        /\ e.approvalArtifact = r.approvalArtifact
    BY PolicyView
  <1>2. f = ApprovalStateFault(e)
    BY CheckList
  <1> HIDE DEF e
  <1> USE DEF Faults, Caused, NoFault, ReasonCodes
  <1>3. CASE ~ ApprovalNeeded(g, r)
    BY <1>1, <1>2, <1>3 DEF ApprovalStateFault
  <1>4. CASE ApprovalNeeded(g, r) /\ r.approvalArtifact = Null
    BY <1>1, <1>2, <1>4, NullAssumption DEF ApprovalStateFault
  <1>5. CASE ApprovalNeeded(g, r) /\ r.approvalArtifact = Absent
    BY <1>1, <1>2, <1>5, NullAssumption DEF ApprovalStateFault, DataMissing
  <1>6. CASE ApprovalNeeded(g, r) /\ r.approvalArtifact \notin {Null, Absent}
    <2>1. f = ArtifactFault(e, r.approvalArtifact)
      BY <1>1, <1>2, <1>6 DEF ApprovalStateFault
    <2>2. QED
      BY <1>1, <1>6, <2>1, ArtifactCheckSound
  <1>7. QED
    BY <1>3, <1>4, <1>5, <1>6

\* A chain that names a class makes the approval needed.
LEMMA ChainNeedsApproval ==
    ASSUME NEW g \in GateType, NEW r \in GovernedRequestType
    PROVE  /\ getApprovalChains(g, r.workflowClass) # {} => ApprovalNeeded(g, r)
           /\ \A class \in HumanAuthorityClasses :
                 MayApprove(g, r, class) <=>
                     \/ getApprovalChains(g, r.workflowClass) = {}
                     \/ class \in getApprovalChains(g, r.workflowClass)
  BY NullAssumption
  DEF getApprovalChains, ApprovalNeeded, MayApprove, Keys, GateType, Dictionary,
      GovernedRequestType

LEMMA ChainCheckSound ==
    ASSUME NEW g \in GateType, NEW r \in GovernedRequestType,
           NEW f, f = Checks(g, r)[15].fault
    PROVE  /\ Caused(g, r, f) /\ f # "REQUIRED_APPROVAL_MISSING"
           /\ f = NoFault /\ ApprovesChainAside(r) =>
                 MayApprove(g, r, r.approvalArtifact.approverAuthorityClass)
  <1> DEFINE e     == EffectiveRequest(g, r)
             chain == getApprovalChains(g, r.workflowClass)
             class == r.approvalArtifact.approverAuthorityClass
  <1>1. e.workflowClass = r.workflowClass /\ e.approvalArtifact = r.approvalArtifact
    BY PolicyView
  <1>2. f = ApprovalChainFault(g, e)
    BY CheckList
  <1> HIDE DEF e
  <1> USE DEF Faults, Caused, NoFault, ReasonCodes
  <1>3. /\ chain # {} => ApprovalNeeded(g, r)
        /\ class \in HumanAuthorityClasses =>
              (MayApprove(g, r, class) <=> chain = {} \/ class \in chain)
        /\ MayApprove(g, r, class) => class \in HumanAuthorityClasses
    BY ChainNeedsApproval DEF MayApprove
  <1>4. CASE chain = {} \/ r.approvalArtifact = Null
    BY <1>1, <1>2, <1>3, <1>4, NullAssumption
    DEF ApprovalChainFault, ChainApplies, ApprovesChainAside
  <1>5. CASE chain # {} /\ r.approvalArtifact = Absent
    <2>1. f = "TypeError"
      BY <1>1, <1>2, <1>5, NullAssumption DEF ApprovalChainFault, ChainApplies
    <2>2. QED
      BY <1>3, <1>5, <2>1 DEF DataMissing
  <1>6. CASE chain # {} /\ r.approvalArtifact \notin {Null, Absent}
    <2>1. f = Unless(class \in chain, "INVALID_APPROVAL_AUTHORITY")
      BY <1>1, <1>2, <1>6 DEF ApprovalChainFault, ChainApplies
    <2>2. class \notin chain => ~ MayApprove(g, r, class)
      BY <1>3, <1>6
    <2>3. class \notin chain => StandsAgainst(g, r, "INVALID_APPROVAL_AUTHORITY")
      BY <1>3, <1>6, <2>2 DEF StandsAgainst, ApprovalGiven
    <2>4. QED
      BY <1>3, <2>1, <2>3 DEF Unless, ApprovesChainAside
  <1>7. QED
    BY <1>4, <1>5, <1>6

--------------------------------------------------------------------------------
(* evaluate in terms of its first fault. *)

\* The first k checks raise nothing.
PassedFirst(g, r, k) == \A n \in 1 .. k : Checks(g, r)[n].fault = NoFault

\* The n-th check is the first to raise a fault.
FirstFault(g, r, n) ==
    /\ n \in 1 .. 15
    /\ PassedFirst(g, r, n - 1)
    /\ Checks(g, r)[n].fault # NoFault

\* The invariants that the first n checks record.
CodesOf(g, r, n) == {Checks(g, r)[k].code : k \in 1 .. n}

\* The view of the request that the n-th check works on.
ViewOf(g, r, n) == IF n < PolicyViewFrom THEN r ELSE EffectiveRequest(g, r)

\* What evaluate makes of a fault of the n-th check.
ResultOfFault(g, r, n) ==
    LET f == Checks(g, r)[n].fault
    IN  IF f # "TypeError" THEN Blocked(ViewOf(g, r, n), f, CodesOf(g, r, n))
        ELSE IF r.shape # "unreadable" THEN Fallback(ViewOf(g, r, n), CodesOf(g, r, n))
        ELSE Threw

LEMMA PassesOrFails ==
    ASSUME NEW g, NEW r
    PROVE  PassedFirst(g, r, 15) \/ \E n : FirstFault(g, r, n)
  <1> DEFINE failing == {n \in 1 .. 15 : Checks(g, r)[n].fault # NoFault}
  <1>1. CASE failing = {}
    BY <1>1 DEF PassedFirst
  <1>2. CASE failing # {}
    <2>1. PICK n \in failing : \A m \in failing : n <= m
      BY <1>2, LeastExists
    <2>2. FirstFault(g, r, n)
      BY <2>1 DEF FirstFault, PassedFirst
    <2>3. QED
      BY <2>2
  <1>3. QED
    BY <1>1, <1>2

LEMMA EvaluatePasses ==
    ASSUME NEW g, NEW r, PassedFirst(g, r, 15)
    PROVE  evaluate(g, r) = Allowed(EffectiveRequest(g, r), CodesOf(g, r, 15))
  <1>1. DOMAIN Checks(g, r) = 1 .. 15 /\ Len(Checks(g, r)) = 15
    BY CheckList
  <1>2. {n \in DOMAIN Checks(g, r) : Checks(g, r)[n].fault # NoFault} = {}
    BY <1>1 DEF PassedFirst
  <1>3. QED
    BY <1>1, <1>2 DEF evaluate, CodesOf

LEMMA EvaluateFails ==
    ASSUME NEW g, NEW r, NEW n, FirstFault(g, r, n)
    PROVE  evaluate(g, r) = ResultOfFault(g, r, n)
  <1> DEFINE failing == {k \in DOMAIN Checks(g, r) : Checks(g, r)[k].fault # NoFault}
             first   == CHOOSE k \in failing : \A m \in failing : k <= m
  <1>1. DOMAIN Checks(g, r) = 1 .. 15
    BY CheckList
  <1>2. n \in failing /\ \A m \in failing : n <= m
    BY <1>1 DEF FirstFault, PassedFirst
  <1>3. failing \subseteq Nat
    BY <1>1
  <1>4. first = n
    <2> HIDE DEF failing
    <2>1. first \in failing /\ \A m \in failing : first <= m
      BY <1>2
    <2> HIDE DEF first
    <2>2. first \in Nat /\ n \in Nat /\ first <= n /\ n <= first
      BY <1>2, <1>3, <2>1
    <2>3. QED
      BY <2>2
  <1>5. failing # {}
    BY <1>2
  <1>6. evaluate(g, r) =
            LET f == Checks(g, r)[first].fault
            IN  IF f # "TypeError"
                THEN Blocked(ViewOf(g, r, first), f, CodesOf(g, r, first))
                ELSE IF r.shape # "unreadable"
                THEN Fallback(ViewOf(g, r, first), CodesOf(g, r, first))
                ELSE Threw
    BY <1>5 DEF evaluate, ViewOf, CodesOf
  <1>7. QED
    BY <1>4, <1>6 DEF ResultOfFault

--------------------------------------------------------------------------------
(* The verdict of evaluate. *)

\* What the checks before the approval have established.
LEMMA EstablishedBeforeApproval ==
    ASSUME NEW g \in GateType, NEW r \in GovernedRequestType,
           PassedFirst(g, r, 13)
    PROVE  /\ r.shape = "ok"
           /\ CanonicalClass(g, r) \in KnownClasses(g)
           /\ r.proposedActionClass \in CoreActionClasses
           /\ r.requestedActionClass = r.proposedActionClass
           /\ ~ PolicyBehaviourIs(g, r, "blocked")
           /\ r.policyPackRef # "null"
           /\ r.provenanceRef = "complete"
           /\ r.loggingReady
           /\ ~ r.authorityBearing
           /\ ~ (r.proposalSourceKind = "ai" /\ CanonicalClass(g, r) = "ai")
           /\ ~ r.prohibitedUse
           /\ ~ r.sensitive \/ r.controlStatus = "valid"
           /\ r.trustState = "trusted"
  <1>1. \A n \in 1 .. 13 : Checks(g, r)[n].fault = NoFault
    BY DEF PassedFirst
  <1>2. /\ r.shape = "ok"
        /\ CanonicalClass(g, r) \in KnownClasses(g)
        /\ r.proposedActionClass \in CoreActionClasses
        /\ r.requestedActionClass = r.proposedActionClass
        /\ ~ PolicyBehaviourIs(g, r, "blocked")
    <2>1. \A n \in 1 .. 6 : Checks(g, r)[n].fault = NoFault
      BY <1>1
    <2>2. QED
      BY <2>1, CallerChecksSound
  <1>3. /\ r.policyPackRef # "null"
        /\ r.provenanceRef = "complete"
        /\ r.loggingReady
        /\ ~ r.authorityBearing
        /\ ~ (r.proposalSourceKind = "ai" /\ CanonicalClass(g, r) = "ai")
        /\ ~ r.prohibitedUse
        /\ ~ r.sensitive \/ r.controlStatus = "valid"
        /\ r.trustState = "trusted"
    <2>1. \A n \in 7 .. 13 : Checks(g, r)[n].fault = NoFault
      BY <1>1
    <2>2. QED
      BY <2>1, PolicyChecksSound
  <1>4. QED
    BY <1>2, <1>3

\* What stands against a request that passed them is a matter of its approval.
LEMMA OnlyApprovalIsLeft ==
    ASSUME NEW g \in GateType, NEW r \in GovernedRequestType,
           PassedFirst(g, r, 13), NEW f \in ReasonCodes, StandsAgainst(g, r, f)
    PROVE  /\ ApprovalNeeded(g, r)
           /\ r.approvalArtifact = Null => f = "REQUIRED_APPROVAL_MISSING"
           /\ ApprovesChainAside(r) =>
                 ~ MayApprove(g, r, r.approvalArtifact.approverAuthorityClass)
  <1>1. CASE f = "MALFORMED_REQUEST"
    <2>1. DataMissing(g, r)
      BY <1>1, EstablishedBeforeApproval DEF StandsAgainst
    <2>2. ApprovalNeeded(g, r) /\ r.approvalArtifact # Null /\ ~ ApprovesChainAside(r)
      BY <2>1, EstablishedBeforeApproval, NullAssumption
      DEF DataMissing, ApprovalGiven, ApprovesChainAside
    <2>3. QED
      BY <2>2
  <1>2. CASE f # "MALFORMED_REQUEST"
    <2>1. \/ /\ f = "REQUIRED_APPROVAL_MISSING"
             /\ ApprovalNeeded(g, r) /\ r.approvalArtifact = Null
          \/ /\ ApprovalGiven(g, r)
             /\ \/ r.approvalArtifact.forRequestId # r.requestId
                \/ r.approvalArtifact.approvedAt \in 0 .. (r.createdAt - 1)
                \/ ~ MayApprove(g, r, r.approvalArtifact.approverAuthorityClass)
                \/ ~ r.approvalArtifact.privilegedAuthSatisfied
                \/ r.approvalArtifact.immutableSignature = "blank"
      BY <1>2, EstablishedBeforeApproval DEF StandsAgainst
    <2>2. QED
      BY <2>1, NullAssumption DEF ApprovalGiven, ApprovesChainAside
  <1>3. QED
    BY <1>1, <1>2

LEMMA PassingMayBeReleased ==
    ASSUME NEW g \in GateType, NEW r \in GovernedRequestType,
           PassedFirst(g, r, 15)
    PROVE  MayRelease(g, r)
  <1>1. /\ PassedFirst(g, r, 13)
        /\ Checks(g, r)[14].fault = NoFault /\ Checks(g, r)[15].fault = NoFault
    BY DEF PassedFirst
  <1>2. ApprovalNeeded(g, r) =>
           /\ ApprovesChainAside(r)
           /\ MayApprove(g, r, r.approvalArtifact.approverAuthorityClass)
    BY <1>1, ApprovalCheckSound, ChainCheckSound
  <1>3. QED
    BY <1>1, <1>2, OnlyApprovalIsLeft DEF MayRelease

\* Every fault has its cause in the request; a missing approval is the cause
\* only if it is all that stands against the request.
LEMMA FaultsAreCaused ==
    ASSUME NEW g \in GateType, NEW r \in GovernedRequestType,
           NEW n, FirstFault(g, r, n), NEW f, f = Checks(g, r)[n].fault
    PROVE  /\ Caused(g, r, f) /\ f # NoFault
           /\ f = "REQUIRED_APPROVAL_MISSING" => AwaitsApproval(g, r) /\ n = 14
           /\ r.shape = "unreadable" => f = "TypeError"
  <1>1. n \in 1 .. 15 /\ f # NoFault
    BY DEF FirstFault
  <1>2. Caused(g, r, f) /\ (f = "REQUIRED_APPROVAL_MISSING" => n = 14)
    <2>1. CASE n \in 1 .. 6
      BY <2>1, CallerChecksSound
    <2>2. CASE n \in 7 .. 13
      BY <2>2, PolicyChecksSound
    <2>3. CASE n = 14
      BY <2>3, ApprovalCheckSound
    <2>4. CASE n = 15
      BY <2>4, ChainCheckSound
    <2>5. QED
      BY <1>1, <2>1, <2>2, <2>3, <2>4
  <1>3. f = "REQUIRED_APPROVAL_MISSING" => AwaitsApproval(g, r)
    <2> SUFFICES ASSUME f = "REQUIRED_APPROVAL_MISSING" PROVE AwaitsApproval(g, r)
      OBVIOUS
    <2>1. n = 14 /\ PassedFirst(g, r, 13)
      BY <1>2 DEF FirstFault
    <2>2. ApprovalNeeded(g, r) /\ r.approvalArtifact = Null
      BY <2>1, ApprovalCheckSound
    <2>3. StandsAgainst(g, r, "REQUIRED_APPROVAL_MISSING")
      BY <2>2 DEF StandsAgainst
    <2>4. QED
      BY <2>1, <2>2, <2>3, OnlyApprovalIsLeft DEF AwaitsApproval
  <1>4. ASSUME r.shape = "unreadable" PROVE n = 1
    <2>1. Checks(g, r)[1].fault # NoFault
      BY <1>4, CallerChecksSound
    <2>2. QED
      BY <1>1, <2>1 DEF FirstFault, PassedFirst
  <1>5. r.shape = "unreadable" => f = "TypeError"
    BY <1>4, CallerChecksSound
  <1>6. QED
    BY <1>1, <1>2, <1>3, <1>5

\* The members of a result object.
LEMMA ResultFields ==
    ASSUME NEW view, NEW finalState, NEW reason, NEW permitted, NEW trace,
           NEW res, res = Result(view, finalState, reason, permitted, trace)
    PROVE  /\ res.requestId = view.requestId
           /\ res.workflowClass = view.workflowClass
           /\ res.finalState = finalState
           /\ res.reason = reason
           /\ res.permittedActionClass = permitted
           /\ res.releaseAuthorization = permitted
           /\ res.checkedInvariants = trace
           /\ res.humanApprovalRequired = view.approvalRequired
           /\ res.blockedActionRecord <=> finalState # "ALLOW"
  BY DEF Result

\* Which of its three ways evaluate takes.
LEMMA EvaluateCases ==
    ASSUME NEW g \in GateType, NEW r \in GovernedRequestType,
           evaluate(g, r) # Threw \/ r.shape # "unreadable"
    PROVE  \/ /\ MayRelease(g, r)
              /\ PassedFirst(g, r, 15)
              /\ evaluate(g, r) = Allowed(EffectiveRequest(g, r), CodesOf(g, r, 15))
           \/ \E n : LET f == Checks(g, r)[n].fault IN
              /\ FirstFault(g, r, n)
              /\ f \in ReasonCodes
              /\ f = "REQUIRED_APPROVAL_MISSING" => AwaitsApproval(g, r)
              /\ f # "REQUIRED_APPROVAL_MISSING" => StandsAgainst(g, r, f)
              /\ r.shape # "unreadable"
              /\ evaluate(g, r) = Blocked(ViewOf(g, r, n), f, CodesOf(g, r, n))
           \/ \E n : LET f == Checks(g, r)[n].fault IN
              /\ FirstFault(g, r, n)
              /\ f = "TypeError"
              /\ DataMissing(g, r)
              /\ r.shape # "unreadable"
              /\ evaluate(g, r) = Fallback(ViewOf(g, r, n), CodesOf(g, r, n))
  <1>1. CASE PassedFirst(g, r, 15)
    BY <1>1, EvaluatePasses, PassingMayBeReleased
  <1>2. ASSUME NEW n, FirstFault(g, r, n)
        PROVE  \/ LET f == Checks(g, r)[n].fault IN
                  /\ f \in ReasonCodes
                  /\ f = "REQUIRED_APPROVAL_MISSING" => AwaitsApproval(g, r)
                  /\ f # "REQUIRED_APPROVAL_MISSING" => StandsAgainst(g, r, f)
                  /\ r.shape # "unreadable"
                  /\ evaluate(g, r) = Blocked(ViewOf(g, r, n), f, CodesOf(g, r, n))
               \/ LET f == Checks(g, r)[n].fault IN
                  /\ f = "TypeError"
                  /\ DataMissing(g, r)
                  /\ r.shape # "unreadable"
                  /\ evaluate(g, r) = Fallback(ViewOf(g, r, n), CodesOf(g, r, n))
    <2> DEFINE f == Checks(g, r)[n].fault
    <2>1. /\ Caused(g, r, f) /\ f # NoFault
          /\ f = "REQUIRED_APPROVAL_MISSING" => AwaitsApproval(g, r)
          /\ r.shape = "unreadable" => f = "TypeError"
      BY <1>2, FaultsAreCaused
    <2>2. evaluate(g, r) =
              IF f # "TypeError" THEN Blocked(ViewOf(g, r, n), f, CodesOf(g, r, n))
              ELSE IF r.shape # "unreadable"
              THEN Fallback(ViewOf(g, r, n), CodesOf(g, r, n))
              ELSE Threw
      BY <1>2, EvaluateFails DEF ResultOfFault
    <2> HIDE DEF f
    <2>3. CASE f = "TypeError"
      <3>1. r.shape # "unreadable"
        BY <2>2, <2>3
      <3>2. QED
        BY <2>1, <2>2, <2>3, <3>1 DEF Caused, f
    <2>4. CASE f # "TypeError"
      BY <2>1, <2>2, <2>4 DEF Caused, Faults, f
    <2>5. QED
      BY <2>3, <2>4
  <1>3. QED
    BY <1>1, <1>2, PassesOrFails

\* A result answers a request: it is the verdict for it, about it, and carries a
\* release of the proposed action just if it is an ALLOW.
Answers(g, r, res) ==
    /\ Verdict(g, r, res.finalState, res.reason)
    /\ res.finalState \in {"ALLOW", "HOLD", "REJECT"}
    /\ res.reason \in ReasonCodes \cup {"DECISION_ALLOWED"}
    /\ res.requestId = r.requestId
    /\ res.workflowClass = r.workflowClass
    /\ res.finalState = "ALLOW" =>
          /\ res.releaseAuthorization = r.proposedActionClass
          /\ res.permittedActionClass = r.proposedActionClass
    /\ res.finalState # "ALLOW" =>
          res.releaseAuthorization = Null /\ res.permittedActionClass = Null
    /\ res.blockedActionRecord <=> res.finalState # "ALLOW"

\* Every result of evaluate answers its request, which can be read; a request
\* that can be read has a result.
LEMMA EvaluateAnswers ==
    ASSUME NEW g \in GateType, NEW r \in GovernedRequestType,
           evaluate(g, r) # Threw \/ r.shape # "unreadable"
    PROVE  Answers(g, r, evaluate(g, r)) /\ r.shape # "unreadable"
  <1> DEFINE res == evaluate(g, r)
  <1>1. /\ EffectiveRequest(g, r).requestId = r.requestId
        /\ EffectiveRequest(g, r).workflowClass = r.workflowClass
        /\ EffectiveRequest(g, r).proposedActionClass = r.proposedActionClass
    BY PolicyView
  <1>2. \A n : /\ ViewOf(g, r, n).requestId = r.requestId
               /\ ViewOf(g, r, n).workflowClass = r.workflowClass
    BY <1>1 DEF ViewOf
  <1> HIDE DEF res
  <1>3. CASE /\ MayRelease(g, r) /\ PassedFirst(g, r, 15)
             /\ res = Allowed(EffectiveRequest(g, r), CodesOf(g, r, 15))
    <2>1. r.shape = "ok"
      <3>1. PassedFirst(g, r, 13)
        BY <1>3 DEF PassedFirst
      <3>2. QED
        BY <3>1, EstablishedBeforeApproval
    <2>2. /\ res.finalState = "ALLOW" /\ res.reason = "DECISION_ALLOWED"
          /\ res.requestId = r.requestId /\ res.workflowClass = r.workflowClass
          /\ res.releaseAuthorization = r.proposedActionClass
          /\ res.permittedActionClass = r.proposedActionClass
          /\ ~ res.blockedActionRecord
      BY <1>1, <1>3, ResultFields DEF Allowed
    <2>3. QED
      BY <1>3, <2>1, <2>2 DEF Answers, Verdict, res
  <1>4. ASSUME NEW n, NEW f \in ReasonCodes,
               f = "REQUIRED_APPROVAL_MISSING" => AwaitsApproval(g, r),
               f # "REQUIRED_APPROVAL_MISSING" => StandsAgainst(g, r, f),
               res = Blocked(ViewOf(g, r, n), f, CodesOf(g, r, n))
        PROVE  Answers(g, r, res)
    <2>1. /\ res.finalState = BlockedStateOf(f) /\ res.reason = f
          /\ res.requestId = r.requestId /\ res.workflowClass = r.workflowClass
          /\ res.releaseAuthorization = Null /\ res.permittedActionClass = Null
          /\ res.blockedActionRecord <=> BlockedStateOf(f) # "ALLOW"
      BY <1>2, <1>4, ResultFields DEF Blocked
    <2>2. CASE f = "REQUIRED_APPROVAL_MISSING"
      BY <1>4, <2>1, <2>2 DEF BlockedStateOf, Verdict, Answers
    <2>3. CASE f # "REQUIRED_APPROVAL_MISSING"
      BY <1>4, <2>1, <2>3 DEF BlockedStateOf, Verdict, Answers
    <2>4. QED
      BY <2>2, <2>3
  <1>5. ASSUME NEW n, DataMissing(g, r),
               res = Fallback(ViewOf(g, r, n), CodesOf(g, r, n))
        PROVE  Answers(g, r, res)
    <2>1. /\ res.finalState = "REJECT" /\ res.reason = "MALFORMED_REQUEST"
          /\ res.requestId = r.requestId /\ res.workflowClass = r.workflowClass
          /\ res.releaseAuthorization = Null /\ res.permittedActionClass = Null
          /\ res.blockedActionRecord
      BY <1>2, <1>5, ResultFields DEF Fallback
    <2>2. QED
      BY <1>5, <2>1 DEF Answers, Verdict, StandsAgainst, ReasonCodes
  <1>6. QED
    BY <1>3, <1>4, <1>5, EvaluateCases DEF res

LEMMA UnreadableThrows ==
    ASSUME NEW g \in GateType, NEW r \in GovernedRequestType,
           r.shape = "unreadable"
    PROVE  evaluate(g, r) = Threw
  BY EvaluateAnswers

\* The verdict leaves no choice but that of a reason to reject.
LEMMA VerdictsDiffer ==
    ASSUME NEW g, NEW r, NEW finalState, NEW reason, Verdict(g, r, finalState, reason)
    PROVE  /\ finalState = "ALLOW" <=> MayRelease(g, r)
           /\ finalState = "HOLD" <=> AwaitsApproval(g, r)
           /\ finalState = "REJECT" <=> ~ MayRelease(g, r) /\ ~ AwaitsApproval(g, r)
           /\ ~ (MayRelease(g, r) /\ AwaitsApproval(g, r))
  <1>1. ~ (MayRelease(g, r) /\ AwaitsApproval(g, r))
    BY DEF MayRelease, AwaitsApproval, ReasonCodes
  <1>2. finalState = "REJECT" => ~ MayRelease(g, r) /\ ~ AwaitsApproval(g, r)
    BY DEF Verdict, MayRelease, AwaitsApproval
  <1>3. QED
    BY <1>1, <1>2 DEF Verdict

--------------------------------------------------------------------------------
(* The events createBundle writes about an answer. *)

\* A release or a block, as the decision is.
OutcomeEvent(res) ==
    IF res.finalState = "ALLOW" THEN ReleaseEvent(res) ELSE BlockedEvent(res)

LEMMA ThreeInARow ==
    ASSUME NEW x, NEW y, NEW z
    PROVE  /\ <<x>> \o <<y>> \o <<>> \o <<z>> = <<x, y, z>>
           /\ <<x>> \o <<>> \o <<y>> \o <<z>> = <<x, y, z>>
  <1> DEFINE S == {x, y, z}
  <1>1. /\ <<x>> \in Seq(S) /\ <<y>> \in Seq(S) /\ <<z>> \in Seq(S)
        /\ <<x, y>> \in Seq(S) /\ <<x, y, z>> \in Seq(S)
    OBVIOUS
  <1>2. <<x>> \o <<y>> = <<x, y>>
    <2> DEFINE s == <<x>> \o <<y>>
               t == <<x, y>>
    <2>1. s \in Seq(S) /\ Len(s) = 2 /\ s[1] = x /\ s[2] = y
      BY <1>1, ConcatProperties
    <2>2. t \in Seq(S) /\ Len(t) = 2 /\ t[1] = x /\ t[2] = y
      BY <1>1
    <2> HIDE DEF S, s, t
    <2>3. \A i \in 1 .. Len(s) : s[i] = t[i]
      BY <2>1, <2>2
    <2>4. s = t
      BY <2>1, <2>2, <2>3, SeqEqual
    <2>5. QED
      BY <2>4 DEF s, t
  <1>3. <<x, y>> \o <<z>> = <<x, y, z>>
    <2> DEFINE s == <<x, y>> \o <<z>>
               t == <<x, y, z>>
    <2>1. s \in Seq(S) /\ Len(s) = 3 /\ s[1] = x /\ s[2] = y /\ s[3] = z
      BY <1>1, ConcatProperties
    <2>2. t \in Seq(S) /\ Len(t) = 3 /\ t[1] = x /\ t[2] = y /\ t[3] = z
      BY <1>1
    <2> HIDE DEF S, s, t
    <2>3. \A i \in 1 .. Len(s) : s[i] = t[i]
      BY <2>1, <2>2
    <2>4. s = t
      BY <2>1, <2>2, <2>3, SeqEqual
    <2>5. QED
      BY <2>4 DEF s, t
  <1>4. <<x>> \o <<>> = <<x>> /\ <<x, y>> \o <<>> = <<x, y>>
    BY <1>1, ConcatEmptySeq
  <1>5. QED
    BY <1>2, <1>3, <1>4

\* Three events: the evaluation, its outcome, the bundle.
LEMMA EventsOfAnswer ==
    ASSUME NEW g \in GateType, NEW r \in GovernedRequestType,
           NEW res, Answers(g, r, res)
    PROVE  Events(res) = <<EvaluatedEvent(res), OutcomeEvent(res), BundleEvent(res)>>
  <1>1. r.proposedActionClass \in ActionLabels
    BY DEF GovernedRequestType
  <1>2. CASE res.finalState = "ALLOW"
    <2>1. res.releaseAuthorization # Null /\ ~ res.blockedActionRecord
      BY <1>1, <1>2, NullAssumption DEF Answers
    <2>2. QED
      BY <1>2, <2>1, ThreeInARow DEF Events, OutcomeEvent
  <1>3. CASE res.finalState # "ALLOW"
    <2>1. res.releaseAuthorization = Null /\ res.blockedActionRecord
      BY <1>3 DEF Answers
    <2>2. QED
      BY <1>3, <2>1, ThreeInARow DEF Events, OutcomeEvent
  <1>4. QED
    BY <1>2, <1>3

--------------------------------------------------------------------------------
(* The audit log after createBundle. *)

FinalStates == {"ALLOW", "HOLD", "REJECT"}

Payloads ==
    [finalState : FinalStates, envelopeId : RequestIds]
    \cup [releaseAuthorizationId : RequestIds, actionClass : ActionLabels]
    \cup [finalState : FinalStates, reason : ReasonCodes \cup {"DECISION_ALLOWED"}]
    \cup [evidenceBundleId : RequestIds]

LogEntry ==
    [eventId     : Nat,
     requestId   : RequestIds,
     eventType   : EventTypes,
     payloadHash : Payloads]

EntryOf(log, k, r, event) ==
    [eventId     |-> Len(log) + k,
     requestId   |-> r.requestId,
     eventType   |-> event.eventType,
     payloadHash |-> event.payload]

\* new is the log that a record of res as the answer to r leaves behind: what it
\* held, and three entries.
IsRecord(log, new, r, res) ==
    /\ new \in Seq(LogEntry)
    /\ Len(new) = Len(log) + 3
    /\ \A i \in 1 .. Len(log) : new[i] = log[i]
    /\ new[Len(log) + 1] = EntryOf(log, 1, r, EvaluatedEvent(res))
    /\ new[Len(log) + 2] = EntryOf(log, 2, r, OutcomeEvent(res))
    /\ new[Len(log) + 3] = EntryOf(log, 3, r, BundleEvent(res))

LEMMA RecordOfAnswer ==
    ASSUME NEW g \in GateType, NEW r \in GovernedRequestType,
           NEW res, Answers(g, r, res), NEW log \in Seq(LogEntry)
    PROVE  IsRecord(log, log \o NewEntries(log, r.requestId, Events(res)), r, res)
  <1> DEFINE new == log \o NewEntries(log, r.requestId, Events(res))
  <1> DEFINE e1 == EntryOf(log, 1, r, EvaluatedEvent(res))
             e2 == EntryOf(log, 2, r, OutcomeEvent(res))
             e3 == EntryOf(log, 3, r, BundleEvent(res))
             added == NewEntries(log, r.requestId, Events(res))
  <1>1. Len(log) \in Nat
    BY LenProperties
  <1>2. added = <<e1, e2, e3>>
    <2> DEFINE x == EvaluatedEvent(res)
               y == OutcomeEvent(res)
               z == BundleEvent(res)
    <2>1. Events(res) = <<x, y, z>>
      BY EventsOfAnswer
    <2> HIDE DEF x, y, z
    <2>2. NewEntries(log, r.requestId, <<x, y, z>>)
              = <<EntryOf(log, 1, r, x), EntryOf(log, 2, r, y), EntryOf(log, 3, r, z)>>
      BY DEF NewEntries, EntryOf
    <2>3. QED
      BY <2>1, <2>2 DEF x, y, z
  <1>3. e1 \in LogEntry /\ e2 \in LogEntry /\ e3 \in LogEntry
    <2>1. /\ r.requestId \in RequestIds /\ r.proposedActionClass \in ActionLabels
          /\ Len(log) + 1 \in Nat /\ Len(log) + 2 \in Nat /\ Len(log) + 3 \in Nat
          /\ res.requestId \in RequestIds
          /\ res.finalState \in FinalStates
          /\ res.reason \in ReasonCodes \cup {"DECISION_ALLOWED"}
          /\ res.finalState = "ALLOW" => res.releaseAuthorization \in ActionLabels
      BY <1>1 DEF GovernedRequestType, Answers, FinalStates
    <2>2. /\ EvaluatedEvent(res).payload \in Payloads
          /\ EvaluatedEvent(res).eventType \in EventTypes
          /\ OutcomeEvent(res).payload \in Payloads
          /\ OutcomeEvent(res).eventType \in EventTypes
          /\ BundleEvent(res).payload \in Payloads
          /\ BundleEvent(res).eventType \in EventTypes
      BY <2>1 DEF Payloads, OutcomeEvent, EvaluatedEvent, ReleaseEvent, BlockedEvent,
                  BundleEvent, Event, EventTypes
    <2>3. QED
      BY <2>1, <2>2 DEF LogEntry, EntryOf
  <1>4. new = log \o added
    OBVIOUS
  <1> HIDE DEF e1, e2, e3, added, new
  <1>5. /\ <<e1, e2, e3>> \in Seq(LogEntry) /\ Len(<<e1, e2, e3>>) = 3
        /\ <<e1, e2, e3>>[1] = e1 /\ <<e1, e2, e3>>[2] = e2 /\ <<e1, e2, e3>>[3] = e3
    BY <1>3
  <1>6. added \in Seq(LogEntry) /\ Len(added) = 3
        /\ added[1] = e1 /\ added[2] = e2 /\ added[3] = e3
    BY <1>2, <1>5
  <1>7. /\ new \in Seq(LogEntry) /\ Len(new) = Len(log) + 3
        /\ \A i \in 1 .. (Len(log) + 3) :
              new[i] = IF i <= Len(log) THEN log[i] ELSE added[i - Len(log)]
    <2>1. /\ log \o added \in Seq(LogEntry)
          /\ Len(log \o added) = Len(log) + Len(added)
          /\ \A i \in 1 .. Len(log) + Len(added) :
                (log \o added)[i] = IF i <= Len(log) THEN log[i] ELSE added[i - Len(log)]
      BY <1>6, ConcatProperties, Zenon
    <2>2. QED
      BY <1>4, <1>6, <2>1, Zenon
  <1>8. /\ \A i \in 1 .. Len(log) : new[i] = log[i]
        /\ new[Len(log) + 1] = e1 /\ new[Len(log) + 2] = e2 /\ new[Len(log) + 3] = e3
    <2>1. \A i \in 1 .. Len(log) : i \in 1 .. (Len(log) + 3) /\ i <= Len(log)
      BY <1>1
    <2>2. \A k \in {1, 2, 3} : /\ Len(log) + k \in 1 .. (Len(log) + 3)
                               /\ ~ (Len(log) + k <= Len(log))
                               /\ Len(log) + k - Len(log) = k
      BY <1>1
    <2>3. \A k \in {1, 2, 3} : new[Len(log) + k] = added[k]
      BY <1>7, <2>2
    <2>4. QED
      BY <1>6, <1>7, <2>1, <2>3
  <1>9. QED
    BY <1>7, <1>8 DEF IsRecord, new, e1, e2, e3
================================================================================
