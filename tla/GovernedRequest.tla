---------------------------- MODULE GovernedRequest ----------------------------
(***************************************************************************)
(* The data of CerbaSeal: the governed request a caller submits, the       *)
(* approval artifact it may carry, and the configuration and policy pack a *)
(* gate is constructed with.  Texts and identifiers that the gate only     *)
(* tests for presence are reduced to the outcome of that test.             *)
(*                                                                         *)
(* A field declared "X | null" in the TypeScript types has a third value   *)
(* at run time, "absent": requests reach the gate from JSON bodies, where  *)
(* a missing member reads as undefined, which is not === null.             *)
(***************************************************************************)
EXTENDS Integers, Sequences

CONSTANTS
    RequestIds,        \* request identifiers
    AuthorityLabels,   \* every string a caller or a policy uses as a class
    WorkflowLabels,    \* every string used as a workflow class
    ActionLabels,      \* every string used as an action class
    Null, Absent       \* null and undefined

CoreAuthorityClasses ==
    {"system", "ai", "analyst", "reviewer", "manager", "compliance_officer"}

HumanAuthorityClasses == {"analyst", "reviewer", "manager", "compliance_officer"}

CoreActionClasses == {"allow", "hold", "reject", "escalate", "account_hold"}

\* An instant, as milliseconds; what Date makes of a text that is no date is
\* NaN, which compares neither smaller nor larger than anything.
InvalidDate == -1
Instant == Nat \cup {InvalidDate}

ApprovalArtifact ==
    [forRequestId            : RequestIds,
     approverAuthorityClass  : AuthorityLabels,
     privilegedAuthSatisfied : BOOLEAN,
     immutableSignature      : {"signed", "blank", "absent"},
     approvedAt              : Instant]

\* "shape" sums up the members the shape check reads: "ok"; "blank" when one
\* of them is an empty text or the proposal gives no reason; "broken" when one
\* is missing or not a text, so that reading it throws; "unreadable" when the
\* request or its proposal is missing, so that no envelope can be built either,
\* whatever else is wrong with it.
RequestShape == {"ok", "blank", "broken", "unreadable"}

GovernedRequestType ==
    [requestId            : RequestIds,
     shape                : RequestShape,
     workflowClass        : WorkflowLabels,
     actorAuthorityClass  : AuthorityLabels,
     proposedActionClass  : ActionLabels,
     requestedActionClass : ActionLabels,
     proposalSourceKind   : {"ai", "deterministic_rule"},
     authorityBearing     : BOOLEAN,
     sensitive            : BOOLEAN,
     prohibitedUse        : BOOLEAN,
     policyPackRef        : {"present", "null", "absent"},
     provenanceRef        : {"complete", "incomplete", "null", "absent"},
     approvalRequired     : BOOLEAN,
     approvalArtifact     : ApprovalArtifact \cup {Null, Absent},
     loggingReady         : BOOLEAN,
     controlStatus        : {"valid", "invalid", "stale", "absent"},
     trustState           : {"trusted", "untrusted", "absent"},
     createdAt            : Instant]

\* A JavaScript object used as a dictionary: a key it does not have reads as
\* undefined.
Dictionary(K, V) == [K -> V \cup {Absent}]
Keys(d) == {k \in DOMAIN d : d[k] # Absent}

WorkflowRule == [workflowClass : WorkflowLabels, requiresApproval : BOOLEAN]

PolicyActionBehavior == {"requires_approval", "auto_allow", "blocked"}

\* What one ExecutionGateService is constructed with.  A member the policy pack
\* leaves out, and a policy pack that is not there, is the empty dictionary.
GateType ==
    [extendedClasses : SUBSET AuthorityLabels,
     extendedActions : SUBSET ActionLabels,
     actorMappings   : Dictionary(AuthorityLabels, AuthorityLabels),
     workflowRules   : Seq(WorkflowRule),
     approvalChains  : Dictionary(WorkflowLabels, SUBSET AuthorityLabels),
     actionPolicies  : [WorkflowLabels -> Dictionary(ActionLabels, PolicyActionBehavior)]]

\* At most one rule for each workflow.
OneRulePerWorkflow(g) ==
    \A i, j \in DOMAIN g.workflowRules :
        g.workflowRules[i].workflowClass = g.workflowRules[j].workflowClass => i = j

\* The codes of the invariants the gate records in a decision trace; INV-06 (no
\* bypass of the gate) is not one of them.
InvariantCodes ==
    {"INV-01", "INV-02", "INV-03", "INV-04", "INV-05", "INV-07", "INV-08",
     "INV-09", "INV-10", "INV-11", "INV-12"}

\* The codes that say why a request is blocked.
ReasonCodes ==
    {"MALFORMED_REQUEST", "UNKNOWN_ACTION_CLASS", "INVALID_PROPOSAL",
     "NO_POLICY_PACK", "NO_PROVENANCE", "LOGGING_NOT_READY",
     "AI_CANNOT_AUTHORIZE", "PROHIBITED_USE", "CONTROL_STALE_OR_INVALID",
     "TRUST_STATE_INVALID", "REQUIRED_APPROVAL_MISSING",
     "INVALID_APPROVAL_AUTHORITY", "PRIVILEGED_AUTH_NOT_SATISFIED",
     "APPROVAL_SIGNATURE_MISSING"}

\* The labels the core knows are labels, and null and undefined are not values
\* of any other type.
ASSUME LabelsAssumption ==
    /\ CoreAuthorityClasses \subseteq AuthorityLabels
    /\ CoreActionClasses \subseteq ActionLabels
    /\ "fraud_triage" \in WorkflowLabels

ASSUME NullAssumption ==
    /\ Null # Absent
    /\ Absent \notin AuthorityLabels
    /\ \A C \in SUBSET AuthorityLabels : Absent # C
    /\ Absent \notin PolicyActionBehavior
    /\ Null \notin ActionLabels
    /\ Null \notin {"ALLOW", "HOLD", "REJECT"}
    /\ Null \notin ApprovalArtifact
    /\ Absent \notin ApprovalArtifact
    /\ Null \notin GovernedRequestType
    /\ Null \notin GateType
    /\ Null \notin [gate : GateType, request : GovernedRequestType]
================================================================================
