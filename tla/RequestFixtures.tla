---------------------------- MODULE RequestFixtures ----------------------------
(***************************************************************************)
(* Requests, approvals and gates for the instances TLC checks.             *)
(***************************************************************************)
EXTENDS GovernedRequest

MCRequestIds == {"r1", "r2"}
MCAuthorityLabels == CoreAuthorityClasses \cup {"risk_officer", "Head of Risk", "intern"}
MCWorkflowLabels == {"fraud_triage", "transaction_escalation"}
MCActionLabels == CoreActionClasses \cup {"freeze_card"}

ManagerApproval ==
    [forRequestId |-> "r1", approverAuthorityClass |-> "manager",
     privilegedAuthSatisfied |-> TRUE, immutableSignature |-> "signed",
     approvedAt |-> 2]

\* buildValidGovernedRequest of the request fixtures.
ValidRequest ==
    [requestId |-> "r1", shape |-> "ok", workflowClass |-> "fraud_triage",
     actorAuthorityClass |-> "analyst", proposedActionClass |-> "escalate",
     requestedActionClass |-> "escalate", proposalSourceKind |-> "ai",
     authorityBearing |-> FALSE, sensitive |-> TRUE, prohibitedUse |-> FALSE,
     policyPackRef |-> "present", provenanceRef |-> "complete",
     approvalRequired |-> TRUE, approvalArtifact |-> ManagerApproval,
     loggingReady |-> TRUE, controlStatus |-> "valid", trustState |-> "trusted",
     createdAt |-> 1]

UnapprovedEscalation ==
    [ValidRequest EXCEPT !.workflowClass = "transaction_escalation",
                         !.approvalRequired = FALSE, !.approvalArtifact = Null]

Artifacts ==
    {ManagerApproval,
     [ManagerApproval EXCEPT !.forRequestId = "r2"],
     [ManagerApproval EXCEPT !.approverAuthorityClass = "analyst"],
     [ManagerApproval EXCEPT !.approverAuthorityClass = "risk_officer"],
     [ManagerApproval EXCEPT !.privilegedAuthSatisfied = FALSE],
     [ManagerApproval EXCEPT !.immutableSignature = "blank"],
     [ManagerApproval EXCEPT !.immutableSignature = "absent"],
     [ManagerApproval EXCEPT !.approvedAt = 0],
     [ManagerApproval EXCEPT !.approvedAt = InvalidDate]}

NoPolicy ==
    [extendedClasses |-> {}, extendedActions |-> {},
     actorMappings   |-> [c \in MCAuthorityLabels |-> Absent],
     workflowRules   |-> <<>>,
     approvalChains  |-> [w \in MCWorkflowLabels |-> Absent],
     actionPolicies  |-> [w \in MCWorkflowLabels |-> [a \in MCActionLabels |-> Absent]]]

\* Roles are mapped and the escalation workflow needs a manager or a compliance
\* officer, as in cerbaseal.policy.json; the chain of fraud_triage is empty.
RolesAndChains ==
    [NoPolicy EXCEPT
        !.extendedClasses = {"risk_officer"},
        !.actorMappings["Head of Risk"] = "manager",
        !.actorMappings["risk_officer"] = "ai",
        !.approvalChains["transaction_escalation"] = {"manager", "compliance_officer"},
        !.approvalChains["fraud_triage"] = {}]

\* One rule for each workflow and one behaviour of every kind.
RulesAndActions ==
    [NoPolicy EXCEPT
        !.workflowRules =
            <<[workflowClass |-> "fraud_triage", requiresApproval |-> FALSE],
              [workflowClass |-> "transaction_escalation", requiresApproval |-> TRUE]>>,
        !.actionPolicies["transaction_escalation"]["hold"] = "blocked",
        !.actionPolicies["fraud_triage"]["escalate"] = "auto_allow"]

\* Two rules for a workflow, of which only the second asks for an approval.
TwoRules ==
    [NoPolicy EXCEPT
        !.workflowRules =
            <<[workflowClass |-> "transaction_escalation", requiresApproval |-> FALSE],
              [workflowClass |-> "transaction_escalation", requiresApproval |-> TRUE]>>]

ActionsOnly ==
    [NoPolicy EXCEPT
        !.actionPolicies["transaction_escalation"]["escalate"] = "requires_approval",
        !.actionPolicies["fraud_triage"]["escalate"] = "blocked"]

MCGates == {NoPolicy, RolesAndChains, RulesAndActions, TwoRules, ActionsOnly}
================================================================================
