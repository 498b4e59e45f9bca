------------------------------ MODULE MCDeployment -----------------------------
(***************************************************************************)
(* An instance of Deployment for TLC: policy packs that map the AI actor,  *)
(* and that require an approval but have an ill-typed section; setup with  *)
(* three approvers that share a role name, one of no core class.           *)
(***************************************************************************)
EXTENDS Deployment, RequestFixtures

DeploymentIds == {"r1", "verify"}

AsPolicy(gate) ==
    [actorMappings |-> gate.actorMappings, approvalChains |-> gate.approvalChains,
     actionPolicies |-> gate.actionPolicies, workflowRules |-> gate.workflowRules]

EditedPolicies ==
    {Missing,
     Well([AsPolicy(NoPolicy) EXCEPT !.actorMappings["ai"] = "analyst"]),
     [policy |-> AsPolicy(RolesAndChains), illTyped |-> {"approvalChains"}]}

EditedConfigs ==
    {Missing, [authorityClasses |-> {"risk_officer"}, actionClasses |-> Absent]}

WizardAnswers ==
    {[workflowClass |-> "transaction_escalation",
      approvers |-> [i \in 1 .. 3 |->
          [roleName |-> "Head of Risk",
           authorityClass |-> <<"system", "intern", "manager">>[i]]]]}

PostedRequests ==
    {UnapprovedEscalation,
     [UnapprovedEscalation EXCEPT !.actorAuthorityClass = "ai"],
     [UnapprovedEscalation EXCEPT !.actorAuthorityClass = "risk_officer",
                                  !.approvalArtifact = ManagerApproval],
     [UnapprovedEscalation EXCEPT !.shape = "unreadable"]}
================================================================================
