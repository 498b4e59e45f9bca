-------------------------------- MODULE MCWizard -------------------------------
(***************************************************************************)
(* An instance of Wizard for TLC: a workflow name of which no identifier   *)
(* is left, approvers that share a role name or whose name is blank, and   *)
(* requests that probe the gates of the packages.                          *)
(***************************************************************************)
EXTENDS Wizard, RequestFixtures

TypedWorkflowNames == {"", "Transaction Escalation", "***"}
TypedActionNames == {"", "Escalate"}
TypedRoleNames == {"", " ", "Head of Risk"}

TypedSnakeCase ==
    [text \in TypedWorkflowNames \cup TypedActionNames |->
        CASE text = "Transaction Escalation" -> "transaction_escalation"
          [] text = "Escalate"               -> "escalate"
          [] OTHER                           -> ""]

WizardWorkflows == MCWorkflowLabels \cup {"unnamed_workflow"}
WizardAuthorities == MCAuthorityLabels \cup {" "}

ProbeRequests ==
    {UnapprovedEscalation} \cup
    {[UnapprovedEscalation EXCEPT
        !.approvalArtifact = [ManagerApproval EXCEPT !.approverAuthorityClass = class]] :
        class \in {"manager", "analyst"}}

--------------------------------------------------------------------------------
(* A statement about the generated tests that they do not keep. *)

\* "All three scenarios (REJECT, HOLD, ALLOW) must pass before go-live"
\* (wizard.tsx:229).  Their requests have no policy pack reference, and the
\* first expects a reason that the gate does not have.
ScenarioTestsPass == \A f \in saved : generatedTestsPass(f, "r1")
================================================================================
