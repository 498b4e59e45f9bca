------------------------------ MODULE MCGateClaims ------------------------------
(***************************************************************************)
(* What the repository's documents and comments say of the gate where the  *)
(* code does something else, each with an instance that shows it.          *)
(***************************************************************************)
EXTENDS MCExecutionGate

Finals(i) == i.result.finalState

\* "AI non-authoritativeness [...] unconditional regardless of policy": an AI
\* actor's AI proposal is never released (cerbaseal-policy.ts:10-11).  The code
\* compares the class after the policy pack's actor mapping.
AiNeverAuthorizes ==
    \A i \in issued :
        Finals(i) = "ALLOW" =>
            ~ (i.request.proposalSourceKind = "ai" /\ i.request.actorAuthorityClass = "ai")

\* "No governed execution may proceed without a resolved policy pack reference"
\* (invariant-registry.yaml:5, INV-01): what is released refers to a policy pack.
\* The code compares policyPackRef with null, and a member left out of a JSON body
\* is undefined (execution-gate-service.ts:144).
ReleasesReferToPolicyPack ==
    \A i \in issued :
        Finals(i) = "ALLOW" => i.request.policyPackRef = "present"

\* "the result is true if ANY of the following hold", first "A workflowRules
\* entry exists with requiresApproval: true" (execution-gate-service.ts:476-477):
\* what any rule of the policy pack wants approved is not released without an
\* approval.  The code looks at the first rule for the workflow.
AnyRuleRequiresApproval ==
    \A i \in issued :
        /\ Finals(i) = "ALLOW"
        /\ \E n \in DOMAIN i.gate.workflowRules :
              /\ i.gate.workflowRules[n].workflowClass = i.request.workflowClass
              /\ i.gate.workflowRules[n].requiresApproval
        => i.request.approvalArtifact \notin {Null, Absent}

\* Each claim fails on one gate and one request.
AiMappedGate == {[NoPolicy EXCEPT !.actorMappings["ai"] = "analyst"]}
AiRequest == {[ValidRequest EXCEPT !.actorAuthorityClass = "ai"]}

PlainGate == {NoPolicy}
NoPolicyPackMember == {[ValidRequest EXCEPT !.policyPackRef = "absent"]}

TwoRulesGate == {TwoRules}
Unapproved == {UnapprovedEscalation}
================================================================================
