---------------------------- MODULE MCGatedServices ----------------------------
(***************************************************************************)
(* An instance of GatedServices for TLC: a held request, its approved      *)
(* resubmission under the same id, a released, a rejected and an           *)
(* unreadable one; the scenarios of the agent; and scores on both sides of *)
(* the limits of the bands, half a point apart.                            *)
(***************************************************************************)
EXTENDS GatedServices, RequestFixtures

HeldEscalation == [UnapprovedEscalation EXCEPT !.approvalRequired = TRUE]

ServiceGates == {NoPolicy, RolesAndChains}

PostedBodies ==
    {HeldEscalation,
     [HeldEscalation EXCEPT !.approvalArtifact = ManagerApproval],
     [UnapprovedEscalation EXCEPT !.requestId = "r2"],
     [UnapprovedEscalation EXCEPT !.requestId = "r2", !.actorAuthorityClass = "ai"],
     [UnapprovedEscalation EXCEPT !.shape = "unreadable"]}

\* Rejected, held and approved.
ScenarioCalls ==
    {[tool |-> "escalate_case",
      request |-> [ValidRequest EXCEPT !.actorAuthorityClass = "ai",
                       !.approvalRequired = FALSE, !.approvalArtifact = Null]]}
    \cup
    {[tool |-> "apply_hold",
      request |-> [ValidRequest EXCEPT !.proposedActionClass = "account_hold",
                       !.requestedActionClass = "account_hold",
                       !.proposalSourceKind = "deterministic_rule",
                       !.approvalArtifact = approval]] :
        approval \in {Null, ManagerApproval}}

Scores == {495, 500, 795, 800}
================================================================================
