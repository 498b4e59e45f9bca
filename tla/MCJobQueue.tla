------------------------------- MODULE MCJobQueue ------------------------------
(***************************************************************************)
(* Instances of JobQueue for TLC: requests that are held, allowed and      *)
(* rejected under one id, and a held one under another; reviewers of every *)
(* standing; and a clock before and after the requests were created.       *)
(***************************************************************************)
EXTENDS JobQueue, RequestFixtures

QueuedRequests ==
    {UnapprovedEscalation,
     [UnapprovedEscalation EXCEPT !.approvalRequired = TRUE],
     [UnapprovedEscalation EXCEPT !.trustState = "untrusted"],
     [UnapprovedEscalation EXCEPT !.requestId = "r2", !.workflowClass = "fraud_triage"]}

QueueGates == {NoPolicy, RolesAndChains}

QueueReviewers ==
    {[approverAuthorityClass |-> class, privilegedAuthSatisfied |-> TRUE] :
        class \in {"reviewer", "manager"}}
    \cup {[approverAuthorityClass |-> "manager", privilegedAuthSatisfied |-> FALSE]}

QueueClock == {0, 1}
================================================================================
