---------------------------- MODULE MCWebhookAdapter ----------------------------
(***************************************************************************)
(* An instance of WebhookAdapter for TLC: a request that is held and comes *)
(* back approved, each of which may be posted again, one that cannot be    *)
(* read, and a body that is no JSON.                                       *)
(***************************************************************************)
EXTENDS WebhookAdapter, RequestFixtures

AdapterGate == [NoPolicy EXCEPT !.extendedClasses = {"risk_officer"}]

PostedRequests ==
    {ValidRequest,
     [ValidRequest EXCEPT !.approvalArtifact = Null],
     [UnapprovedEscalation EXCEPT !.requestId = "r2", !.shape = "unreadable"]}
================================================================================
