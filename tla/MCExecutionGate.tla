---------------------------- MODULE MCExecutionGate ----------------------------
(***************************************************************************)
(* Instances of ExecutionGate for TLC.  The requests are a few that are    *)
(* released or held as they stand, and every request that differs from one *)
(* of them in at most two members: single faults, and the pairs that tell  *)
(* the order of two stages apart.  A few of them are submitted one after   *)
(* another, to tell what a resubmission gets.                              *)
(***************************************************************************)
EXTENDS Diagnostics, RequestFixtures, FiniteSets

\* The values a variation may give each member.
Values ==
    [shape                |-> RequestShape,
     workflowClass        |-> MCWorkflowLabels,
     actorAuthorityClass  |-> {"analyst", "ai", "Head of Risk", "risk_officer", "intern"},
     proposedActionClass  |-> {"escalate", "hold", "freeze_card"},
     requestedActionClass |-> {"escalate", "hold", "freeze_card"},
     proposalSourceKind   |-> {"ai", "deterministic_rule"},
     authorityBearing     |-> BOOLEAN,
     sensitive            |-> BOOLEAN,
     prohibitedUse        |-> BOOLEAN,
     policyPackRef        |-> {"present", "null", "absent"},
     provenanceRef        |-> {"complete", "incomplete", "null", "absent"},
     approvalRequired     |-> BOOLEAN,
     approvalArtifact     |-> Artifacts \cup {Null, Absent},
     loggingReady         |-> BOOLEAN,
     controlStatus        |-> {"valid", "invalid", "stale", "absent"},
     trustState           |-> {"trusted", "untrusted", "absent"},
     createdAt            |-> {1, InvalidDate}]

Changes == UNION {{<<member, value>> : value \in Values[member]} : member \in DOMAIN Values}

MCRequests ==
    {[r EXCEPT ![c[1]] = c[2], ![d[1]] = d[2]] :
        r \in {ValidRequest, UnapprovedEscalation}, c, d \in Changes}

\* A held request, what comes back for it, and requests that make the gate throw.
FewRequests ==
    {[ValidRequest EXCEPT !.approvalArtifact = a] :
        a \in {Null, Absent, ManagerApproval,
               [ManagerApproval EXCEPT !.approverAuthorityClass = "analyst"]}}
    \cup
    {[UnapprovedEscalation EXCEPT !.approvalArtifact = a] :
        a \in {Null, ManagerApproval,
               [ManagerApproval EXCEPT !.approverAuthorityClass = "analyst"]}}
    \cup
    {[ValidRequest EXCEPT !.shape = s] : s \in {"broken", "unreadable"}}
    \cup
    {[ValidRequest EXCEPT !.trustState = "absent"],
     [ValidRequest EXCEPT !.approvalRequired = FALSE, !.actorAuthorityClass = "Head of Risk"]}

FewGates == {NoPolicy, RolesAndChains, RulesAndActions, TwoRules}

\* Bound: a second call is made only by the few requests on the few gates, and
\* only after one of them.
FewCallsSoFar ==
    \A call \in issued \cup rethrown : call.gate \in FewGates /\ call.request \in FewRequests

FirstCall == evaluations = 0 /\ \E g \in Gates, r \in Requests : Call(g, r)

SecondCall ==
    /\ evaluations = 1 /\ FewCallsSoFar
    /\ \E g \in FewGates, r \in FewRequests : Call(g, r)

MCNext == FirstCall \/ SecondCall \/ Evaluate

MCSpec == Init /\ [][MCNext]_vars /\ WF_vars(Evaluate)
================================================================================
