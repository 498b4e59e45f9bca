--------------------------- MODULE MCEvidencePipeline ---------------------------
(***************************************************************************)
(* Instances of EvidencePipeline for TLC.  One request is allowed without  *)
(* a policy pack and held with one; the other, which carries the approval  *)
(* of the first, is allowed without a policy pack and rejected with one.   *)
(* Either may be recorded with the decision on the other.                  *)
(***************************************************************************)
EXTENDS AuditExport, RequestFixtures

RecordedRequests ==
    {UnapprovedEscalation,
     [UnapprovedEscalation EXCEPT !.requestId = "r2",
                                  !.approvalArtifact = ManagerApproval]}

RecordingGates == {NoPolicy, RolesAndChains}

\* Bound: beside the record that is being written, the log holds this many that
\* broke off.
MaxBrokenOff == 1

BrokenOff ==
    countOf(log, "REQUEST_EVALUATED") - countOf(log, "EVIDENCE_BUNDLE_CREATED")

MCNext == Next /\ BrokenOff' <= MaxBrokenOff + (IF Idle' THEN 0 ELSE 1)

MCSpec == Init /\ [][MCNext]_vars
================================================================================
