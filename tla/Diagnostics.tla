------------------------------ MODULE Diagnostics ------------------------------
(***************************************************************************)
(* What the support services make of a decision: the diagnostic report and *)
(* the operator's action.  Both are functions of the result; the report    *)
(* also reads the request, as the caller sent it.  A text stands as the    *)
(* reason it speaks of.  The evidence bundle of a report has events, for   *)
(* createBundle appends some before it builds the bundle.                  *)
(***************************************************************************)
EXTENDS ExecutionGate

--------------------------------------------------------------------------------
(* The diagnostic report *)

deriveSeverity(result, replayMatched) ==
    CASE ~ replayMatched -> "CRITICAL"
      [] replayMatched /\ result.finalState = "ALLOW" -> "INFO"
      [] replayMatched /\ result.reason \in
            {"PROHIBITED_USE", "TRUST_STATE_INVALID", "CONTROL_STALE_OR_INVALID"} ->
            "CRITICAL"
      [] OTHER -> "WARNING"

\* The invariants that the members of the request violate, reached or not;
\* those without a condition of their own are told by the reason.
ViolatedBy(r, reason) ==
    {code \in InvariantCodes :
        \/ code = "INV-01" /\ r.policyPackRef = "null"
        \/ code = "INV-02" /\ r.provenanceRef \in {"null", "incomplete"}
        \/ code = "INV-03" /\ r.approvalRequired /\ r.approvalArtifact = Null
        \/ code = "INV-04" /\ ~ r.loggingReady
        \/ code = "INV-05" /\ reason = "AI_CANNOT_AUTHORIZE"
        \/ code = "INV-08" /\ r.sensitive /\ r.controlStatus \in {"invalid", "stale"}
        \/ code = "INV-09" /\ r.trustState = "untrusted"
        \/ code = "INV-10" /\ r.prohibitedUse
        \/ code = "INV-11" /\ reason \in {"MALFORMED_REQUEST", "UNKNOWN_ACTION_CLASS"}
        \/ code = "INV-12" /\ reason = "INVALID_PROPOSAL"}

\* Mutant: invariants that the gate did not come to are judged as well.
FailedChecks_NotGated(r, result) == ViolatedBy(r, result.reason)

\* The entries of buildInvariantChecks with status FAIL; an invariant that was
\* not checked is NOT_APPLICABLE.
FailedChecks(r, result) == ViolatedBy(r, result.reason) \cap result.checkedInvariants

\* The sections of the decision path with status FAIL.
FailedSections(r, result) ==
    {section \in {"input", "policyAndProvenance", "proposalBoundary", "approval",
                  "controlAndTrust"} :
        \/ /\ section = "input"
           /\ result.reason \in {"MALFORMED_REQUEST", "UNKNOWN_ACTION_CLASS"}
        \/ /\ section = "policyAndProvenance"
           /\ result.reason \in {"NO_POLICY_PACK", "NO_PROVENANCE"}
        \/ /\ section = "proposalBoundary"
           /\ result.reason \in {"AI_CANNOT_AUTHORIZE", "INVALID_PROPOSAL"}
        \/ /\ section = "approval" /\ r.approvalRequired
           /\ result.reason \in
                 {"REQUIRED_APPROVAL_MISSING", "INVALID_APPROVAL_AUTHORITY",
                  "PRIVILEGED_AUTH_NOT_SATISFIED", "APPROVAL_SIGNATURE_MISSING"}
        \/ /\ section = "controlAndTrust"
           /\ result.reason \in
                 {"CONTROL_STALE_OR_INVALID", "TRUST_STATE_INVALID", "PROHIBITED_USE",
                  "LOGGING_NOT_READY"}}

buildRecommendedAction(result, replayMatched) ==
    CASE ~ replayMatched -> "replay mismatch"
      [] replayMatched /\ result.finalState = "ALLOW" -> "none"
      [] replayMatched /\ result.reason \in
            {"REQUIRED_APPROVAL_MISSING", "NO_PROVENANCE", "NO_POLICY_PACK",
             "PROHIBITED_USE", "TRUST_STATE_INVALID", "CONTROL_STALE_OR_INVALID"} ->
            result.reason
      [] OTHER -> "support"

\* The explanations read the provenance, the trust state and the controls of a
\* sensitive request, checked or not: a request without them has no report.
createReport(r, result, replayMatched) ==
    IF \/ r.provenanceRef = "absent"
       \/ r.trustState = "absent"
       \/ r.sensitive /\ r.controlStatus = "absent"
    THEN Threw
    ELSE [severity              |-> deriveSeverity(result, replayMatched),
          primaryReason         |-> result.reason,
          failedChecks          |-> FailedChecks(r, result),
          failedSections        |-> FailedSections(r, result),
          recommendedNextAction |-> buildRecommendedAction(result, replayMatched)]

--------------------------------------------------------------------------------
(* The operator's action *)

\* What the operator is told to act on.
createOperatorActionReport(result) ==
    LET told ==
            CASE result.finalState = "ALLOW" -> "none"
              [] result.reason \in
                    {"INVALID_APPROVAL_AUTHORITY", "PRIVILEGED_AUTH_NOT_SATISFIED",
                     "APPROVAL_SIGNATURE_MISSING"} -> "approval artifact"
              [] result.reason \in
                    {"MALFORMED_REQUEST", "INVALID_PROPOSAL", "UNKNOWN_ACTION_CLASS"} ->
                    "request structure"
              [] OTHER -> result.reason
    IN  [recommendedAction |-> told,
         severity |->
            CASE told = "none" -> "INFO"
              [] told \in {"REQUIRED_APPROVAL_MISSING", "NO_POLICY_PACK",
                           "NO_PROVENANCE", "request structure"} -> "WARNING"
              [] OTHER -> "CRITICAL"]

--------------------------------------------------------------------------------
(* Property *)

\* A report blames what stopped the request and nothing else, although it looks
\* at members the gate never came to: only the invariant of the reason can be
\* FAIL; an allowed request has no FAIL and needs no action; a blocked one has
\* just one failed section, or none if the approval was demanded by the policy
\* alone (diagnostic-report-service.ts:145, 277); and where both services know
\* what to do they say the same.
ReportsBlameTheCause ==
    \A i \in issued :
        LET report   == createReport(i.request, i.result, TRUE)
            operator == createOperatorActionReport(i.result)
            cause    == i.result.reason
        IN  report # Threw =>
              /\ report.failedChecks \subseteq
                    {InvariantOf[reason] : reason \in DOMAIN InvariantOf \cap {cause}}
                    \cup (IF cause = "MALFORMED_REQUEST" THEN {"INV-11"} ELSE {})
              /\ IF i.result.finalState = "ALLOW"
                 THEN /\ report.failedSections = {}
                      /\ report.severity = "INFO" /\ operator.severity = "INFO"
                 ELSE \/ \E section \in report.failedSections :
                            report.failedSections = {section}
                      \/ /\ report.failedSections = {}
                         /\ ~ i.request.approvalRequired
                         /\ Decision!ApprovalNeeded(i.gate, i.request)
              /\ report.recommendedNextAction \in
                    {operator.recommendedAction, "support"}
================================================================================
