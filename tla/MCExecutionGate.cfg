CONSTANTS
    Null = Null
    Absent = Absent
    RequestIds <- MCRequestIds
    AuthorityLabels <- MCAuthorityLabels
    WorkflowLabels <- MCWorkflowLabels
    ActionLabels <- MCActionLabels
    Gates <- MCGates
    Requests <- MCRequests
    MaxEvaluations = 2
SPECIFICATION MCSpec
INVARIANTS TypeOK GateInv VerdictsSound TraceMatchesVerdict PolicyOnlyRestricts EvaluateIsFunction ApprovedResubmissionAllowed ReportsBlameTheCause
PROPERTIES ImplementsGateDecision CallsAreAnswered
CHECK_DEADLOCK FALSE
