CONSTANTS
    Null = Null
    Absent = Absent
    RequestIds <- MCRequestIds
    AuthorityLabels <- MCAuthorityLabels
    WorkflowLabels <- MCWorkflowLabels
    ActionLabels <- MCActionLabels
    Gates <- TwoRulesGate
    Requests <- Unapproved
    MaxEvaluations = 1
SPECIFICATION Spec
INVARIANT AnyRuleRequiresApproval
CHECK_DEADLOCK FALSE
