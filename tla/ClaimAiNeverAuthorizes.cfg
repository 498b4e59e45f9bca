CONSTANTS
    Null = Null
    Absent = Absent
    RequestIds <- MCRequestIds
    AuthorityLabels <- MCAuthorityLabels
    WorkflowLabels <- MCWorkflowLabels
    ActionLabels <- MCActionLabels
    Gates <- AiMappedGate
    Requests <- AiRequest
    MaxEvaluations = 1
SPECIFICATION Spec
INVARIANT AiNeverAuthorizes
CHECK_DEADLOCK FALSE
