CONSTANTS
    Null = Null
    Absent = Absent
    RequestIds <- MCRequestIds
    AuthorityLabels <- MCAuthorityLabels
    WorkflowLabels <- MCWorkflowLabels
    ActionLabels <- MCActionLabels
    Gates <- PlainGate
    Requests <- NoPolicyPackMember
    MaxEvaluations = 1
SPECIFICATION Spec
INVARIANT ReleasesReferToPolicyPack
CHECK_DEADLOCK FALSE
