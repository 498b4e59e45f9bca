CONSTANTS
    Null = Null
    Absent = Absent
    RequestIds <- MCRequestIds
    AuthorityLabels <- MCAuthorityLabels
    WorkflowLabels <- MCWorkflowLabels
    ActionLabels <- MCActionLabels
    Gates <- QueueGates
    Requests <- QueuedRequests
    Reviewers <- QueueReviewers
    ClockReadings <- QueueClock
    MaxJobs = 3
SPECIFICATION Spec
INVARIANTS TypeOK QueueAgreesWithLog
PROPERTY ImplementsHumanReview
CHECK_DEADLOCK FALSE
