CONSTANTS
    Null = Null
    Absent = Absent
    RequestIds <- MCRequestIds
    AuthorityLabels <- MCAuthorityLabels
    WorkflowLabels <- MCWorkflowLabels
    ActionLabels <- MCActionLabels
    Gates <- RecordingGates
    Requests <- RecordedRequests
    MaxEvaluations = 2
    MaxAppends = 7
    MaxRestarts = 1
SPECIFICATION MCSpec
INVARIANTS TypeOK RecordsAreOrdered RecordedReleasesWereDue BundlesTellTheirDecision EvidenceOutlivesProcess ManifestsIdentifyTheirBundle ReplayReproducesDecision SummaryCountsDecisions
CHECK_DEADLOCK FALSE
