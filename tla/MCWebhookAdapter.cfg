CONSTANTS
    Null = Null
    Absent = Absent
    NotJson = NotJson
    RequestIds <- MCRequestIds
    AuthorityLabels <- MCAuthorityLabels
    WorkflowLabels <- MCWorkflowLabels
    ActionLabels <- MCActionLabels
    Gate <- AdapterGate
    Requests <- PostedRequests
    MaxEvents = 3
    MaxRestarts = 1
SPECIFICATION Spec
INVARIANTS TypeOK EvidenceMatchesCallbacks
PROPERTIES ImplementsDecisionRelay EventsAreSettled
CHECK_DEADLOCK FALSE
