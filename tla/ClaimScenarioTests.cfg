CONSTANTS
    Null = Null
    Absent = Absent
    Missing = Missing
    Damaged = Damaged
    RequestIds <- MCRequestIds
    AuthorityLabels <- WizardAuthorities
    WorkflowLabels <- WizardWorkflows
    ActionLabels <- MCActionLabels
    WorkflowNames <- TypedWorkflowNames
    ActionNames <- TypedActionNames
    RoleNames <- TypedRoleNames
    SnakeCase <- TypedSnakeCase
    UnnamedWorkflow = "unnamed_workflow"
    Probes <- ProbeRequests
    MaxActions = 2
    MaxApprovers = 2
    MaxUpdates = 7
    MaxDownloads = 1
SPECIFICATION Spec
INVARIANT ScenarioTestsPass
CHECK_DEADLOCK FALSE
