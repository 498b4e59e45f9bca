CONSTANTS
    Null = Null
    Absent = Absent
    Missing = Missing
    Damaged = Damaged
    RequestIds <- MCRequestIds
    AuthorityLabels <- WizardAuthorities
    WorkflowLabels <- WizardWorkflows
    ActionLabels <- MCActionLabels
    WorkflowNames <- TypedWorkflowNames
    ActionNames <- TypedActionNames
    RoleNames <- TypedRoleNames
    SnakeCase <- TypedSnakeCase
    UnnamedWorkflow = "unnamed_workflow"
    Probes <- ProbeRequests
    MaxActions = 2
    MaxApprovers = 2
    MaxUpdates = 9
    MaxDownloads = 2
SPECIFICATION Spec
INVARIANTS TypeOK NavigationIsValidated DownloadedIsCurrent PackagesRequireApproval
CHECK_DEADLOCK FALSE
