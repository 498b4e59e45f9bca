CONSTANTS
    Null = Null
    Absent = Absent
    Missing = Missing
    Damaged = Damaged
    RequestIds <- DeploymentIds
    AuthorityLabels <- MCAuthorityLabels
    WorkflowLabels <- MCWorkflowLabels
    ActionLabels <- MCActionLabels
    ConfigEdits <- EditedConfigs
    PolicyEdits <- EditedPolicies
    SetupAnswers <- WizardAnswers
    Requests <- PostedRequests
    VerifyId = "verify"
    MaxChanges = 2
    MaxCalls = 2
    MaxStarts = 2
SPECIFICATION Spec
INVARIANTS TypeOK  VerifiedGatesRefuseAi AnswersAreAudited
CHECK_DEADLOCK FALSE
