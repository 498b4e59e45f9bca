CONSTANTS
    Null = Null
    Absent = Absent
    RequestIds <- MCRequestIds
    AuthorityLabels <- MCAuthorityLabels
    WorkflowLabels <- MCWorkflowLabels
    ActionLabels <- MCActionLabels
    Gates <- ServiceGates
    Bodies <- PostedBodies
    AgentCalls <- ScenarioCalls
    RiskScores <- Scores
    MaxPosts = 3
    MaxRouted = 3
    MaxRuns = 3
    MaxTriaged = 2
SPECIFICATION ServicesSpec
INVARIANTS ServicesTypeOK ReleasedWorkIsDue TriageBandsAreKept
PROPERTY LookupIsStable
CHECK_DEADLOCK FALSE
