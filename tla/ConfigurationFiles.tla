--------------------------- MODULE ConfigurationFiles ---------------------------
(***************************************************************************)
(* The two files a gate is set up from, cerbaseal.config.json and          *)
(* cerbaseal.policy.json, and what their loaders make of them.  A damaged  *)
(* file is one that cannot be read, is no JSON, or is no object.           *)
(***************************************************************************)
EXTENDS GateChecks

CONSTANTS Missing, Damaged

\* The file says nothing else that is read: the core classes are the code's.
\* A member that is not there, or is no array, is Absent.
ConfigFileType ==
    [authorityClasses : (SUBSET AuthorityLabels) \cup {Absent},
     actionClasses    : (SUBSET ActionLabels) \cup {Absent}]

PolicySections == {"actorMappings", "approvalChains", "actionPolicies", "workflowRules"}

PolicyType ==
    [actorMappings  : Dictionary(AuthorityLabels, AuthorityLabels),
     approvalChains : Dictionary(WorkflowLabels, SUBSET AuthorityLabels),
     actionPolicies : [WorkflowLabels -> Dictionary(ActionLabels, PolicyActionBehavior)],
     workflowRules  : Seq(WorkflowRule)]

\* illTyped names the sections that have an entry of another type than theirs;
\* the policy is what the sections say apart from it.
PolicyFileType == [policy : PolicyType, illTyped : SUBSET PolicySections]

ConfigFiles == ConfigFileType \cup {Missing, Damaged}
PolicyFiles == PolicyFileType \cup {Missing, Damaged}

ASSUME FilesAssumption ==
    /\ Missing # Damaged
    /\ {Missing, Damaged} \cap (ConfigFileType \cup PolicyFileType) = {}

EmptyConfig == [authorityClasses |-> Absent, actionClasses |-> Absent]

EmptyPolicy ==
    [actorMappings  |-> [class \in AuthorityLabels |-> Absent],
     approvalChains |-> [workflow \in WorkflowLabels |-> Absent],
     actionPolicies |->
         [workflow \in WorkflowLabels |-> [action \in ActionLabels |-> Absent]],
     workflowRules  |-> <<>>]

Well(policy) == [policy |-> policy, illTyped |-> {}]

--------------------------------------------------------------------------------

\* Whatever goes wrong, the loader goes on with an empty configuration.
loadCerbaSealConfig(file) == IF file \in {Missing, Damaged} THEN EmptyConfig ELSE file

\* Threw unless the file is missing or good.
loadCerbaSealPolicy(file) ==
    IF file = Missing THEN EmptyPolicy
    ELSE IF file = Damaged \/ file.illTyped # {} THEN Threw
    ELSE file.policy

\* new ExecutionGateService(config, policy).
GateFrom(config, policy) ==
    LET listed(classes) == IF classes = Absent THEN {} ELSE classes
    IN  [extendedClasses |-> listed(config.authorityClasses),
         extendedActions |-> listed(config.actionClasses),
         actorMappings   |-> policy.actorMappings,
         workflowRules   |-> policy.workflowRules,
         approvalChains  |-> policy.approvalChains,
         actionPolicies  |-> policy.actionPolicies]

\* Threw if the policy pack does not load.
LoadedGate(configFile, policyFile) ==
    LET policy == loadCerbaSealPolicy(policyFile)
    IN  IF policy = Threw THEN Threw
        ELSE GateFrom(loadCerbaSealConfig(configFile), policy)
================================================================================
