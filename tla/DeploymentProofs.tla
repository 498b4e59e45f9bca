---------------------------- MODULE DeploymentProofs ----------------------------
(***************************************************************************)
(* Proofs about Deployment, for all files, answers and requests and every  *)
(* order of edits, starts, calls and ends of the processes.                *)
(***************************************************************************)
EXTENDS Deployment, GateChecksProofs, FiniteSetTheorems, TLAPS

--------------------------------------------------------------------------------
(* The inductive invariant. *)

\* What was meant is never damage, and the files are it or damaged; while the
\* generation in force is another, it differs in the configuration by that of setup.
FilesInv ==
    /\ files \in [config : ConfigFiles, policy : PolicyFiles]
    /\ meant \in [config : ConfigFiles \ {Damaged}, policy : PolicyFiles \ {Damaged}]
    /\ inForce \in [config : ConfigFiles \ {Damaged}, policy : PolicyFiles \ {Damaged}]
    /\ files.config \in {meant.config, Damaged}
    /\ files.policy \in {inForce.policy, Damaged}
    /\ meant.config \in {inForce.config, SetupConfig}

SetupInv ==
    /\ setup \in [stage   : {"idle", "config", "between", "policy"},
                  answers : SetupAnswers \cup {Null}]
    /\ setup.stage # "idle" => setup.answers \in SetupAnswers

\* A gate that differs from that of the generation in force in the classes it lacks.
Narrower(gate, due) ==
    /\ gate \in GateType /\ due \in GateType
    /\ gate.extendedClasses \subseteq due.extendedClasses
    /\ gate.actorMappings = due.actorMappings
    /\ gate.workflowRules = due.workflowRules
    /\ gate.approvalChains = due.approvalChains
    /\ gate.actionPolicies = due.actionPolicies

GatesInv ==
    /\ server \in Server
    /\ server.state = "running" => Narrower(server.gate, server.inForce)
    /\ \A gate \in verified : gate \in GateType /\ Passes(gate)

CallsInv ==
    /\ calls \in Seq(Call)
    /\ \A i \in DOMAIN calls :
          /\ Narrower(calls[i].gate, calls[i].inForce)
          /\ calls[i].finalState = "ALLOW" => MayRelease(calls[i].gate, calls[i].request)

DecisionEntry == [requestId  : RequestIds,
                  finalState : {"ALLOW", "HOLD", "REJECT"}]

LogInv == log \in Seq(DecisionEntry) /\ AnswersAreAudited

BoundsInv == changes \in 0 .. MaxChanges /\ starts \in 0 .. MaxStarts

DeploymentInv ==
    FilesInv /\ SetupInv /\ GatesInv /\ CallsInv /\ LogInv /\ BoundsInv
--------------------------------------------------------------------------------
(* What the loaders make of the files. *)

LEMMA EmptyFiles ==
    /\ EmptyConfig \in ConfigFileType /\ SetupConfig \in ConfigFileType
    /\ EmptyPolicy \in PolicyType
  <1>1. EmptyConfig \in ConfigFileType /\ SetupConfig \in ConfigFileType
    BY DEF EmptyConfig, SetupConfig, ConfigFileType
  <1>2. PICK none : none = [action \in ActionLabels |-> Absent]
    OBVIOUS
  <1>3. none \in Dictionary(ActionLabels, PolicyActionBehavior)
    BY <1>2 DEF Dictionary
  <1>4. EmptyPolicy = [actorMappings  |-> [class \in AuthorityLabels |-> Absent],
                       approvalChains |-> [workflow \in WorkflowLabels |-> Absent],
                       actionPolicies |-> [workflow \in WorkflowLabels |-> none],
                       workflowRules  |-> <<>>]
    BY <1>2 DEF EmptyPolicy
  <1>5. /\ [class \in AuthorityLabels |-> Absent] \in Dictionary(AuthorityLabels, AuthorityLabels)
        /\ [workflow \in WorkflowLabels |-> Absent]
              \in Dictionary(WorkflowLabels, SUBSET AuthorityLabels)
    BY DEF Dictionary
  <1>6. EmptyPolicy \in PolicyType
    BY <1>3, <1>4, <1>5 DEF PolicyType
  <1>7. QED
    BY <1>1, <1>6

\* The classes a configuration lists.
Listed(classes) == IF classes = Absent THEN {} ELSE classes

LEMMA GateFromType ==
    ASSUME NEW config \in ConfigFileType, NEW policy \in PolicyType,
           NEW g, g = GateFrom(config, policy)
    PROVE  /\ g \in GateType
           /\ g.extendedClasses = Listed(config.authorityClasses)
           /\ g.extendedActions = Listed(config.actionClasses)
           /\ g.actorMappings = policy.actorMappings
           /\ g.workflowRules = policy.workflowRules
           /\ g.approvalChains = policy.approvalChains
           /\ g.actionPolicies = policy.actionPolicies
  <1>1. g = [extendedClasses |-> Listed(config.authorityClasses),
             extendedActions |-> Listed(config.actionClasses),
             actorMappings   |-> policy.actorMappings,
             workflowRules   |-> policy.workflowRules,
             approvalChains  |-> policy.approvalChains,
             actionPolicies  |-> policy.actionPolicies]
    BY DEF GateFrom, Listed
  <1>2. /\ Listed(config.authorityClasses) \in SUBSET AuthorityLabels
        /\ Listed(config.actionClasses) \in SUBSET ActionLabels
    BY DEF Listed, ConfigFileType
  <1>3. /\ policy.actorMappings \in Dictionary(AuthorityLabels, AuthorityLabels)
        /\ policy.workflowRules \in Seq(WorkflowRule)
        /\ policy.approvalChains \in Dictionary(WorkflowLabels, SUBSET AuthorityLabels)
        /\ policy.actionPolicies
              \in [WorkflowLabels -> Dictionary(ActionLabels, PolicyActionBehavior)]
    BY DEF PolicyType
  <1>4. g \in GateType
    BY <1>1, <1>2, <1>3 DEF GateType
  <1>5. QED
    BY <1>1, <1>4

\* What the setup wizard writes is a policy pack.
LEMMA SetupPolicyType ==
    ASSUME NEW answers \in SetupAnswers
    PROVE  SetupPolicy(answers) \in PolicyType
  <1> DEFINE w == answers.workflowClass
             approvers == answers.approvers
             LastWith(role) ==
                CHOOSE i \in DOMAIN approvers :
                    /\ approvers[i].roleName = role
                    /\ \A j \in DOMAIN approvers : approvers[j].roleName = role => j <= i
             mapping ==
                [class \in AuthorityLabels |->
                    IF \E i \in DOMAIN approvers : approvers[i].roleName = class
                    THEN ApproverClass(approvers[LastWith(class)].authorityClass)
                    ELSE Absent]
             chain == {ApproverClass(approvers[i].authorityClass) : i \in DOMAIN approvers}
             behaviours ==
                [action \in ActionLabels |->
                    CASE action \in {"escalate", "account_hold"} -> "requires_approval"
                      [] action \in {"allow", "hold", "reject"}  -> "auto_allow"
                      [] OTHER                                   -> Absent]
  <1>1. w \in WorkflowLabels
    BY AnswersAssumption
  <1>2. \A class : ApproverClass(class) \in AuthorityLabels
    BY LabelsAssumption DEF ApproverClass, CoreAuthorityClasses
  <1>3. mapping \in Dictionary(AuthorityLabels, AuthorityLabels)
    BY <1>2 DEF Dictionary
  <1>4. chain \in SUBSET AuthorityLabels
    BY <1>2
  <1>5. behaviours \in Dictionary(ActionLabels, PolicyActionBehavior)
    BY DEF Dictionary, PolicyActionBehavior
  <1>6. SetupPolicy(answers) =
             [EmptyPolicy EXCEPT !.actorMappings = mapping, !.approvalChains[w] = chain,
                                 !.actionPolicies[w] = behaviours]
    BY DEF SetupPolicy
  <1> HIDE DEF w, mapping, chain, behaviours
  <1>7. PICK empty : empty = EmptyPolicy
    OBVIOUS
  <1>8. empty \in PolicyType
    BY <1>7, EmptyFiles
  <1>9. PICK policy : policy = SetupPolicy(answers)
    OBVIOUS
  <1>10. empty = [actorMappings |-> empty.actorMappings, approvalChains |-> empty.approvalChains,
                  actionPolicies |-> empty.actionPolicies, workflowRules |-> empty.workflowRules]
    BY <1>8 DEF PolicyType
  <1>11. policy = [actorMappings  |-> mapping,
                   approvalChains |-> [empty.approvalChains EXCEPT ![w] = chain],
                   actionPolicies |-> [empty.actionPolicies EXCEPT ![w] = behaviours],
                   workflowRules  |-> empty.workflowRules]
    BY <1>6, <1>7, <1>9, <1>10
  <1>12. [empty.approvalChains EXCEPT ![w] = chain]
             \in Dictionary(WorkflowLabels, SUBSET AuthorityLabels)
    BY <1>1, <1>4, <1>8 DEF PolicyType, Dictionary
  <1>13. [empty.actionPolicies EXCEPT ![w] = behaviours]
             \in [WorkflowLabels -> Dictionary(ActionLabels, PolicyActionBehavior)]
    BY <1>1, <1>5, <1>8 DEF PolicyType
  <1>14. policy \in PolicyType
    BY <1>3, <1>8, <1>11, <1>12, <1>13 DEF PolicyType
  <1>15. QED
    BY <1>9, <1>14

\* A gate that can be built from the files is that of the generation in force, or
\* lacks the classes of a configuration that is damaged or that setup has replaced.
LEMMA LoadedIsNarrower ==
    ASSUME FilesInv, NEW gate, gate = LoadedGate(files.config, files.policy), gate # Threw
    PROVE  Narrower(gate, GateMeant(inForce))
  <1>1. PICK policy : policy = loadCerbaSealPolicy(files.policy)
    OBVIOUS
  <1>2. PICK config : config = loadCerbaSealConfig(files.config)
    OBVIOUS
  <1>3. policy # Threw /\ gate = GateFrom(config, policy)
    BY <1>1, <1>2 DEF LoadedGate
  <1>4. PICK dueConfig :
            dueConfig = IF inForce.config = Missing THEN EmptyConfig ELSE inForce.config
    OBVIOUS
  <1>5. /\ inForce.config \in ConfigFileType \cup {Missing}
        /\ inForce.policy \in PolicyFileType \cup {Missing}
        /\ inForce.policy # Damaged /\ inForce.config # Damaged
        /\ files.config \in {inForce.config, SetupConfig, Damaged}
    BY FilesAssumption DEF FilesInv, ConfigFiles, PolicyFiles
  <1>6. dueConfig \in ConfigFileType
    BY <1>4, <1>5, EmptyFiles
  <1>7. config \in {dueConfig, EmptyConfig, SetupConfig}
    <2>1. files.config = SetupConfig => config = SetupConfig
      BY <1>2, EmptyFiles, FilesAssumption DEF loadCerbaSealConfig
    <2>2. QED
      BY <1>2, <1>4, <1>5, <2>1 DEF loadCerbaSealConfig
  <1>8. config \in ConfigFileType
    BY <1>6, <1>7, EmptyFiles
  <1>9. files.policy # Damaged
    BY <1>1, <1>3, FilesAssumption DEF loadCerbaSealPolicy
  <1>10. files.policy = inForce.policy
    BY <1>9 DEF FilesInv
  <1>11. policy = IF inForce.policy = Missing THEN EmptyPolicy ELSE inForce.policy.policy
    BY <1>1, <1>3, <1>9, <1>10 DEF loadCerbaSealPolicy
  <1>12. policy \in PolicyType
    <2>1. CASE inForce.policy = Missing
      BY <1>11, <2>1, EmptyFiles
    <2>2. CASE inForce.policy # Missing
      BY <1>5, <1>11, <2>2 DEF PolicyFileType
    <2>3. QED
      BY <2>1, <2>2
  <1>13. PICK due : due = GateMeant(inForce)
    OBVIOUS
  <1>14. due = GateFrom(dueConfig, policy)
    BY <1>4, <1>11, <1>13 DEF GateMeant
  <1>15. /\ gate.extendedClasses = Listed(config.authorityClasses)
         /\ due.extendedClasses = Listed(dueConfig.authorityClasses)
    BY <1>3, <1>6, <1>8, <1>12, <1>14, GateFromType
  <1>16. Listed(config.authorityClasses) \subseteq Listed(dueConfig.authorityClasses)
    BY <1>7 DEF Listed, EmptyConfig, SetupConfig
  <1>17. /\ gate \in GateType /\ due \in GateType
         /\ gate.actorMappings = due.actorMappings
         /\ gate.workflowRules = due.workflowRules
         /\ gate.approvalChains = due.approvalChains
         /\ gate.actionPolicies = due.actionPolicies
    BY <1>3, <1>6, <1>8, <1>12, <1>14, GateFromType
  <1>18. Narrower(gate, due)
    BY <1>15, <1>16, <1>17 DEF Narrower
  <1>19. QED
    BY <1>13, <1>18

--------------------------------------------------------------------------------
(* What a narrower gate, and a gate that verify.ts passed, release. *)

\* What a gate releases that lacks some classes, the gate that is due may release.
LEMMA NarrowerRestricts ==
    ASSUME NEW gate, NEW due, Narrower(gate, due), NEW r \in GovernedRequestType,
           MayRelease(gate, r)
    PROVE  MayRelease(due, r)
  <1>1. /\ gate.extendedClasses \subseteq due.extendedClasses
        /\ gate.actorMappings = due.actorMappings
        /\ gate.workflowRules = due.workflowRules
        /\ gate.approvalChains = due.approvalChains
        /\ gate.actionPolicies = due.actionPolicies
    BY DEF Narrower
  <1>2. /\ CanonicalClass(gate, r) = CanonicalClass(due, r)
        /\ KnownClasses(gate) \subseteq KnownClasses(due)
        /\ \A b : PolicyBehaviourIs(gate, r, b) <=> PolicyBehaviourIs(due, r, b)
        /\ ApprovalNeeded(gate, r) <=> ApprovalNeeded(due, r)
        /\ \A c : MayApprove(gate, r, c) <=> MayApprove(due, r, c)
    BY <1>1 DEF CanonicalClass, KnownClasses, PolicyBehaviourIs, ApprovalNeeded,
                RuleAsksApproval, MayApprove
  <1>3. ApprovalGiven(gate, r) <=> ApprovalGiven(due, r)
    BY <1>2 DEF ApprovalGiven
  <1>4. DataMissing(gate, r) <=> DataMissing(due, r)
    BY <1>2, <1>3 DEF DataMissing
  <1>5. \A reason \in ReasonCodes : StandsAgainst(due, r, reason)
                                        => StandsAgainst(gate, r, reason)
    BY <1>2, <1>3, <1>4 DEF StandsAgainst
  <1>6. QED
    BY <1>5 DEF MayRelease

\* The requests of the scenarios.
AiScenario == [BASE EXCEPT !.actorAuthorityClass = "ai"]
AllowScenario == [BASE EXCEPT !.approvalRequired = TRUE, !.approvalArtifact = VerifyApproval]

LEMMA ScenarioRequests ==
    /\ AiScenario \in GovernedRequestType /\ AllowScenario \in GovernedRequestType
    /\ AiScenario.shape = "ok" /\ AllowScenario.shape = "ok"
    /\ AiScenario.workflowClass = AllowScenario.workflowClass
    /\ AiScenario.proposedActionClass = AllowScenario.proposedActionClass
    /\ AiScenario.proposedActionClass = "escalate"
    /\ AiScenario.requestedActionClass = "escalate"
    /\ AiScenario.actorAuthorityClass = "ai"
    /\ ~ AiScenario.authorityBearing /\ ~ AiScenario.sensitive /\ ~ AiScenario.prohibitedUse
    /\ AiScenario.policyPackRef = "present" /\ AiScenario.provenanceRef = "complete"
    /\ AiScenario.approvalArtifact = Null /\ AiScenario.loggingReady
    /\ AiScenario.trustState = "trusted"
  <1>1. /\ "fraud_triage" \in WorkflowLabels /\ "escalate" \in ActionLabels
        /\ {"analyst", "ai"} \subseteq AuthorityLabels
    BY LabelsAssumption DEF CoreAuthorityClasses, CoreActionClasses
  <1>2. VerifyApproval \in ApprovalArtifact
    BY <1>1, VerifyIdAssumption DEF VerifyApproval, ApprovalArtifact, Instant
  <1>3. BASE \in GovernedRequestType
    BY <1>1, VerifyIdAssumption DEF BASE, GovernedRequestType, RequestShape, Instant
  <1>4. /\ BASE.shape = "ok"
        /\ BASE.proposedActionClass = "escalate" /\ BASE.requestedActionClass = "escalate"
        /\ ~ BASE.authorityBearing /\ ~ BASE.sensitive /\ ~ BASE.prohibitedUse
        /\ BASE.policyPackRef = "present" /\ BASE.provenanceRef = "complete"
        /\ BASE.approvalArtifact = Null /\ BASE.loggingReady
        /\ BASE.trustState = "trusted"
    BY DEF BASE
  <1>5. PICK base : base = BASE
    OBVIOUS
  <1>6. PICK a : a = [base EXCEPT !.actorAuthorityClass = "ai"]
    OBVIOUS
  <1>7. PICK b, c : /\ b = [base EXCEPT !.approvalRequired = TRUE]
                    /\ c = [b EXCEPT !.approvalArtifact = VerifyApproval]
    OBVIOUS
  <1>8. a = AiScenario /\ c = AllowScenario
    BY <1>5, <1>6, <1>7 DEF AiScenario, AllowScenario
  <1>9. a \in GovernedRequestType /\ b \in GovernedRequestType
    BY <1>1, <1>3, <1>5, <1>6, <1>7 DEF GovernedRequestType
  <1>10. c \in GovernedRequestType
    <2>1. b \in GovernedRequestType
      BY <1>9
    <2>2. c = [b EXCEPT !.approvalArtifact = VerifyApproval]
      BY <1>7
    <2>3. VerifyApproval \in ApprovalArtifact \cup {Null, Absent}
      BY <1>2
    <2>4. QED
      BY <2>1, <2>2, <2>3 DEF GovernedRequestType
  <1>11. /\ a.actorAuthorityClass = "ai" /\ a.shape = base.shape
         /\ a.workflowClass = base.workflowClass
         /\ a.proposedActionClass = base.proposedActionClass
         /\ a.requestedActionClass = base.requestedActionClass
         /\ a.authorityBearing <=> base.authorityBearing
         /\ a.sensitive <=> base.sensitive
         /\ a.prohibitedUse <=> base.prohibitedUse
         /\ a.policyPackRef = base.policyPackRef /\ a.provenanceRef = base.provenanceRef
         /\ a.approvalArtifact = base.approvalArtifact
         /\ a.loggingReady <=> base.loggingReady
         /\ a.trustState = base.trustState
    BY <1>3, <1>5, <1>6 DEF GovernedRequestType
  <1>12. /\ c.shape = base.shape /\ c.workflowClass = base.workflowClass
         /\ c.proposedActionClass = base.proposedActionClass
    <2>1. /\ b.shape = base.shape /\ b.workflowClass = base.workflowClass
          /\ b.proposedActionClass = base.proposedActionClass
      BY <1>3, <1>5, <1>7 DEF GovernedRequestType
    <2>2. QED
      BY <1>7, <1>9, <2>1 DEF GovernedRequestType
  <1>13. QED
    BY <1>4, <1>5, <1>8, <1>9, <1>10, <1>11, <1>12

\* The scenario with an AI actor was rejected; the one with an approval, which
\* differs in nothing else that the policy pack speaks of, was not.  So it was
\* rejected for its actor, and every request with it is.
LEMMA PassingRefusesAi ==
    ASSUME NEW g \in GateType, Passes(g),
           NEW r \in GovernedRequestType,
           r.actorAuthorityClass = "ai", r.proposalSourceKind = "ai"
    PROVE  ~ MayRelease(g, r)
  <1>1. PICK a, b : a = AiScenario /\ b = AllowScenario
    OBVIOUS
  <1>2. /\ evaluate(g, a).finalState = "REJECT"
        /\ evaluate(g, b).finalState = "ALLOW"
        /\ evaluate(g, a).blockedActionRecord /\ evaluate(g, b).humanApprovalPresent
    BY <1>1 DEF Passes, AiScenario, AllowScenario
  <1>3. /\ a \in GovernedRequestType /\ a.shape = "ok"
        /\ b \in GovernedRequestType /\ b.shape = "ok"
    BY <1>1, ScenarioRequests
  <1>4. Answers(g, a, evaluate(g, a)) /\ Answers(g, b, evaluate(g, b))
    BY <1>3, EvaluateAnswers
  <1>5. MayRelease(g, b)
    BY <1>2, <1>4 DEF Answers, Verdict
  <1>6. PICK reason \in ReasonCodes \ {"REQUIRED_APPROVAL_MISSING"} : StandsAgainst(g, a, reason)
    BY <1>2, <1>4 DEF Answers, Verdict
  <1>7. ~ PolicyBehaviourIs(g, a, "blocked")
    <2>1. ~ StandsAgainst(g, b, "MALFORMED_REQUEST")
      BY <1>5 DEF MayRelease, ReasonCodes
    <2>2. ~ PolicyBehaviourIs(g, b, "blocked")
      BY <2>1 DEF StandsAgainst
    <2>3. a.workflowClass = b.workflowClass /\ a.proposedActionClass = b.proposedActionClass
      BY <1>1, ScenarioRequests
    <2>4. QED
      BY <2>2, <2>3 DEF PolicyBehaviourIs
  <1>8. /\ a.proposedActionClass = "escalate" /\ a.requestedActionClass = "escalate"
        /\ a.actorAuthorityClass = "ai"
        /\ ~ a.authorityBearing /\ ~ a.sensitive /\ ~ a.prohibitedUse
        /\ a.policyPackRef = "present" /\ a.provenanceRef = "complete"
        /\ a.approvalArtifact = Null /\ a.loggingReady
        /\ a.trustState = "trusted"
    BY <1>1, ScenarioRequests
  <1>9. ~ ApprovalGiven(g, a) /\ ~ DataMissing(g, a)
    BY <1>3, <1>8, NullAssumption DEF ApprovalGiven, DataMissing
  <1>10. CanonicalClass(g, a) = CanonicalClass(g, r)
    BY <1>8 DEF CanonicalClass
  <1>11. \/ reason = "MALFORMED_REQUEST" /\ CanonicalClass(g, a) \notin KnownClasses(g)
         \/ reason = "AI_CANNOT_AUTHORIZE" /\ CanonicalClass(g, a) = "ai"
    BY <1>6, <1>7, <1>8, <1>9 DEF StandsAgainst, CoreActionClasses
  <1>12. \/ StandsAgainst(g, r, "MALFORMED_REQUEST")
         \/ StandsAgainst(g, r, "AI_CANNOT_AUTHORIZE")
    BY <1>10, <1>11 DEF StandsAgainst
  <1>13. QED
    BY <1>12 DEF MayRelease, ReasonCodes
--------------------------------------------------------------------------------
(* The account of the log. *)

Accounted(id, finalState) ==
    Cardinality(Entries(id, finalState)) =
        Cardinality(CallsAnswered(id, finalState, {200, 0}))

LEMMA CountedSetsFinite ==
    ASSUME CallsInv, LogInv, NEW id, NEW finalState, NEW answers
    PROVE  /\ IsFiniteSet(Entries(id, finalState))
           /\ IsFiniteSet(CallsAnswered(id, finalState, answers))
  <1>1. DOMAIN log = 1 .. Len(log) /\ Len(log) \in Nat
    BY LenProperties DEF LogInv
  <1>2. DOMAIN calls = 1 .. Len(calls) /\ Len(calls) \in Nat
    BY LenProperties DEF CallsInv
  <1>3. IsFiniteSet(DOMAIN log) /\ IsFiniteSet(DOMAIN calls)
    BY <1>1, <1>2, FS_Interval
  <1>4. /\ Entries(id, finalState) \subseteq DOMAIN log
        /\ CallsAnswered(id, finalState, answers) \subseteq DOMAIN calls
    BY DEF Entries, CallsAnswered
  <1>5. QED
    BY <1>3, <1>4, FS_Subset

\* The account of unchanged logs and calls.
LEMMA NothingCalled ==
    ASSUME CallsInv, LogInv, UNCHANGED <<calls, log>>
    PROVE  CallsInv' /\ LogInv'
  <1>1. /\ \A id, finalState : Entries(id, finalState)' = Entries(id, finalState)
        /\ \A id, finalState, answers :
              CallsAnswered(id, finalState, answers)' = CallsAnswered(id, finalState, answers)
    BY DEF Entries, CallsAnswered
  <1>2. QED
    BY <1>1 DEF CallsInv, LogInv, AnswersAreAudited

\* One more call, with its entry unless it was answered with an error.
Called(c, way) ==
    /\ c \in Call
    /\ Narrower(c.gate, c.inForce)
    /\ c.finalState = "ALLOW" => MayRelease(c.gate, c.request)
    /\ calls' = Append(calls, c)
    /\ IF way = "logged"
       THEN /\ c.answer \in {200, 0}
            /\ c.finalState \in {"ALLOW", "HOLD", "REJECT"}
            /\ log' = Append(log, [requestId |-> c.request.requestId,
                                   finalState |-> c.finalState])
       ELSE c.answer = 422 /\ log' = log

LEMMA OneMoreCall ==
    ASSUME CallsInv, LogInv, NEW c, NEW way, Called(c, way)
    PROVE  CallsInv' /\ LogInv'
  <1>1. PICK n \in Nat : n = Len(calls) /\ DOMAIN calls = 1 .. n
    BY LenProperties DEF CallsInv
  <1>2. /\ calls' \in Seq(Call) /\ Len(calls') = n + 1
        /\ calls'[n + 1] = c
        /\ \A i \in 1 .. n : calls'[i] = calls[i]
    BY <1>1, AppendProperties DEF CallsInv, Called
  <1>3. DOMAIN calls' = 1 .. (n + 1)
    BY <1>2, LenProperties
  <1>4. /\ \A i \in 1 .. (n + 1) : i \in 1 .. n \/ i = n + 1
        /\ \A i \in 1 .. n : i \in 1 .. (n + 1)
        /\ n + 1 \in 1 .. (n + 1) /\ n + 1 \notin 1 .. n
    OBVIOUS
  <1>5. CallsInv'
    <2>1. ASSUME NEW i \in DOMAIN calls'
          PROVE  /\ Narrower(calls'[i].gate, calls'[i].inForce)
                 /\ calls'[i].finalState = "ALLOW"
                        => MayRelease(calls'[i].gate, calls'[i].request)
      <3>1. CASE i = n + 1
        BY <1>2, <3>1 DEF Called
      <3>2. CASE i \in 1 .. n
        BY <1>1, <1>2, <3>2 DEF CallsInv
      <3>3. QED
        BY <1>3, <1>4, <3>1, <3>2
    <2>2. QED
      BY <1>2, <2>1 DEF CallsInv
  <1>6. c.request.requestId \in RequestIds
    BY DeploymentRequests DEF Called, Call, GovernedRequestType
  <1>7. CASE way = "logged"
    <2>1. /\ c.answer \in {200, 0} /\ c.finalState \in {"ALLOW", "HOLD", "REJECT"}
          /\ log' = Append(log, [requestId |-> c.request.requestId,
                                 finalState |-> c.finalState])
      BY <1>7 DEF Called
    <2>2. PICK entry : entry = [requestId |-> c.request.requestId, finalState |-> c.finalState]
      OBVIOUS
    <2>3. entry \in DecisionEntry
      BY <1>6, <2>1, <2>2 DEF DecisionEntry
    <2>4. PICK m \in Nat : m = Len(log) /\ DOMAIN log = 1 .. m
      BY LenProperties DEF LogInv
    <2>5. /\ log' \in Seq(DecisionEntry) /\ Len(log') = m + 1
          /\ log'[m + 1] = entry
          /\ \A i \in 1 .. m : log'[i] = log[i]
      BY <2>1, <2>2, <2>3, <2>4, AppendProperties DEF LogInv
    <2>6. DOMAIN log' = 1 .. (m + 1)
      BY <2>5, LenProperties
    <2>7. /\ \A i \in 1 .. (m + 1) : i \in 1 .. m \/ i = m + 1
          /\ \A i \in 1 .. m : i \in 1 .. (m + 1)
          /\ m + 1 \in 1 .. (m + 1) /\ m + 1 \notin 1 .. m
      OBVIOUS
    <2>8. ASSUME NEW id \in RequestIds, NEW finalState \in {"ALLOW", "HOLD", "REJECT"}
          PROVE  Accounted(id, finalState)'
      <3>1. /\ IsFiniteSet(Entries(id, finalState))
            /\ IsFiniteSet(CallsAnswered(id, finalState, {200, 0}))
        BY CountedSetsFinite
      <3>2. Accounted(id, finalState)
        BY DEF LogInv, AnswersAreAudited, Accounted
      <3>3. PICK other : other = [requestId |-> id, finalState |-> finalState]
        OBVIOUS
      <3>4. entry = other <=> id = c.request.requestId /\ finalState = c.finalState
        BY <2>2, <3>3
      <3>5. CASE entry = other
        <4>1. Entries(id, finalState)' = Entries(id, finalState) \cup {m + 1}
          <5>1. Entries(id, finalState)' \subseteq Entries(id, finalState) \cup {m + 1}
            BY <2>4, <2>5, <2>6, <2>7 DEF Entries
          <5>2. Entries(id, finalState) \subseteq Entries(id, finalState)'
            BY <2>4, <2>5, <2>6, <2>7 DEF Entries
          <5>3. m + 1 \in Entries(id, finalState)'
            BY <2>5, <2>6, <2>7, <3>3, <3>5 DEF Entries
          <5>4. QED
            BY <5>1, <5>2, <5>3
        <4>2. m + 1 \notin Entries(id, finalState)
          BY <2>4, <2>7 DEF Entries
        <4>3. CallsAnswered(id, finalState, {200, 0})' =
                  CallsAnswered(id, finalState, {200, 0}) \cup {n + 1}
          <5>1. CallsAnswered(id, finalState, {200, 0})'
                    \subseteq CallsAnswered(id, finalState, {200, 0}) \cup {n + 1}
            BY <1>1, <1>2, <1>3, <1>4 DEF CallsAnswered
          <5>2. CallsAnswered(id, finalState, {200, 0})
                    \subseteq CallsAnswered(id, finalState, {200, 0})'
            BY <1>1, <1>2, <1>3, <1>4 DEF CallsAnswered
          <5>3. n + 1 \in CallsAnswered(id, finalState, {200, 0})'
            BY <1>2, <1>3, <1>4, <2>1, <3>4, <3>5 DEF CallsAnswered
          <5>4. QED
            BY <5>1, <5>2, <5>3
        <4>4. n + 1 \notin CallsAnswered(id, finalState, {200, 0})
          BY <1>1, <1>4 DEF CallsAnswered
        <4>5. Cardinality(Entries(id, finalState)') = Cardinality(Entries(id, finalState)) + 1
          BY <3>1, <4>1, <4>2, FS_AddElement
        <4>6. Cardinality(CallsAnswered(id, finalState, {200, 0})') =
                  Cardinality(CallsAnswered(id, finalState, {200, 0})) + 1
          BY <3>1, <4>3, <4>4, FS_AddElement
        <4>7. QED
          BY <3>2, <4>5, <4>6 DEF Accounted
      <3>6. CASE entry # other
        <4>1. Entries(id, finalState)' = Entries(id, finalState)
          <5>1. Entries(id, finalState)' \subseteq Entries(id, finalState)
            BY <2>4, <2>5, <2>6, <2>7, <3>3, <3>6 DEF Entries
          <5>2. Entries(id, finalState) \subseteq Entries(id, finalState)'
            BY <2>4, <2>5, <2>6, <2>7 DEF Entries
          <5>3. QED
            BY <5>1, <5>2
        <4>2. CallsAnswered(id, finalState, {200, 0})' =
                  CallsAnswered(id, finalState, {200, 0})
          <5>1. CallsAnswered(id, finalState, {200, 0})'
                    \subseteq CallsAnswered(id, finalState, {200, 0})
            BY <1>1, <1>2, <1>3, <1>4, <3>4, <3>6 DEF CallsAnswered
          <5>2. CallsAnswered(id, finalState, {200, 0})
                    \subseteq CallsAnswered(id, finalState, {200, 0})'
            BY <1>1, <1>2, <1>3, <1>4 DEF CallsAnswered
          <5>3. QED
            BY <5>1, <5>2
        <4>3. QED
          BY <3>2, <4>1, <4>2 DEF Accounted
      <3>7. QED
        BY <3>5, <3>6
    <2>9. QED
      BY <1>5, <2>5, <2>8 DEF LogInv, AnswersAreAudited, Accounted
  <1>8. CASE way # "logged"
    <2>1. c.answer = 422 /\ log' = log
      BY <1>8 DEF Called
    <2>2. \A id, finalState : Entries(id, finalState)' = Entries(id, finalState)
      BY <2>1 DEF Entries
    <2>3. ASSUME NEW id, NEW finalState
          PROVE  CallsAnswered(id, finalState, {200, 0})' =
                     CallsAnswered(id, finalState, {200, 0})
      <3>1. CallsAnswered(id, finalState, {200, 0})'
                \subseteq CallsAnswered(id, finalState, {200, 0})
        BY <1>1, <1>2, <1>3, <1>4, <2>1 DEF CallsAnswered
      <3>2. CallsAnswered(id, finalState, {200, 0})
                \subseteq CallsAnswered(id, finalState, {200, 0})'
        BY <1>1, <1>2, <1>3, <1>4 DEF CallsAnswered
      <3>3. QED
        BY <3>1, <3>2
    <2>4. QED
      BY <1>5, <2>1, <2>2, <2>3 DEF LogInv, AnswersAreAudited
  <1>9. QED
    BY <1>7, <1>8
--------------------------------------------------------------------------------
(* The steps. *)

CallOf(request, answer, finalState) ==
    [request |-> request, gate |-> server.gate, inForce |-> server.inForce,
     answer |-> answer, finalState |-> finalState]

\* What a call returns is on the gate of the server.
LEMMA ReturnedIsCall ==
    ASSUME GatesInv, server.state = "running", NEW request \in Requests,
           NEW result, result = evaluate(server.gate, request),
           NEW answer \in {0, 200, 422}, Returned(request, result, answer),
           NEW way,
           IF way = "logged" THEN answer \in {0, 200} /\ result # Threw /\ Logged(request, result)
           ELSE answer = 422 /\ log' = log
    PROVE  \E c : Called(c, way)
  <1>1. Narrower(server.gate, server.inForce)
    BY DEF GatesInv
  <1>2. /\ server.gate \in GateType /\ server.inForce \in GateType
        /\ request \in GovernedRequestType
    BY <1>1, DeploymentRequests DEF Narrower
  <1>3. PICK finalState : finalState = IF result = Threw THEN Null ELSE result.finalState
    OBVIOUS
  <1>4. PICK c : c = CallOf(request, answer, finalState)
    OBVIOUS
  <1>5. calls' = Append(calls, c)
    BY <1>3, <1>4 DEF Returned, CallOf
  <1>6. ASSUME result # Threw
        PROVE  /\ finalState \in {"ALLOW", "HOLD", "REJECT"}
               /\ finalState = "ALLOW" => MayRelease(server.gate, request)
    <2>1. Answers(server.gate, request, result)
      BY <1>2, <1>6, EvaluateAnswers
    <2>2. finalState = result.finalState
      BY <1>3, <1>6
    <2>3. QED
      BY <2>1, <2>2 DEF Answers, Verdict
  <1>7. result = Threw => finalState = Null /\ finalState # "ALLOW"
    BY <1>3, NullAssumption
  <1>8. c \in Call
    BY <1>2, <1>4, <1>6, <1>7 DEF Call, CallOf
  <1>9. /\ c.request = request /\ c.gate = server.gate /\ c.inForce = server.inForce
        /\ c.answer = answer /\ c.finalState = finalState
    BY <1>4 DEF CallOf
  <1>10. /\ Narrower(c.gate, c.inForce)
         /\ c.finalState = "ALLOW" => MayRelease(c.gate, c.request)
    BY <1>1, <1>6, <1>7, <1>9
  <1>11. CASE way = "logged"
    <2>1. /\ answer \in {200, 0} /\ result # Threw
          /\ log' = Append(log, [requestId |-> request.requestId,
                                 finalState |-> result.finalState])
      BY <1>11 DEF Logged
    <2>2. finalState = result.finalState
      BY <1>3, <2>1
    <2>3. QED
      BY <1>5, <1>6, <1>8, <1>9, <1>10, <1>11, <2>1, <2>2 DEF Called
  <1>12. CASE way # "logged"
    BY <1>5, <1>8, <1>9, <1>10, <1>12 DEF Called
  <1>13. QED
    BY <1>11, <1>12

LEMMA ServeStep ==
    ASSUME DeploymentInv, Serve \/ CutOff
    PROVE  CallsInv' /\ LogInv'
  <1>1. GatesInv /\ CallsInv /\ LogInv
    BY DEF DeploymentInv
  <1>2. server.state = "running"
    BY DEF Serve, CutOff
  <1>3. \E c, way : Called(c, way)
    <2>1. ASSUME NEW request \in Requests, EvaluateRequest(request)
          PROVE  \E c, way : Called(c, way)
      <3>1. PICK result : result = evaluate(server.gate, request)
        OBVIOUS
      <3>2. CASE Returned(request, result, 422) /\ log' = log
        <4>1. \E c : Called(c, "failed")
          BY <1>1, <1>2, <3>1, <3>2, ReturnedIsCall
        <4>2. QED
          BY <4>1
      <3>3. CASE result # Threw /\ Returned(request, result, 200) /\ Logged(request, result)
        <4>1. \E c : Called(c, "logged")
          BY <1>1, <1>2, <3>1, <3>3, ReturnedIsCall
        <4>2. QED
          BY <4>1
      <3>4. QED
        BY <2>1, <3>1, <3>2, <3>3 DEF EvaluateRequest
    <2>2. ASSUME NEW request \in Requests, NEW result,
                 result = evaluate(server.gate, request),
                 result # Threw, Logged(request, result), Returned(request, result, 0)
          PROVE  \E c, way : Called(c, way)
      <3>1. \E c : Called(c, "logged")
        BY <1>1, <1>2, <2>2, ReturnedIsCall
      <3>2. QED
        BY <3>1
    <2>3. QED
      BY <2>1, <2>2 DEF Serve, CutOff
  <1>4. QED
    BY <1>1, <1>3, OneMoreCall

\* What the setup wizard and the operators store.
LEMMA ChangeStep ==
    ASSUME DeploymentInv,
           \/ BeginSetup \/ WriteSetupConfig \/ BeginSetupPolicy \/ WriteSetupPolicy
           \/ SetupEnds \/ EditConfig \/ EditPolicy
    PROVE  FilesInv' /\ SetupInv' /\ changes' \in 0 .. MaxChanges
  <1>1. FilesInv /\ SetupInv /\ changes \in 0 .. MaxChanges
    BY DEF DeploymentInv, BoundsInv
  <1>2. /\ files.config \in ConfigFiles /\ files.policy \in PolicyFiles
        /\ files = [config |-> files.config, policy |-> files.policy]
        /\ meant = [config |-> meant.config, policy |-> meant.policy]
        /\ inForce = [config |-> inForce.config, policy |-> inForce.policy]
        /\ {meant.config, inForce.config} \subseteq ConfigFiles \ {Damaged}
        /\ {meant.policy, inForce.policy} \subseteq PolicyFiles \ {Damaged}
        /\ files.config \in {meant.config, Damaged}
        /\ files.policy \in {inForce.policy, Damaged}
        /\ meant.config \in {inForce.config, SetupConfig}
    BY <1>1 DEF FilesInv
  <1>3. Damaged \in ConfigFiles /\ Damaged \in PolicyFiles
    BY DEF ConfigFiles, PolicyFiles
  <1>4. SetupConfig \in ConfigFiles \ {Damaged}
    BY EmptyFiles, FilesAssumption DEF ConfigFiles
  <1>5. ASSUME NEW answers \in SetupAnswers, NEW new, new = Generation(answers)
        PROVE  /\ new = [config |-> SetupConfig, policy |-> new.policy]
               /\ new.policy \in PolicyFiles \ {Damaged}
    <2>1. PICK policy : policy = SetupPolicy(answers)
      OBVIOUS
    <2>2. policy \in PolicyType
      BY <2>1, SetupPolicyType
    <2>3. Well(policy) \in PolicyFileType
      BY <2>2 DEF Well, PolicyFileType
    <2>4. new = [config |-> SetupConfig, policy |-> Well(policy)]
      BY <1>5, <2>1 DEF Generation
    <2>5. QED
      BY <2>3, <2>4, FilesAssumption DEF PolicyFiles
  <1>6. changes < MaxChanges => changes + 1 \in 0 .. MaxChanges
    BY <1>1, DeploymentBounds
  \* It is enough to say what is stored, what was meant and what is in force.
  <1>7. ASSUME NEW config, NEW policy, NEW meantConfig, NEW meantPolicy,
               NEW dueConfig, NEW duePolicy,
               files' = [config |-> config, policy |-> policy],
               meant' = [config |-> meantConfig, policy |-> meantPolicy],
               inForce' = [config |-> dueConfig, policy |-> duePolicy],
               {meantConfig, dueConfig} \subseteq ConfigFiles \ {Damaged},
               {meantPolicy, duePolicy} \subseteq PolicyFiles \ {Damaged},
               config \in {meantConfig, Damaged}, policy \in {duePolicy, Damaged},
               meantConfig \in {dueConfig, SetupConfig}
        PROVE  FilesInv'
    BY <1>3, <1>7 DEF FilesInv
  <1>8. CASE BeginSetup
    <2>1. PICK answers \in SetupAnswers :
              /\ setup' = [stage |-> "config", answers |-> answers]
              /\ meant' = Generation(answers)
      BY <1>8 DEF BeginSetup
    <2>2. SetupInv'
      BY <2>1 DEF SetupInv
    <2>3. PICK new : new = Generation(answers)
      OBVIOUS
    <2>4. /\ meant' = [config |-> SetupConfig, policy |-> new.policy]
          /\ new.policy \in PolicyFiles \ {Damaged}
      BY <1>5, <2>1, <2>3
    <2>5. /\ files' = [config |-> Damaged, policy |-> files.policy]
          /\ inForce' = [config |-> inForce.config, policy |-> inForce.policy]
      BY <1>2, <1>8 DEF BeginSetup
    <2>6. FilesInv'
      BY <1>2, <1>4, <1>7, <2>4, <2>5
    <2>7. QED
      BY <1>6, <1>8, <2>2, <2>6 DEF BeginSetup
  <1>9. CASE WriteSetupConfig
    <2>1. /\ setup.stage = "config" /\ setup' = [setup EXCEPT !.stage = "between"]
          /\ changes' = changes
      BY <1>9 DEF WriteSetupConfig
    <2>2. /\ files' = [config |-> SetupConfig, policy |-> files.policy]
          /\ meant' = [config |-> SetupConfig, policy |-> meant.policy]
          /\ inForce' = [config |-> inForce.config, policy |-> inForce.policy]
      BY <1>2, <1>9 DEF WriteSetupConfig
    <2>3. SetupInv'
      BY <1>1, <2>1 DEF SetupInv
    <2>4. FilesInv'
      BY <1>2, <1>4, <1>7, <2>2
    <2>5. QED
      BY <1>1, <2>1, <2>3, <2>4
  <1>10. ASSUME NEW stage \in {"between", "policy"}, setup.stage = stage,
                NEW new, new = Generation(setup.answers)
         PROVE  new.policy \in PolicyFiles \ {Damaged}
    BY <1>1, <1>5, <1>10 DEF SetupInv
  <1>11. CASE BeginSetupPolicy
    <2>1. PICK new : new = Generation(setup.answers)
      OBVIOUS
    <2>2. /\ setup.stage = "between" /\ setup' = [setup EXCEPT !.stage = "policy"]
          /\ files' = [config |-> files.config, policy |-> Damaged]
          /\ meant' = [config |-> meant.config, policy |-> new.policy]
          /\ inForce' = meant' /\ changes' = changes
      BY <1>2, <1>11, <2>1 DEF BeginSetupPolicy
    <2>3. new.policy \in PolicyFiles \ {Damaged}
      BY <1>10, <2>1, <2>2
    <2>4. FilesInv'
      BY <1>2, <1>7, <2>2, <2>3
    <2>5. SetupInv'
      BY <1>1, <2>2 DEF SetupInv
    <2>6. QED
      BY <1>1, <2>2, <2>4, <2>5
  <1>12. CASE WriteSetupPolicy
    <2>1. PICK new : new = Generation(setup.answers)
      OBVIOUS
    <2>2. /\ setup.stage = "policy" /\ setup' = [stage |-> "idle", answers |-> Null]
          /\ files' = [config |-> files.config, policy |-> new.policy]
          /\ meant' = [config |-> meant.config, policy |-> new.policy]
          /\ inForce' = meant' /\ changes' = changes
      BY <1>2, <1>12, <2>1 DEF WriteSetupPolicy
    <2>3. new.policy \in PolicyFiles \ {Damaged}
      BY <1>10, <2>1, <2>2
    <2>4. FilesInv'
      BY <1>2, <1>7, <2>2, <2>3
    <2>5. SetupInv'
      BY <2>2 DEF SetupInv
    <2>6. QED
      BY <1>1, <2>2, <2>4, <2>5
  <1>13. CASE SetupEnds
    <2>1. SetupInv'
      BY <1>13 DEF SetupEnds, SetupInv
    <2>2. QED
      BY <1>1, <1>13, <2>1 DEF SetupEnds, FilesInv
  <1>14. CASE EditConfig
    <2>1. PICK config \in ConfigEdits, damaged \in BOOLEAN :
             /\ meant' = [meant EXCEPT !.config = config]
             /\ inForce' = [inForce EXCEPT !.config = config]
             /\ files' = [files EXCEPT !.config = IF damaged THEN Damaged ELSE config]
      BY <1>14 DEF EditConfig
    <2>2. PICK stored : stored = IF damaged THEN Damaged ELSE config
      OBVIOUS
    <2>3. /\ files' = [config |-> stored, policy |-> files.policy]
          /\ meant' = [config |-> config, policy |-> meant.policy]
          /\ inForce' = [config |-> config, policy |-> inForce.policy]
      BY <1>2, <2>1, <2>2
    <2>4. config \in ConfigFiles \ {Damaged} /\ stored \in {config, Damaged}
      BY <2>2, EditsAssumption
    <2>5. FilesInv'
      BY <1>2, <1>7, <2>3, <2>4
    <2>6. QED
      BY <1>1, <1>6, <1>14, <2>5 DEF EditConfig, SetupInv
  <1>15. CASE EditPolicy
    <2>1. PICK policy \in PolicyEdits, damaged \in BOOLEAN :
             /\ meant' = [meant EXCEPT !.policy = policy]
             /\ inForce' = meant'
             /\ files' = [files EXCEPT !.policy = IF damaged THEN Damaged ELSE policy]
      BY <1>15 DEF EditPolicy
    <2>2. PICK stored : stored = IF damaged THEN Damaged ELSE policy
      OBVIOUS
    <2>3. /\ files' = [config |-> files.config, policy |-> stored]
          /\ meant' = [config |-> meant.config, policy |-> policy]
          /\ inForce' = [config |-> meant.config, policy |-> policy]
      BY <1>2, <2>1, <2>2
    <2>4. policy \in PolicyFiles \ {Damaged} /\ stored \in {policy, Damaged}
      BY <2>2, EditsAssumption
    <2>5. FilesInv'
      BY <1>2, <1>7, <2>3, <2>4
    <2>6. QED
      BY <1>1, <1>6, <1>15, <2>5 DEF EditPolicy, SetupInv
  <1>16. QED
    BY <1>8, <1>9, <1>11, <1>12, <1>13, <1>14, <1>15

\* A server starts on a gate that was built from the files, and verify.ts passes
\* one.
LEMMA GatesStep ==
    ASSUME DeploymentInv, Verify \/ Start \/ Stop \/ CutOff
    PROVE  GatesInv' /\ starts' \in 0 .. MaxStarts
  <1>1. FilesInv /\ GatesInv /\ starts \in 0 .. MaxStarts
    BY DEF DeploymentInv, BoundsInv
  <1>2. PICK gate : gate = LoadedGate(files.config, files.policy)
    OBVIOUS
  <1>3. PICK due : due = GateMeant(inForce)
    OBVIOUS
  <1>4. gate # Threw => Narrower(gate, due)
    BY <1>1, <1>2, <1>3, LoadedIsNarrower
  <1>5. ASSUME NEW state \in {"stopped", "failed"}
        PROVE  Down(state) \in Server /\ Down(state).state = state
    BY DEF Down, Server
  <1>6. CASE Verify
    <2>1. /\ gate # Threw /\ Passes(gate)
          /\ verified' = verified \cup {gate}
          /\ UNCHANGED <<server, starts>>
      BY <1>2, <1>6 DEF Verify
    <2>2. gate \in GateType
      BY <1>4, <2>1 DEF Narrower
    <2>3. \A g \in verified' : g \in GateType /\ Passes(g)
      BY <1>1, <2>1, <2>2 DEF GatesInv
    <2>4. QED
      BY <1>1, <2>1, <2>3 DEF GatesInv
  <1>7. CASE Start
    <2>1. /\ starts < MaxStarts /\ starts' = starts + 1
          /\ server' = IF gate = Threw THEN Down("failed")
                       ELSE [state |-> "running", gate |-> gate, inForce |-> due]
          /\ verified' = verified
      BY <1>2, <1>3, <1>7 DEF Start
    <2>2. starts' \in 0 .. MaxStarts
      BY <1>1, <2>1, DeploymentBounds
    <2>3. /\ server' \in Server
          /\ server'.state = "running" => Narrower(server.gate, server.inForce)'
      <3>1. CASE gate = Threw
        <4>1. server' = Down("failed")
          BY <2>1, <3>1
        <4>2. server' \in Server /\ server'.state # "running"
          BY <1>5, <4>1
        <4>3. QED
          BY <4>2
      <3>2. CASE gate # Threw
        <4>1. server' = [state |-> "running", gate |-> gate, inForce |-> due]
          BY <2>1, <3>2
        <4>2. Narrower(gate, due)
          BY <1>4, <3>2
        <4>3. server'.gate = gate /\ server'.inForce = due
          BY <4>1
        <4>4. server' \in Server
          BY <4>1, <4>2 DEF Narrower, Server
        <4>5. QED
          BY <4>2, <4>3, <4>4
      <3>3. QED
        BY <3>1, <3>2
    <2>4. QED
      BY <1>1, <2>1, <2>2, <2>3 DEF GatesInv
  <1>8. CASE Stop \/ CutOff
    <2>1. server' = Down("stopped") /\ UNCHANGED <<verified, starts>>
      <3>1. CASE Stop
        BY <3>1 DEF Stop
      <3>2. CASE CutOff
        BY <3>2 DEF CutOff
      <3>3. QED
        BY <1>8, <3>1, <3>2
    <2>2. server' \in Server /\ server'.state # "running"
      BY <1>5, <2>1
    <2>3. QED
      BY <1>1, <2>1, <2>2 DEF GatesInv
  <1>9. QED
    BY <1>6, <1>7, <1>8

LEMMA DeploymentInit ==
    Init => DeploymentInv
  <1> SUFFICES ASSUME Init PROVE DeploymentInv
    OBVIOUS
  <1>1. PICK policy \in PolicyEdits : meant = [config |-> EmptyConfig, policy |-> policy]
    BY DEF Init
  <1>2. /\ files = meant /\ inForce = meant /\ setup = [stage |-> "idle", answers |-> Null]
        /\ verified = {} /\ server = Down("stopped")
        /\ log = <<>> /\ calls = <<>> /\ changes = 0 /\ starts = 0
    BY DEF Init
  <1>3. EmptyConfig \in ConfigFiles \ {Damaged} /\ policy \in PolicyFiles \ {Damaged}
    BY EmptyFiles, FilesAssumption, EditsAssumption DEF ConfigFiles
  <1>4. FilesInv
    BY <1>1, <1>2, <1>3 DEF FilesInv
  <1>5. SetupInv
    BY <1>2 DEF SetupInv
  <1>6. GatesInv
    <2>1. server \in Server /\ server.state # "running"
      BY <1>2 DEF Down, Server
    <2>2. QED
      BY <1>2, <2>1 DEF GatesInv
  <1>7. calls \in Seq(Call) /\ DOMAIN calls = {} /\ log \in Seq(DecisionEntry) /\ DOMAIN log = {}
    BY <1>2
  <1>8. CallsInv
    BY <1>7 DEF CallsInv
  <1>9. LogInv
    BY <1>7 DEF LogInv, AnswersAreAudited, Entries, CallsAnswered
  <1>10. BoundsInv
    BY <1>2, DeploymentBounds DEF BoundsInv
  <1>11. QED
    BY <1>4, <1>5, <1>6, <1>8, <1>9, <1>10 DEF DeploymentInv

LEMMA DeploymentStep ==
    DeploymentInv /\ [Next]_vars => DeploymentInv'
  <1> SUFFICES ASSUME DeploymentInv, [Next]_vars PROVE DeploymentInv'
    OBVIOUS
  <1>1. FilesInv /\ SetupInv /\ GatesInv /\ CallsInv /\ LogInv /\ BoundsInv
    BY DEF DeploymentInv
  <1>2. UNCHANGED <<server, verified>> => GatesInv'
    BY <1>1 DEF GatesInv
  <1>3. UNCHANGED <<files, meant, inForce, setup>> => FilesInv' /\ SetupInv'
    BY <1>1 DEF FilesInv, SetupInv
  <1>4. UNCHANGED <<calls, log>> => CallsInv' /\ LogInv'
    BY <1>1, NothingCalled
  <1>5. CASE \/ BeginSetup \/ WriteSetupConfig \/ BeginSetupPolicy \/ WriteSetupPolicy
             \/ SetupEnds \/ EditConfig \/ EditPolicy
    <2>1. UNCHANGED <<verified, server, log, calls, starts>>
      BY <1>5 DEF BeginSetup, WriteSetupConfig, BeginSetupPolicy, WriteSetupPolicy,
                  SetupEnds, EditConfig, EditPolicy
    <2>2. FilesInv' /\ SetupInv' /\ changes' \in 0 .. MaxChanges
      BY <1>5, ChangeStep
    <2>3. QED
      BY <1>1, <1>2, <1>4, <2>1, <2>2 DEF DeploymentInv, BoundsInv
  <1>6. CASE Verify \/ Start \/ Stop
    <2>1. UNCHANGED <<files, meant, inForce, setup, log, calls, changes>>
      BY <1>6 DEF Verify, Start, Stop
    <2>2. GatesInv' /\ starts' \in 0 .. MaxStarts
      BY <1>6, GatesStep
    <2>3. QED
      BY <1>1, <1>3, <1>4, <2>1, <2>2 DEF DeploymentInv, BoundsInv
  <1>7. CASE Serve
    <2>1. UNCHANGED <<files, meant, inForce, setup, verified, server, changes, starts>>
      BY <1>7 DEF Serve
    <2>2. CallsInv' /\ LogInv'
      BY <1>7, ServeStep
    <2>3. QED
      BY <1>1, <1>2, <1>3, <2>1, <2>2 DEF DeploymentInv, BoundsInv
  <1>8. CASE CutOff
    <2>1. UNCHANGED <<files, meant, inForce, setup, changes>>
      BY <1>8 DEF CutOff
    <2>2. CallsInv' /\ LogInv' /\ GatesInv' /\ starts' \in 0 .. MaxStarts
      BY <1>8, ServeStep, GatesStep
    <2>3. QED
      BY <1>1, <1>3, <2>1, <2>2 DEF DeploymentInv, BoundsInv
  <1>9. CASE UNCHANGED vars
    <2>1. UNCHANGED <<files, meant, inForce, setup, verified, server, log, calls, changes, starts>>
      BY <1>9 DEF vars
    <2>2. QED
      BY <1>1, <1>2, <1>3, <1>4, <2>1 DEF DeploymentInv, BoundsInv
  <1>10. QED
    BY <1>5, <1>6, <1>7, <1>8, <1>9 DEF Next

LEMMA DeploymentInvariant ==
    Spec => []DeploymentInv
  <1>1. Init => DeploymentInv
    BY DeploymentInit
  <1>2. DeploymentInv /\ [Next]_vars => DeploymentInv'
    BY DeploymentStep
  <1>3. QED
    BY <1>1, <1>2, PTL DEF Spec

--------------------------------------------------------------------------------
(* The safety invariants. *)

\* The variables of the deployment have their types; the configuration is what was
\* meant, the policy pack that of the generation in force, unless they are damaged.
THEOREM DeploymentTypeCorrect ==
    Spec => []TypeOK
  <1>1. ASSUME DeploymentInv PROVE TypeOK
    <2>1. FilesInv /\ SetupInv /\ GatesInv /\ CallsInv /\ BoundsInv
      BY <1>1 DEF DeploymentInv
    <2>2. \A i \in DOMAIN calls : calls[i] \in Call
      BY <2>1, ElementOfSeq, LenProperties DEF CallsInv
    <2>3. /\ {meant, inForce} \subseteq [config : ConfigFiles, policy : PolicyFiles]
          /\ verified \subseteq GateType
      BY <2>1 DEF FilesInv, GatesInv
    <2>4. QED
      BY <2>1, <2>2, <2>3 DEF TypeOK, FilesInv, SetupInv, GatesInv, BoundsInv
  <1>2. QED
    BY <1>1, DeploymentInvariant, PTL

\* Whatever damage the files had when a server started, and whatever setup had
\* replaced of them, what it releases is releasable under one whole generation
\* (setup.ts:203-204; cerbaseal-config.ts:119, cerbaseal-policy.ts:119-143).
THEOREM DamageRestricts ==
    Spec => []DamageOnlyRestricts
  <1>1. ASSUME DeploymentInv PROVE DamageOnlyRestricts
    <2>1. ASSUME NEW i \in DOMAIN calls, calls[i].finalState = "ALLOW"
          PROVE  MayRelease(calls[i].inForce, calls[i].request)
      <3>1. calls[i] \in Call
        BY <1>1, ElementOfSeq, LenProperties DEF DeploymentInv, CallsInv
      <3>2. calls[i].request \in GovernedRequestType
        BY <3>1, DeploymentRequests DEF Call
      <3>3. /\ Narrower(calls[i].gate, calls[i].inForce)
            /\ MayRelease(calls[i].gate, calls[i].request)
        BY <1>1, <2>1 DEF DeploymentInv, CallsInv
      <3>4. QED
        BY <3>2, <3>3, NarrowerRestricts
    <2>2. QED
      BY <2>1 DEF DamageOnlyRestricts, Releases
  <1>2. QED
    BY <1>1, DeploymentInvariant, PTL

\* A gate that verify.ts passed releases no proposal of an AI to itself, whatever
\* its policy pack maps the AI to (verify.ts:82).
THEOREM VerifiedGatesAreSafe ==
    Spec => []VerifiedGatesRefuseAi
  <1>1. ASSUME DeploymentInv PROVE VerifiedGatesRefuseAi
    <2>1. ASSUME NEW i \in DOMAIN calls, calls[i].finalState = "ALLOW",
                 calls[i].gate \in verified,
                 calls[i].request.actorAuthorityClass = "ai",
                 calls[i].request.proposalSourceKind = "ai"
          PROVE  FALSE
      <3>1. calls[i] \in Call
        BY <1>1, ElementOfSeq, LenProperties DEF DeploymentInv, CallsInv
      <3>2. calls[i].request \in GovernedRequestType
        BY <3>1, DeploymentRequests DEF Call
      <3>3. MayRelease(calls[i].gate, calls[i].request)
        BY <1>1, <2>1 DEF DeploymentInv, CallsInv
      <3>4. calls[i].gate \in GateType /\ Passes(calls[i].gate)
        BY <1>1, <2>1 DEF DeploymentInv, GatesInv
      <3>5. QED
        BY <2>1, <3>2, <3>3, <3>4, PassingRefusesAi
    <2>2. QED
      BY <2>1 DEF VerifiedGatesRefuseAi, Releases
  <1>2. QED
    BY <1>1, DeploymentInvariant, PTL

\* Over all the processes that wrote to the log, each decision that was given
\* away has its own entry, and an entry more is of a call that was cut off
\* (index.ts:95-108).
THEOREM AnswersHaveEntries ==
    Spec => []AnswersAreAudited
  <1>1. DeploymentInv => AnswersAreAudited
    BY DEF DeploymentInv, LogInv
  <1>2. QED
    BY <1>1, DeploymentInvariant, PTL
================================================================================
