------------------------------- MODULE Deployment ------------------------------
(***************************************************************************)
(* The life of a deployment from the starter kit: the setup wizard writes  *)
(* the configuration and the policy pack, operators edit them, verify.ts   *)
(* tries three scenarios on what it loads, and the server of               *)
(* deployment-starter/index.ts loads both files once and serves            *)
(* POST /evaluate with a log that outlives it.  Any of these processes can *)
(* end at any point, the server while it serves a call included.           *)
(***************************************************************************)
EXTENDS ConfigurationFiles, ReleaseConditions, FiniteSets

CONSTANTS
    ConfigEdits,   \* the configurations an operator writes
    PolicyEdits,   \* and the policy packs, as files
    SetupAnswers,  \* the answers to the setup wizard
    Requests,      \* the requests clients post
    VerifyId,      \* the request id of the scenarios, which differ in it only
    MaxChanges,    \* bounds for model checking: changes of the files,
    MaxCalls,      \* evaluations,
    MaxStarts      \* starts of the server

ASSUME VerifyIdAssumption == VerifyId \in RequestIds
ASSUME EditsAssumption ==
    /\ ConfigEdits \subseteq ConfigFiles \ {Damaged}
    /\ PolicyEdits \subseteq PolicyFiles \ {Damaged}
ASSUME AnswersAssumption ==
    SetupAnswers \subseteq
        [workflowClass : WorkflowLabels,
         approvers     : Seq([roleName : AuthorityLabels, authorityClass : AuthorityLabels])]
ASSUME DeploymentBounds == {MaxChanges, MaxCalls, MaxStarts} \subseteq Nat
ASSUME DeploymentRequests == Requests \subseteq GovernedRequestType

VARIABLES
    files,     \* what is stored: [config, policy]
    meant,     \* what whoever changed them last meant to store; setup means
               \* both files from its start
    inForce,   \* the whole generation that the stored policy pack is of
    setup,     \* the answers and how far the setup wizard has come
    verified,  \* the gates that verify.ts passed
    server,    \* whether the server runs, on which gate, and the gate of the
               \* generation that was in force when it started
    log,       \* the entries of the audit log: request id and final state
    calls,     \* the calls of evaluate
    changes, starts

vars == <<files, meant, inForce, setup, verified, server, log, calls, changes, starts>>

Server ==
    [state : {"stopped", "failed"}, gate : {Null}, inForce : {Null}]
    \cup [state : {"running"}, gate : GateType, inForce : GateType]

Down(state) == [state |-> state, gate |-> Null, inForce |-> Null]

Call == [request    : Requests,
         gate       : GateType,
         inForce    : GateType,
         finalState : {Null, "ALLOW", "HOLD", "REJECT"},
         answer     : {0, 200, 422}]

\* What a file that was meant to be stored says.
GateMeant(f) ==
    LET config == IF f.config = Missing THEN EmptyConfig ELSE f.config
        policy == IF f.policy = Missing THEN EmptyPolicy ELSE f.policy.policy
    IN  GateFrom(config, policy)

Init ==
    /\ \E policy \in PolicyEdits :
          meant = [config |-> EmptyConfig, policy |-> policy]
    /\ files = meant /\ inForce = meant
    /\ setup = [stage |-> "idle", answers |-> Null]
    /\ verified = {} /\ server = Down("stopped")
    /\ log = <<>> /\ calls = <<>> /\ changes = 0 /\ starts = 0

--------------------------------------------------------------------------------
(* The setup wizard and the operators *)

\* An answer that is no core class is replaced.
ApproverClass(answer) == IF answer \in CoreAuthorityClasses THEN answer ELSE "analyst"

\* Of two approvers with one role name the last is mapped, and both are in the
\* chain.
SetupPolicy(answers) ==
    LET approvers == answers.approvers
        LastWith(role) ==
            CHOOSE i \in DOMAIN approvers :
                /\ approvers[i].roleName = role
                /\ \A j \in DOMAIN approvers : approvers[j].roleName = role => j <= i
    IN  [EmptyPolicy EXCEPT
            !.actorMappings =
                [class \in AuthorityLabels |->
                    IF \E i \in DOMAIN approvers : approvers[i].roleName = class
                    THEN ApproverClass(approvers[LastWith(class)].authorityClass)
                    ELSE Absent],
            !.approvalChains[answers.workflowClass] =
                {ApproverClass(approvers[i].authorityClass) : i \in DOMAIN approvers},
            !.actionPolicies[answers.workflowClass] =
                [action \in ActionLabels |->
                    CASE action \in {"escalate", "account_hold"} -> "requires_approval"
                      [] action \in {"allow", "hold", "reject"}  -> "auto_allow"
                      [] OTHER                                   -> Absent]]

\* The classes the wizard would add are core classes already, so that it never
\* extends any.
SetupConfig == [authorityClasses |-> {}, actionClasses |-> {}]

\* What the answers mean to store.
Generation(answers) == [config |-> SetupConfig, policy |-> Well(SetupPolicy(answers))]

\* Mutant: the policy pack is written before the configuration.
BeginSetup_PolicyFirst ==
    /\ setup.stage = "idle"
    /\ changes < MaxChanges
    /\ changes' = changes + 1
    /\ \E answers \in SetupAnswers :
          /\ setup' = [stage |-> "config", answers |-> answers]
          /\ files' = [files EXCEPT !.policy = Generation(answers).policy]
          /\ meant' = Generation(answers) /\ inForce' = Generation(answers)
    /\ UNCHANGED <<verified, server, log, calls, starts>>

\* writeFileSync empties a file before it fills it.
BeginSetup ==
    /\ setup.stage = "idle"
    /\ changes < MaxChanges
    /\ changes' = changes + 1
    /\ \E answers \in SetupAnswers :
          /\ setup' = [stage |-> "config", answers |-> answers]
          /\ meant' = Generation(answers)
    /\ files' = [files EXCEPT !.config = Damaged]
    /\ UNCHANGED <<inForce, verified, server, log, calls, starts>>

\* The new configuration is beside the policy pack that was there before.
WriteSetupConfig ==
    /\ setup.stage = "config"
    /\ setup' = [setup EXCEPT !.stage = "between"]
    /\ files' = [files EXCEPT !.config = SetupConfig]
    /\ meant' = [meant EXCEPT !.config = SetupConfig]
    /\ UNCHANGED <<inForce, verified, server, log, calls, changes, starts>>

BeginSetupPolicy ==
    /\ setup.stage = "between"
    /\ setup' = [setup EXCEPT !.stage = "policy"]
    /\ files' = [files EXCEPT !.policy = Damaged]
    /\ meant' = [meant EXCEPT !.policy = Generation(setup.answers).policy]
    /\ inForce' = meant'
    /\ UNCHANGED <<verified, server, log, calls, changes, starts>>

WriteSetupPolicy ==
    /\ setup.stage = "policy"
    /\ setup' = [stage |-> "idle", answers |-> Null]
    /\ files' = [files EXCEPT !.policy = Generation(setup.answers).policy]
    /\ meant' = [meant EXCEPT !.policy = Generation(setup.answers).policy]
    /\ inForce' = meant'
    /\ UNCHANGED <<verified, server, log, calls, changes, starts>>

SetupEnds ==
    /\ setup.stage # "idle"
    /\ setup' = [stage |-> "idle", answers |-> Null]
    /\ UNCHANGED <<files, meant, inForce, verified, server, log, calls, changes, starts>>

\* An operator edits one file, which goes with the other as it was meant or, while
\* setup has not come to its policy pack, as it was before.  An edit may leave a
\* file that does not parse.
EditConfig ==
    /\ changes < MaxChanges
    /\ changes' = changes + 1
    /\ \E config \in ConfigEdits, damaged \in BOOLEAN :
          /\ meant' = [meant EXCEPT !.config = config]
          /\ inForce' = [inForce EXCEPT !.config = config]
          /\ files' = [files EXCEPT !.config = IF damaged THEN Damaged ELSE config]
    /\ UNCHANGED <<setup, verified, server, log, calls, starts>>

EditPolicy ==
    /\ changes < MaxChanges
    /\ changes' = changes + 1
    /\ \E policy \in PolicyEdits, damaged \in BOOLEAN :
          /\ meant' = [meant EXCEPT !.policy = policy]
          /\ inForce' = meant'
          /\ files' = [files EXCEPT !.policy = IF damaged THEN Damaged ELSE policy]
    /\ UNCHANGED <<setup, verified, server, log, calls, starts>>

--------------------------------------------------------------------------------
(* verify.ts *)

\* The base request of the scenarios.
BASE ==
    [requestId |-> VerifyId, shape |-> "ok", workflowClass |-> "fraud_triage",
     actorAuthorityClass |-> "analyst", proposedActionClass |-> "escalate",
     requestedActionClass |-> "escalate", proposalSourceKind |-> "ai",
     authorityBearing |-> FALSE, sensitive |-> FALSE, prohibitedUse |-> FALSE,
     policyPackRef |-> "present", provenanceRef |-> "complete",
     approvalRequired |-> FALSE, approvalArtifact |-> Null,
     loggingReady |-> TRUE, controlStatus |-> "valid", trustState |-> "trusted",
     createdAt |-> 1]

VerifyApproval ==
    [forRequestId |-> VerifyId, approverAuthorityClass |-> "analyst",
     privilegedAuthSatisfied |-> TRUE, immutableSignature |-> "signed",
     approvedAt |-> 1]

\* Mutant: the first scenario looks for a blocked action only.
Passes_AnyBlock(gate) ==
    LET reject == evaluate(gate, [BASE EXCEPT !.actorAuthorityClass = "ai"])
        hold   == evaluate(gate, [BASE EXCEPT !.approvalRequired = TRUE])
        allow  == evaluate(gate, [BASE EXCEPT !.approvalRequired = TRUE,
                                              !.approvalArtifact = VerifyApproval])
    IN  /\ reject.blockedActionRecord
        /\ hold.finalState = "HOLD" /\ hold.humanApprovalRequired
        /\ allow.finalState = "ALLOW" /\ allow.humanApprovalPresent

\* The three scenarios with their assertions.
Passes(gate) ==
    LET reject == evaluate(gate, [BASE EXCEPT !.actorAuthorityClass = "ai"])
        hold   == evaluate(gate, [BASE EXCEPT !.approvalRequired = TRUE])
        allow  == evaluate(gate, [BASE EXCEPT !.approvalRequired = TRUE,
                                              !.approvalArtifact = VerifyApproval])
    IN  /\ reject.finalState = "REJECT" /\ reject.blockedActionRecord
        /\ reject.releaseAuthorization = Null
        /\ hold.finalState = "HOLD" /\ hold.humanApprovalRequired
        /\ hold.releaseAuthorization = Null
        /\ allow.finalState = "ALLOW" /\ allow.humanApprovalPresent
        /\ allow.releaseAuthorization # Null

Verify ==
    LET gate == LoadedGate(files.config, files.policy)
    IN  /\ gate # Threw
        /\ Passes(gate)
        /\ verified' = verified \cup {gate}
        /\ UNCHANGED <<files, meant, inForce, setup, server, log, calls, changes, starts>>

--------------------------------------------------------------------------------
(* The server *)

\* Mutant: the server goes on without the gate that could not be built.
Start_GoesOn ==
    LET gate == LoadedGate(files.config, files.policy)
    IN  /\ server.state # "running"
        /\ starts < MaxStarts
        /\ starts' = starts + 1
        /\ server' = [state |-> "running", gate |-> gate, inForce |-> GateMeant(inForce)]
        /\ UNCHANGED <<files, meant, inForce, setup, verified, log, calls, changes>>

\* The gate is built once, when the process starts.
Start ==
    LET gate == LoadedGate(files.config, files.policy)
    IN  /\ server.state # "running"
        /\ starts < MaxStarts
        /\ starts' = starts + 1
        /\ server' = IF gate = Threw THEN Down("failed")
                     ELSE [state |-> "running", gate |-> gate,
                           inForce |-> GateMeant(inForce)]
        /\ UNCHANGED <<files, meant, inForce, setup, verified, log, calls, changes>>

Stop ==
    /\ server.state = "running"
    /\ server' = Down("stopped")
    /\ UNCHANGED <<files, meant, inForce, setup, verified, log, calls, changes, starts>>

Returned(request, result, answer) ==
    calls' = Append(calls, [request |-> request, gate |-> server.gate,
                            inForce |-> server.inForce, answer |-> answer,
                            finalState |-> IF result = Threw THEN Null
                                           ELSE result.finalState])

Logged(request, result) ==
    log' = Append(log, [requestId |-> request.requestId,
                        finalState |-> result.finalState])

\* Mutant: the answer is sent before the entry is appended.
EvaluateRequest_AnswersFirst(request) ==
    LET result == evaluate(server.gate, request)
    IN  \/ result = Threw /\ Returned(request, result, 422) /\ UNCHANGED log
        \/ /\ result # Threw
           /\ Returned(request, result, 200)
           /\ Logged(request, result) \/ UNCHANGED log

\* evaluate, append, send.  What throws in either of the first two is answered
\* alike, although an append may fail after a release.
EvaluateRequest(request) ==
    LET result == evaluate(server.gate, request)
    IN  \/ result = Threw /\ Returned(request, result, 422) /\ UNCHANGED log
        \/ result # Threw /\ Returned(request, result, 422) /\ UNCHANGED log
        \/ result # Threw /\ Returned(request, result, 200) /\ Logged(request, result)

Serve ==
    /\ server.state = "running"
    /\ Len(calls) < MaxCalls
    /\ \E request \in Requests : EvaluateRequest(request)
    /\ UNCHANGED <<files, meant, inForce, setup, verified, server, changes, starts>>

\* The process ends between the append and the answer.
CutOff ==
    /\ server.state = "running"
    /\ Len(calls) < MaxCalls
    /\ \E request \in Requests :
          LET result == evaluate(server.gate, request)
          IN  /\ result # Threw
              /\ Logged(request, result)
              /\ Returned(request, result, 0)
    /\ server' = Down("stopped")
    /\ UNCHANGED <<files, meant, inForce, setup, verified, changes, starts>>

Next ==
    \/ BeginSetup \/ WriteSetupConfig \/ BeginSetupPolicy \/ WriteSetupPolicy
    \/ SetupEnds
    \/ EditConfig \/ EditPolicy
    \/ Verify
    \/ Start \/ Stop \/ Serve \/ CutOff

Spec == Init /\ [][Next]_vars

--------------------------------------------------------------------------------
(* Properties *)

\* The type of every variable; the configuration is what was meant, the policy
\* pack that of the generation in force, unless they are damaged.
TypeOK ==
    /\ files \in [config : ConfigFiles, policy : PolicyFiles]
    /\ {meant, inForce} \subseteq [config : ConfigFiles, policy : PolicyFiles]
    /\ files.config \in {meant.config, Damaged}
    /\ files.policy \in {inForce.policy, Damaged}
    /\ setup \in [stage   : {"idle", "config", "between", "policy"},
                  answers : SetupAnswers \cup {Null}]
    /\ verified \subseteq GateType
    /\ server \in Server
    /\ \A i \in DOMAIN calls : calls[i] \in Call
    /\ changes \in 0 .. MaxChanges /\ starts \in 0 .. MaxStarts

Releases == {calls[i] : i \in {k \in DOMAIN calls : calls[k].finalState = "ALLOW"}}

\* Neither damage nor a mix of two generations relaxes: whatever setup left half
\* written, whatever edit broke a file and whenever the server started in between,
\* what it releases is releasable under one whole generation, the one that the
\* stored policy pack is of (cerbaseal-config.ts:119, cerbaseal-policy.ts:119-143).
\* A setup that ends between its two files leaves its configuration beside the
\* policy pack from before (setup.ts:203-204): the server then releases nothing
\* that the generation before would not, whatever the answers meant.
DamageOnlyRestricts == \A call \in Releases : MayRelease(call.inForce, call.request)

\* A gate that verify.ts passed lets no AI propose to itself, although a policy
\* pack that maps "ai" to another class would: a server that loaded the files
\* that were verified, whatever was edited since or before, has none of it
\* (verify.ts:82; execution-gate-service.ts:534).
VerifiedGatesRefuseAi ==
    \A call \in Releases :
        call.gate \in verified =>
            ~ (/\ call.request.actorAuthorityClass = "ai"
               /\ call.request.proposalSourceKind = "ai")

Entries(id, finalState) ==
    {i \in DOMAIN log : log[i] = [requestId |-> id, finalState |-> finalState]}

CallsAnswered(id, finalState, answers) ==
    {i \in DOMAIN calls :
        /\ calls[i].request.requestId = id
        /\ calls[i].finalState = finalState
        /\ calls[i].answer \in answers}

\* No decision is given away without its own entry, over all the processes that
\* wrote to the log, and an entry whose decision was not given is that of a call
\* the end of the process cut off, not of one that was answered with an error
\* (index.ts:95-108).
AnswersAreAudited ==
    \A id \in RequestIds, finalState \in {"ALLOW", "HOLD", "REJECT"} :
        Cardinality(Entries(id, finalState)) =
            Cardinality(CallsAnswered(id, finalState, {200, 0}))
================================================================================
