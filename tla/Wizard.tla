-------------------------------- MODULE Wizard ---------------------------------
(***************************************************************************)
(* The workflow mapping wizard of the demonstrator: a form of five steps,  *)
(* each validated when it is left forwards, and a summary from which the   *)
(* configuration package is downloaded.  The zip file is built             *)
(* asynchronously from the answers at the click; meanwhile the user may    *)
(* leave the summary, which forgets its local state, and change answers.   *)
(***************************************************************************)
EXTENDS ConfigurationFiles

CONSTANTS
    WorkflowNames, ActionNames, RoleNames,  \* the texts that are typed
    SnakeCase,      \* what toSnakeCase makes of them
    UnnamedWorkflow,
    Probes,         \* the requests the gates of the packages are tried with
    MaxActions,     \* the code's limit of actions is 5
    MaxApprovers,   \* bounds for model checking: there is no limit of approvers,
    MaxUpdates,     \* changes of the answers
    MaxDownloads    \* and clicks on the download

ASSUME TextsAssumption ==
    /\ "" \in WorkflowNames \cap ActionNames \cap RoleNames
    /\ RoleNames \ {""} \subseteq AuthorityLabels
    /\ "" \notin AuthorityLabels
    /\ DOMAIN SnakeCase = WorkflowNames \cup ActionNames
    /\ \A name \in WorkflowNames : SnakeCase[name] \in WorkflowLabels \cup {""}
    /\ \A name \in ActionNames : SnakeCase[name] \in ActionLabels \cup {""}
    /\ UnnamedWorkflow \in WorkflowLabels
ASSUME ProbesAssumption == Probes \subseteq GovernedRequestType
ASSUME WizardBounds ==
    /\ MaxActions \in 1 .. 5
    /\ {MaxApprovers, MaxUpdates, MaxDownloads} \subseteq Nat

VARIABLES
    step,         \* the step that is shown
    form,         \* the answers
    error,        \* is a validation error shown?
    downloading, downloaded,  \* the local state of the summary
    inFlight,     \* the downloads under way: the answers at the click, and
                  \* whether the summary is still the one of the click
    saved,        \* the answers whose package the browser saved
    updates, downloads

vars == <<step, form, error, downloading, downloaded, inFlight, saved,
          updates, downloads>>

AUTHORITY_CLASSES == {"analyst", "compliance_officer", "manager", "reviewer", "system"}

Steps == 1 .. 6

Action   == [name : ActionNames, consequential : BOOLEAN]
Approver == [clientRoleName : RoleNames, authorityClass : AUTHORITY_CLASSES \cup {""}]

\* "details" and "ai" stand for the other required answers of steps 1 and 3, and
\* "mode" for the choice of step 5: given or not.
WizardState ==
    [workflowName : WorkflowNames, details : BOOLEAN, actions : Seq(Action),
     ai : BOOLEAN, approvers : Seq(Approver), mode : BOOLEAN]

NewAction   == [name |-> "", consequential |-> TRUE]
NewApprover == [clientRoleName |-> "", authorityClass |-> ""]

INITIAL_STATE ==
    [workflowName |-> "", details |-> FALSE, actions |-> <<NewAction>>,
     ai |-> FALSE, approvers |-> <<NewApprover>>, mode |-> FALSE]

Blank(text) == text \in {"", " "}

\* No error in the step.  The first entries of the lists must be filled in, of
\* the other approvers only those that have a role name.
validateStep(n, f) ==
    /\ n = 1 => ~ Blank(f.workflowName) /\ f.details = TRUE
    /\ n = 2 => ~ Blank(f.actions[1].name)
    /\ n = 3 => f.ai = TRUE
    /\ n = 4 => /\ ~ Blank(f.approvers[1].clientRoleName)
                /\ f.approvers[1].authorityClass # ""
                /\ \A i \in DOMAIN f.approvers :
                      f.approvers[i].clientRoleName # "" =>
                          f.approvers[i].authorityClass # ""
    /\ n = 5 => f.mode = TRUE

--------------------------------------------------------------------------------
(* The package *)

toSnakeCase(text) == SnakeCase[text]

WorkflowClassOf(f) ==
    IF toSnakeCase(f.workflowName) = "" THEN UnnamedWorkflow
    ELSE toSnakeCase(f.workflowName)

Chosen(f) == {i \in DOMAIN f.approvers : f.approvers[i].authorityClass # ""}
ChosenClasses(f) == {f.approvers[i].authorityClass : i \in Chosen(f)}

Last(indices) == CHOOSE i \in indices : \A j \in indices : j <= i

\* Mutant: an approval is required only if an action is consequential.
generatePolicyJson_ConsequentialOnly(f) ==
    IF \A i \in DOMAIN f.actions : ~ f.actions[i].consequential
    THEN EmptyPolicy
    ELSE [EmptyPolicy EXCEPT
            !.workflowRules =
                <<[workflowClass |-> WorkflowClassOf(f), requiresApproval |-> TRUE]>>,
            !.approvalChains[WorkflowClassOf(f)] = ChosenClasses(f)]

\* Of entries with one key the last is kept.
generatePolicyJson(f) ==
    LET mapped(role)  == {i \in Chosen(f) : f.approvers[i].clientRoleName = role}
        named(action) == {i \in DOMAIN f.actions :
                             /\ f.actions[i].name # ""
                             /\ toSnakeCase(f.actions[i].name) = action}
        behaviour(action) ==
            IF named(action) = {} THEN Absent
            ELSE IF f.actions[Last(named(action))].consequential
            THEN "requires_approval" ELSE "auto_allow"
        approved == Chosen(f) # {}
    IN  [EmptyPolicy EXCEPT
            !.actorMappings =
                [role \in AuthorityLabels |->
                    IF mapped(role) = {} THEN Absent
                    ELSE f.approvers[Last(mapped(role))].authorityClass],
            !.workflowRules =
                IF approved
                THEN <<[workflowClass |-> WorkflowClassOf(f), requiresApproval |-> TRUE]>>
                ELSE <<>>,
            !.approvalChains[WorkflowClassOf(f)] =
                IF approved THEN ChosenClasses(f) ELSE Absent,
            !.actionPolicies[WorkflowClassOf(f)] =
                [action \in ActionLabels |-> behaviour(action)]]

\* makeRequest of the generated tests; they are in one file, and their request
\* ids, which no test compares, are one here.
makeRequest(f, id) ==
    [requestId |-> id, shape |-> "ok", workflowClass |-> WorkflowClassOf(f),
     actorAuthorityClass |-> f.approvers[1].authorityClass,
     proposedActionClass |-> toSnakeCase(f.actions[1].name),
     requestedActionClass |-> toSnakeCase(f.actions[1].name),
     proposalSourceKind |-> "ai", authorityBearing |-> FALSE, sensitive |-> FALSE,
     prohibitedUse |-> FALSE, policyPackRef |-> "null", provenanceRef |-> "complete",
     approvalRequired |-> FALSE, approvalArtifact |-> Null, loggingReady |-> TRUE,
     controlStatus |-> "valid", trustState |-> "trusted", createdAt |-> 1]

\* The tests for the first action, on the gate of the package.
generatedTestsPass(f, id) ==
    LET gate == GateFrom([EmptyConfig EXCEPT !.authorityClasses = ChosenClasses(f)],
                         generatePolicyJson(f))
        artifact == [forRequestId |-> id,
                     approverAuthorityClass |-> f.approvers[1].authorityClass,
                     privilegedAuthSatisfied |-> TRUE,
                     immutableSignature |-> "signed", approvedAt |-> 1]
        base   == makeRequest(f, id)
        reject == evaluate(gate, [base EXCEPT !.actorAuthorityClass = "ai"])
        hold   == evaluate(gate, [base EXCEPT !.approvalRequired = TRUE])
        allow  == evaluate(gate, [base EXCEPT !.approvalRequired = TRUE,
                                              !.approvalArtifact = artifact])
    IN  /\ reject.finalState = "REJECT"
        /\ reject.reason = "AI_SELF_AUTHORIZATION_FORBIDDEN"
        /\ hold.finalState = "HOLD" /\ hold.humanApprovalRequired
        /\ allow.finalState = "ALLOW" /\ allow.humanApprovalPresent

--------------------------------------------------------------------------------
(* The form *)

Init ==
    /\ step = 1 /\ form = INITIAL_STATE /\ error = FALSE
    /\ downloading = FALSE /\ downloaded = FALSE
    /\ inFlight = {} /\ saved = {} /\ updates = 0 /\ downloads = 0

\* Every change of an answer clears the error.
update(new) ==
    /\ updates < MaxUpdates
    /\ updates' = updates + 1
    /\ form' = new
    /\ error' = FALSE
    /\ UNCHANGED <<step, downloading, downloaded, inFlight, saved, downloads>>

Step1 ==
    /\ step = 1
    /\ \/ \E name \in WorkflowNames : update([form EXCEPT !.workflowName = name])
       \/ \E given \in BOOLEAN : update([form EXCEPT !.details = given])

Without(list, i) ==
    [k \in 1 .. (Len(list) - 1) |-> IF k < i THEN list[k] ELSE list[k + 1]]

Step2 ==
    /\ step = 2
    /\ \/ \E i \in DOMAIN form.actions, name \in ActionNames :
             update([form EXCEPT !.actions[i].name = name])
       \/ \E i \in DOMAIN form.actions, consequential \in BOOLEAN :
             update([form EXCEPT !.actions[i].consequential = consequential])
       \/ /\ Len(form.actions) < MaxActions
          /\ update([form EXCEPT !.actions = Append(@, NewAction)])
       \/ /\ Len(form.actions) > 1
          /\ \E i \in DOMAIN form.actions :
                update([form EXCEPT !.actions = Without(@, i)])

Step3 ==
    /\ step = 3
    /\ \E given \in BOOLEAN : update([form EXCEPT !.ai = given])

\* Mutant: the last approver can be removed.
Step4_RemovesLast ==
    /\ step = 4
    /\ \/ \E i \in DOMAIN form.approvers, name \in RoleNames :
             update([form EXCEPT !.approvers[i].clientRoleName = name])
       \/ \E i \in DOMAIN form.approvers, class \in AUTHORITY_CLASSES :
             update([form EXCEPT !.approvers[i].authorityClass = class])
       \/ \E i \in DOMAIN form.approvers :
             update([form EXCEPT !.approvers = Without(@, i)])

\* A chosen class can be changed but not taken back.
Step4 ==
    /\ step = 4
    /\ \/ \E i \in DOMAIN form.approvers, name \in RoleNames :
             update([form EXCEPT !.approvers[i].clientRoleName = name])
       \/ \E i \in DOMAIN form.approvers, class \in AUTHORITY_CLASSES :
             update([form EXCEPT !.approvers[i].authorityClass = class])
       \/ /\ Len(form.approvers) < MaxApprovers
          /\ update([form EXCEPT !.approvers = Append(@, NewApprover)])
       \/ /\ Len(form.approvers) > 1
          /\ \E i \in DOMAIN form.approvers :
                update([form EXCEPT !.approvers = Without(@, i)])

Step5 == step = 5 /\ update([form EXCEPT !.mode = TRUE])

--------------------------------------------------------------------------------
(* Navigation *)

\* Mutant: the summary's state is kept in the wizard.
GoTo_KeepsSummary(n) ==
    /\ step' = n
    /\ error' = FALSE
    /\ UNCHANGED <<form, downloading, downloaded, inFlight, saved, updates, downloads>>

\* Leaving the summary unmounts it: its local state is lost, and what is in
\* flight finds no summary to report to.
GoTo(n) ==
    /\ step' = n
    /\ error' = FALSE
    /\ downloading' = FALSE /\ downloaded' = FALSE
    /\ inFlight' = {[d EXCEPT !.mounted = FALSE] : d \in inFlight}
    /\ UNCHANGED <<form, saved, updates, downloads>>

ShowError ==
    /\ error' = TRUE
    /\ UNCHANGED <<step, form, downloading, downloaded, inFlight, saved,
                   updates, downloads>>

\* The summary has no next button.
next ==
    /\ step < 6
    /\ IF validateStep(step, form) THEN GoTo(step + 1) ELSE ShowError

back == step > 1 /\ GoTo(step - 1)

\* Mutant: every step but the last can be reached from the dots.
StepDot_AnyStep == \E n \in Steps \ {6} : n # step /\ GoTo(n)

StepDot == \E n \in Steps : n < step /\ GoTo(n)

--------------------------------------------------------------------------------
(* The summary *)

ClickDownload ==
    /\ step = 6
    /\ ~ downloading
    /\ downloads < MaxDownloads
    /\ downloads' = downloads + 1
    /\ downloading' = TRUE
    /\ inFlight' = inFlight \cup {[form |-> form, mounted |-> TRUE]}
    /\ UNCHANGED <<step, form, error, downloaded, saved, updates>>

\* generateAsync resolves and the browser saves the file.
DownloadEnds ==
    /\ \E d \in inFlight :
          /\ inFlight' = inFlight \ {d}
          /\ saved' = saved \cup {d.form}
          /\ downloading' = (downloading /\ ~ d.mounted)
          /\ downloaded' = (downloaded \/ d.mounted)
    /\ UNCHANGED <<step, form, error, updates, downloads>>

DownloadFails ==
    /\ \E d \in inFlight :
          /\ inFlight' = inFlight \ {d}
          /\ downloading' = (downloading /\ ~ d.mounted)
    /\ UNCHANGED <<step, form, error, downloaded, saved, updates, downloads>>

Next ==
    \/ Step1 \/ Step2 \/ Step3 \/ Step4 \/ Step5
    \/ next \/ back \/ StepDot
    \/ ClickDownload \/ DownloadEnds \/ DownloadFails

Spec == Init /\ [][Next]_vars

--------------------------------------------------------------------------------
(* Properties *)

\* The type of every variable; the lists never become empty, so that their first
\* entries, which the validation and the generators read, are there.
TypeOK ==
    /\ step \in Steps
    /\ form \in WizardState
    /\ Len(form.actions) \in 1 .. MaxActions
    /\ Len(form.approvers) > 0
    /\ error \in BOOLEAN /\ downloading \in BOOLEAN /\ downloaded \in BOOLEAN
    /\ inFlight \subseteq [form : WizardState, mounted : BOOLEAN]
    /\ saved \subseteq WizardState
    /\ updates \in Nat /\ downloads \in Nat

\* However the user goes forward and back and changes answers, every step before
\* the one shown is valid, and an error that is shown is one of the answers on
\* display (wizard.tsx:1202-1217, 1262).
NavigationIsValidated ==
    /\ \A n \in Steps : n < step => validateStep(n, form)
    /\ error => ~ validateStep(step, form)

\* "Download complete" is said of the answers on display: their package, not one
\* clicked for before they were changed, is among the saved files (wizard.tsx:989).
DownloadedIsCurrent == downloaded => step = 6 /\ form \in saved

\* The gate of a downloaded package releases nothing of its workflow without an
\* approval by a class that was chosen for an approver, whatever was declared not
\* consequential and whichever role names coincide (wizard.tsx:117-129).
PackagesRequireApproval ==
    \A f \in saved, r \in Probes :
        LET result == evaluate(GateFrom(EmptyConfig, generatePolicyJson(f)),
                               [r EXCEPT !.workflowClass = WorkflowClassOf(f)])
        IN  result # Threw /\ result.finalState = "ALLOW" =>
                /\ r.approvalArtifact \notin {Null, Absent}
                /\ r.approvalArtifact.approverAuthorityClass \in ChosenClasses(f)
================================================================================
