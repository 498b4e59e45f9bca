------------------------------ MODULE WizardProofs -----------------------------
(***************************************************************************)
(* Proofs about Wizard, for every set of texts and every bound.            *)
(***************************************************************************)
EXTENDS Wizard, GateChecksProofs, TLAPS

--------------------------------------------------------------------------------
(* The answers *)

\* The answers of a form that the pages can produce: no list is empty.
GoodForm(f) ==
    /\ f \in WizardState
    /\ Len(f.actions) \in 1 .. MaxActions
    /\ Len(f.approvers) > 0

\* Leaving out one of several entries leaves a list that is not empty.
LEMMA WithoutType ==
    ASSUME NEW S, NEW list \in Seq(S), Len(list) > 1, NEW i \in 1 .. Len(list)
    PROVE  /\ Without(list, i) \in Seq(S)
           /\ Len(Without(list, i)) = Len(list) - 1
  <1>1. Len(list) - 1 \in Nat
    OBVIOUS
  <1>2. \A k \in 1 .. (Len(list) - 1) :
            (IF k < i THEN list[k] ELSE list[k + 1]) \in S
    OBVIOUS
  <1>3. QED
    BY <1>1, <1>2 DEF Without

\* Appending an entry, and changing one, keeps the list a list.
LEMMA ListType ==
    ASSUME NEW S, NEW list \in Seq(S), NEW e \in S
    PROVE  /\ Append(list, e) \in Seq(S) /\ Len(Append(list, e)) = Len(list) + 1
           /\ \A i \in DOMAIN list :
                 [list EXCEPT ![i] = e] \in Seq(S) /\ Len([list EXCEPT ![i] = e]) = Len(list)
  OBVIOUS

\* Changing a member of an entry leaves an entry.
LEMMA EntryType ==
    /\ \A a \in Action, name \in ActionNames : [a EXCEPT !.name = name] \in Action
    /\ \A a \in Action : \A consequential \in BOOLEAN :
          [a EXCEPT !.consequential = consequential] \in Action
    /\ \A a \in Approver, name \in RoleNames :
          [a EXCEPT !.clientRoleName = name] \in Approver
    /\ \A a \in Approver, class \in AUTHORITY_CLASSES :
          [a EXCEPT !.authorityClass = class] \in Approver
  BY DEF Action, Approver

\* What a page other than n changes does not matter to the validation of n.
SameAnswers(n, f, g) ==
    /\ n = 1 => f.workflowName = g.workflowName /\ f.details = g.details
    /\ n = 2 => f.actions = g.actions
    /\ n = 3 => f.ai = g.ai
    /\ n = 4 => f.approvers = g.approvers
    /\ n = 5 => f.mode = g.mode

LEMMA SameValidation ==
    ASSUME NEW n \in Steps, NEW f, NEW g, SameAnswers(n, f, g)
    PROVE  validateStep(n, f) => validateStep(n, g)
  BY DEF SameAnswers, validateStep, Steps, Blank

\* Changing the answer of one page leaves a good form, and the answers of the others.
EditOf(n, f, new) ==
    /\ GoodForm(new)
    /\ \A m \in Steps : m # n => SameAnswers(m, f, new)

LEMMA Edits ==
    ASSUME NEW f, GoodForm(f)
    PROVE  /\ \A x \in WorkflowNames : EditOf(1, f, [f EXCEPT !.workflowName = x])
           /\ \A x \in BOOLEAN : EditOf(1, f, [f EXCEPT !.details = x])
           /\ \A x \in Seq(Action) :
                 Len(x) \in 1 .. MaxActions => EditOf(2, f, [f EXCEPT !.actions = x])
           /\ \A x \in BOOLEAN : EditOf(3, f, [f EXCEPT !.ai = x])
           /\ \A x \in Seq(Approver) :
                 Len(x) > 0 => EditOf(4, f, [f EXCEPT !.approvers = x])
           /\ \A x \in BOOLEAN : EditOf(5, f, [f EXCEPT !.mode = x])
  <1>1. ASSUME NEW x \in WorkflowNames
        PROVE  EditOf(1, f, [f EXCEPT !.workflowName = x])
    <2>1. GoodForm([f EXCEPT !.workflowName = x])
      BY <1>1 DEF GoodForm, WizardState
    <2>2. ASSUME NEW m \in Steps, m # 1
          PROVE  SameAnswers(m, f, [f EXCEPT !.workflowName = x])
      BY <2>2 DEF GoodForm, WizardState, SameAnswers, Steps
    <2>3. QED
      BY <2>1, <2>2 DEF EditOf
  <1>2. ASSUME NEW x \in BOOLEAN
        PROVE  EditOf(1, f, [f EXCEPT !.details = x])
    <2>1. GoodForm([f EXCEPT !.details = x])
      BY <1>2 DEF GoodForm, WizardState
    <2>2. ASSUME NEW m \in Steps, m # 1
          PROVE  SameAnswers(m, f, [f EXCEPT !.details = x])
      BY <2>2 DEF GoodForm, WizardState, SameAnswers, Steps
    <2>3. QED
      BY <2>1, <2>2 DEF EditOf
  <1>3. ASSUME NEW x \in Seq(Action), Len(x) \in 1 .. MaxActions
        PROVE  EditOf(2, f, [f EXCEPT !.actions = x])
    <2>1. GoodForm([f EXCEPT !.actions = x])
      BY <1>3 DEF GoodForm, WizardState
    <2>2. ASSUME NEW m \in Steps, m # 2
          PROVE  SameAnswers(m, f, [f EXCEPT !.actions = x])
      BY <2>2 DEF GoodForm, WizardState, SameAnswers, Steps
    <2>3. QED
      BY <2>1, <2>2 DEF EditOf
  <1>4. ASSUME NEW x \in BOOLEAN
        PROVE  EditOf(3, f, [f EXCEPT !.ai = x])
    <2>1. GoodForm([f EXCEPT !.ai = x])
      BY <1>4 DEF GoodForm, WizardState
    <2>2. ASSUME NEW m \in Steps, m # 3
          PROVE  SameAnswers(m, f, [f EXCEPT !.ai = x])
      BY <2>2 DEF GoodForm, WizardState, SameAnswers, Steps
    <2>3. QED
      BY <2>1, <2>2 DEF EditOf
  <1>5. ASSUME NEW x \in Seq(Approver), Len(x) > 0
        PROVE  EditOf(4, f, [f EXCEPT !.approvers = x])
    <2>1. GoodForm([f EXCEPT !.approvers = x])
      BY <1>5 DEF GoodForm, WizardState
    <2>2. ASSUME NEW m \in Steps, m # 4
          PROVE  SameAnswers(m, f, [f EXCEPT !.approvers = x])
      BY <2>2 DEF GoodForm, WizardState, SameAnswers, Steps
    <2>3. QED
      BY <2>1, <2>2 DEF EditOf
  <1>6. ASSUME NEW x \in BOOLEAN
        PROVE  EditOf(5, f, [f EXCEPT !.mode = x])
    <2>1. GoodForm([f EXCEPT !.mode = x])
      BY <1>6 DEF GoodForm, WizardState
    <2>2. ASSUME NEW m \in Steps, m # 5
          PROVE  SameAnswers(m, f, [f EXCEPT !.mode = x])
      BY <2>2 DEF GoodForm, WizardState, SameAnswers, Steps
    <2>3. QED
      BY <2>1, <2>2 DEF EditOf
  <1>7. QED
    BY <1>1, <1>2, <1>3, <1>4, <1>5, <1>6

\* A page changes the answers of its own step only, and leaves a good form.
LEMMA PageStep ==
    ASSUME GoodForm(form), step \in Steps,
           Step1 \/ Step2 \/ Step3 \/ Step4 \/ Step5
    PROVE  \E new : EditOf(step, form, new) /\ update(new)
  <1>1. CASE Step1
    BY <1>1, Edits DEF Step1
  <1>2. CASE Step2
    <2> DEFINE Changed(list) ==
            /\ list \in Seq(Action)
            /\ Len(list) \in 1 .. MaxActions
            /\ update([form EXCEPT !.actions = list])
    <2>1. \E list : Changed(list)
      <3>1. ASSUME NEW i \in DOMAIN form.actions, NEW name \in ActionNames,
                   update([form EXCEPT !.actions[i].name = name])
            PROVE  \E list : Changed(list)
        <4>1. [form.actions[i] EXCEPT !.name = name] \in Action
          BY EntryType DEF GoodForm, WizardState
        <4>2. Changed([form.actions EXCEPT ![i] = [form.actions[i] EXCEPT !.name = name]])
          BY <3>1, <4>1, ListType DEF GoodForm, WizardState
        <4>3. QED
          BY <4>2
      <3>2. ASSUME NEW i \in DOMAIN form.actions, NEW consequential \in BOOLEAN,
                   update([form EXCEPT !.actions[i].consequential = consequential])
            PROVE  \E list : Changed(list)
        <4>1. [form.actions[i] EXCEPT !.consequential = consequential] \in Action
          BY EntryType DEF GoodForm, WizardState
        <4>2. Changed([form.actions EXCEPT ![i] =
                          [form.actions[i] EXCEPT !.consequential = consequential]])
          BY <3>2, <4>1, ListType DEF GoodForm, WizardState
        <4>3. QED
          BY <4>2
      <3>3. CASE /\ Len(form.actions) < MaxActions
                 /\ update([form EXCEPT !.actions = Append(@, NewAction)])
        <4>1. NewAction \in Action
          BY TextsAssumption DEF NewAction, Action
        <4>2. Changed(Append(form.actions, NewAction))
          BY <3>3, <4>1, ListType, WizardBounds DEF GoodForm, WizardState
        <4>3. QED
          BY <4>2
      <3>4. ASSUME Len(form.actions) > 1, NEW i \in DOMAIN form.actions,
                   update([form EXCEPT !.actions = Without(@, i)])
            PROVE  \E list : Changed(list)
        <4>1. form.actions \in Seq(Action) /\ i \in 1 .. Len(form.actions)
          BY <3>4 DEF GoodForm, WizardState
        <4>2. Changed(Without(form.actions, i))
          BY <3>4, <4>1, WithoutType, WizardBounds DEF GoodForm, WizardState
        <4>3. QED
          BY <4>2
      <3>5. QED
        BY <1>2, <3>1, <3>2, <3>3, <3>4 DEF Step2
    <2>2. PICK list : Changed(list)
      BY <2>1
    <2>3. QED
      BY <1>2, <2>2, Edits DEF Step2
  <1>3. CASE Step3
    BY <1>3, Edits DEF Step3
  <1>4. CASE Step4
    <2> DEFINE Changed(list) ==
            /\ list \in Seq(Approver)
            /\ Len(list) > 0
            /\ update([form EXCEPT !.approvers = list])
    <2>1. \E list : Changed(list)
      <3>1. ASSUME NEW i \in DOMAIN form.approvers, NEW name \in RoleNames,
                   update([form EXCEPT !.approvers[i].clientRoleName = name])
            PROVE  \E list : Changed(list)
        <4>1. [form.approvers[i] EXCEPT !.clientRoleName = name] \in Approver
          BY EntryType DEF GoodForm, WizardState
        <4>2. Changed([form.approvers EXCEPT ![i] =
                          [form.approvers[i] EXCEPT !.clientRoleName = name]])
          BY <3>1, <4>1, ListType DEF GoodForm, WizardState
        <4>3. QED
          BY <4>2
      <3>2. ASSUME NEW i \in DOMAIN form.approvers, NEW class \in AUTHORITY_CLASSES,
                   update([form EXCEPT !.approvers[i].authorityClass = class])
            PROVE  \E list : Changed(list)
        <4>1. [form.approvers[i] EXCEPT !.authorityClass = class] \in Approver
          BY EntryType DEF GoodForm, WizardState
        <4>2. Changed([form.approvers EXCEPT ![i] =
                          [form.approvers[i] EXCEPT !.authorityClass = class]])
          BY <3>2, <4>1, ListType DEF GoodForm, WizardState
        <4>3. QED
          BY <4>2
      <3>3. CASE update([form EXCEPT !.approvers = Append(@, NewApprover)])
        <4>1. NewApprover \in Approver
          BY TextsAssumption DEF NewApprover, Approver
        <4>2. Changed(Append(form.approvers, NewApprover))
          BY <3>3, <4>1, ListType DEF GoodForm, WizardState
        <4>3. QED
          BY <4>2
      <3>4. ASSUME Len(form.approvers) > 1, NEW i \in DOMAIN form.approvers,
                   update([form EXCEPT !.approvers = Without(@, i)])
            PROVE  \E list : Changed(list)
        <4>1. form.approvers \in Seq(Approver) /\ i \in 1 .. Len(form.approvers)
          BY <3>4 DEF GoodForm, WizardState
        <4>2. Changed(Without(form.approvers, i))
          BY <3>4, <4>1, WithoutType DEF GoodForm, WizardState
        <4>3. QED
          BY <4>2
      <3>5. QED
        BY <1>4, <3>1, <3>2, <3>3, <3>4 DEF Step4
    <2>2. PICK list : Changed(list)
      BY <2>1
    <2>3. QED
      BY <1>4, <2>2, Edits DEF Step4
  <1>5. CASE Step5
    BY <1>5, Edits DEF Step5
  <1>6. QED
    BY <1>1, <1>2, <1>3, <1>4, <1>5

--------------------------------------------------------------------------------
(* Type correctness *)

LEMMA InitType == Init => TypeOK
  <1>1. NewAction \in Action /\ NewApprover \in Approver
    BY TextsAssumption DEF NewAction, Action, NewApprover, Approver
  <1>2. <<NewAction>> \in Seq(Action) /\ <<NewApprover>> \in Seq(Approver)
    BY <1>1
  <1>3. INITIAL_STATE \in WizardState
    BY <1>2, TextsAssumption DEF INITIAL_STATE, WizardState
  <1>4. Len(INITIAL_STATE.actions) = 1 /\ Len(INITIAL_STATE.approvers) = 1
    BY DEF INITIAL_STATE
  <1>5. QED
    <2>1. ASSUME Init
          PROVE  TypeOK
      <3>1. /\ form \in WizardState
            /\ Len(form.actions) = 1 /\ Len(form.approvers) = 1
        BY <1>3, <1>4, <2>1 DEF Init
      <3>2. Len(form.actions) \in 1 .. MaxActions /\ Len(form.approvers) > 0
        BY <3>1, WizardBounds
      <3>3. /\ step \in Steps /\ updates \in Nat /\ downloads \in Nat
        BY <2>1 DEF Init, Steps
      <3>4. /\ error \in BOOLEAN /\ downloading \in BOOLEAN /\ downloaded \in BOOLEAN
            /\ inFlight = {} /\ saved = {}
        BY <2>1 DEF Init
      <3>5. QED
        BY <3>1, <3>2, <3>3, <3>4 DEF TypeOK
    <2>2. QED
      BY <2>1

LEMMA StepType == TypeOK /\ [Next]_vars => TypeOK'
  <1> SUFFICES ASSUME TypeOK, [Next]_vars PROVE TypeOK'
    OBVIOUS
  <1>1. CASE Step1 \/ Step2 \/ Step3 \/ Step4 \/ Step5
    <2>1. GoodForm(form)
      BY DEF TypeOK, GoodForm
    <2>2. PICK new : EditOf(step, form, new) /\ update(new)
      BY <1>1, <2>1, PageStep DEF TypeOK
    <2>3. /\ GoodForm(form') /\ updates' = updates + 1 /\ error' = FALSE
          /\ UNCHANGED <<step, downloading, downloaded, inFlight, saved, downloads>>
      BY <2>2 DEF EditOf, update
    <2>4. updates' \in Nat
      BY <2>3 DEF TypeOK
    <2>5. error' \in BOOLEAN /\ downloading' \in BOOLEAN /\ downloaded' \in BOOLEAN
      BY <2>3 DEF TypeOK
    <2>6. /\ step' \in Steps /\ downloads' \in Nat
          /\ inFlight' \subseteq [form : WizardState, mounted : BOOLEAN]
          /\ saved' \subseteq WizardState
      BY <2>3 DEF TypeOK
    <2>7. QED
      BY <2>3, <2>4, <2>5, <2>6 DEF TypeOK, GoodForm
  <1>2. ASSUME NEW n \in Steps, GoTo(n)
        PROVE  TypeOK'
    BY <1>2 DEF TypeOK, GoTo
  <1>3. CASE next
    <2>1. step + 1 \in Steps
      BY <1>3 DEF next, TypeOK, Steps
    <2>2. CASE GoTo(step + 1)
      BY <1>2, <2>1, <2>2
    <2>3. CASE ShowError
      BY <2>3 DEF ShowError, TypeOK
    <2>4. QED
      BY <1>3, <2>2, <2>3 DEF next
  <1>4. CASE back
    <2>1. step - 1 \in Steps
      BY <1>4 DEF back, TypeOK, Steps
    <2>2. QED
      BY <1>2, <1>4, <2>1 DEF back
  <1>5. CASE StepDot
    BY <1>2, <1>5 DEF StepDot
  <1>6. CASE ClickDownload
    <2>1. [form |-> form, mounted |-> TRUE] \in [form : WizardState, mounted : BOOLEAN]
      BY DEF TypeOK
    <2>2. downloads' \in Nat
      BY <1>6 DEF ClickDownload, TypeOK
    <2>3. /\ error' \in BOOLEAN /\ downloading' \in BOOLEAN /\ downloaded' \in BOOLEAN
      BY <1>6 DEF ClickDownload, TypeOK
    <2>4. inFlight' \subseteq [form : WizardState, mounted : BOOLEAN]
      BY <1>6, <2>1 DEF ClickDownload, TypeOK
    <2>5. UNCHANGED <<step, form, updates, saved>>
      BY <1>6 DEF ClickDownload
    <2>6. QED
      BY <2>2, <2>3, <2>4, <2>5 DEF TypeOK
  <1>7. CASE DownloadEnds
    <2>1. PICK d \in inFlight :
              /\ inFlight' = inFlight \ {d}
              /\ saved' = saved \cup {d.form}
              /\ downloading' = (downloading /\ ~ d.mounted)
              /\ downloaded' = (downloaded \/ d.mounted)
      BY <1>7 DEF DownloadEnds
    <2>2. d.form \in WizardState /\ d.mounted \in BOOLEAN
      BY DEF TypeOK
    <2>3. QED
      BY <1>7, <2>1, <2>2 DEF DownloadEnds, TypeOK
  <1>8. CASE DownloadFails
    BY <1>8 DEF DownloadFails, TypeOK
  <1>9. CASE UNCHANGED vars
    BY <1>9 DEF vars, TypeOK
  <1>10. QED
    BY <1>1, <1>3, <1>4, <1>5, <1>6, <1>7, <1>8, <1>9 DEF Next

\* Every variable keeps its type, and no list of the form becomes empty.
THEOREM WizardTypeCorrect == Spec => []TypeOK
  BY InitType, StepType, PTL DEF Spec

--------------------------------------------------------------------------------
(* Navigation *)

LEMMA NavigationStep ==
    TypeOK /\ NavigationIsValidated /\ [Next]_vars => NavigationIsValidated'
  <1> SUFFICES ASSUME TypeOK, NavigationIsValidated, [Next]_vars
               PROVE  NavigationIsValidated'
    OBVIOUS
  <1>1. CASE Step1 \/ Step2 \/ Step3 \/ Step4 \/ Step5
    <2>1. /\ step \in Steps /\ step' = step /\ error' = FALSE
          /\ \A n \in Steps : n # step => SameAnswers(n, form, form')
      BY <1>1, PageStep DEF TypeOK, GoodForm, EditOf, update
    <2>2. ASSUME NEW n \in Steps, n < step'
          PROVE  validateStep(n, form')
      <3>1. n # step /\ validateStep(n, form)
        BY <2>1, <2>2 DEF NavigationIsValidated, Steps
      <3>2. QED
        BY <2>1, <3>1, SameValidation
    <2>3. QED
      BY <2>1, <2>2 DEF NavigationIsValidated
  <1>2. ASSUME NEW n \in Steps, GoTo(n),
               \A m \in Steps : m < n => validateStep(m, form)
        PROVE  NavigationIsValidated'
    <2>1. step' = n /\ error' = FALSE /\ form' = form
      BY <1>2 DEF GoTo
    <2>2. QED
      BY <1>2, <2>1 DEF NavigationIsValidated
  <1>3. CASE next
    <2>1. step + 1 \in Steps
      BY <1>3 DEF next, TypeOK, Steps
    <2>2. CASE validateStep(step, form)
      <3>1. \A m \in Steps : m < step + 1 => validateStep(m, form)
        BY <2>2 DEF NavigationIsValidated, TypeOK, Steps
      <3>2. GoTo(step + 1)
        BY <1>3, <2>2 DEF next
      <3>3. QED
        BY <1>2, <2>1, <3>1, <3>2
    <2>3. CASE ~ validateStep(step, form)
      BY <1>3, <2>3 DEF next, ShowError, NavigationIsValidated
    <2>4. QED
      BY <2>2, <2>3
  <1>4. ASSUME NEW n \in Steps, n < step, GoTo(n)
        PROVE  NavigationIsValidated'
    <2>1. \A m \in Steps : m < n => validateStep(m, form)
      BY <1>4 DEF NavigationIsValidated, TypeOK, Steps
    <2>2. QED
      BY <1>2, <1>4, <2>1
  <1>5. CASE back \/ StepDot
    <2>1. \E n \in Steps : n < step /\ GoTo(n)
      <3>1. CASE back
        BY <3>1 DEF back, TypeOK, Steps
      <3>2. CASE StepDot
        BY <3>2 DEF StepDot
      <3>3. QED
        BY <1>5, <3>1, <3>2
    <2>2. QED
      BY <1>4, <2>1
  <1>6. CASE UNCHANGED <<step, form, error>>
    BY <1>6 DEF NavigationIsValidated
  <1>7. QED
    BY <1>1, <1>3, <1>5, <1>6
    DEF Next, ClickDownload, DownloadEnds, DownloadFails, vars

\* However the user goes back and forth, every step before the one that is shown
\* is valid, so that the summary and its package never have an answer missing.
THEOREM NavigationValidates == Spec => []NavigationIsValidated
  <1>1. Init => NavigationIsValidated
    BY DEF Init, NavigationIsValidated, Steps
  <1>2. QED
    BY <1>1, InitType, StepType, NavigationStep, PTL DEF Spec

--------------------------------------------------------------------------------
(* Downloads *)

\* A download that still has its summary is of the answers on display.
MountedIsCurrent == \A d \in inFlight : d.mounted => step = 6 /\ d.form = form

LEMMA DownloadStep ==
    TypeOK /\ MountedIsCurrent /\ DownloadedIsCurrent /\ [Next]_vars
        => MountedIsCurrent' /\ DownloadedIsCurrent'
  <1> SUFFICES ASSUME TypeOK, MountedIsCurrent, DownloadedIsCurrent, [Next]_vars
               PROVE  MountedIsCurrent' /\ DownloadedIsCurrent'
    OBVIOUS
  <1>1. CASE Step1 \/ Step2 \/ Step3 \/ Step4 \/ Step5
    <2>1. step # 6
      BY <1>1 DEF Step1, Step2, Step3, Step4, Step5
    <2>2. ~ downloaded /\ \A d \in inFlight : ~ d.mounted
      BY <2>1 DEF MountedIsCurrent, DownloadedIsCurrent
    <2>3. PICK new : update(new)
      BY <1>1, PageStep DEF TypeOK, GoodForm
    <2>4. UNCHANGED <<downloaded, inFlight>>
      BY <2>3 DEF update
    <2>5. QED
      BY <2>2, <2>4 DEF MountedIsCurrent, DownloadedIsCurrent
  <1>2. ASSUME NEW n, GoTo(n)
        PROVE  MountedIsCurrent' /\ DownloadedIsCurrent'
    <2>1. downloaded' = FALSE /\ \A d \in inFlight' : d.mounted = FALSE
      BY <1>2 DEF GoTo, TypeOK
    <2>2. QED
      BY <2>1 DEF MountedIsCurrent, DownloadedIsCurrent
  <1>3. CASE next \/ back \/ StepDot
    <2>1. CASE \E n : GoTo(n)
      BY <1>2, <2>1
    <2>2. CASE ShowError
      BY <2>2 DEF ShowError, MountedIsCurrent, DownloadedIsCurrent
    <2>3. QED
      BY <1>3, <2>1, <2>2 DEF next, back, StepDot
  <1>4. CASE ClickDownload
    BY <1>4 DEF ClickDownload, MountedIsCurrent, DownloadedIsCurrent
  <1>5. CASE DownloadEnds
    <2>1. PICK d \in inFlight :
              /\ inFlight' = inFlight \ {d}
              /\ saved' = saved \cup {d.form}
              /\ downloaded' = (downloaded \/ d.mounted)
      BY <1>5 DEF DownloadEnds
    <2>2. UNCHANGED <<step, form>>
      BY <1>5 DEF DownloadEnds
    <2>3. MountedIsCurrent'
      BY <2>1, <2>2 DEF MountedIsCurrent
    <2>4. DownloadedIsCurrent'
      BY <2>1, <2>2 DEF MountedIsCurrent, DownloadedIsCurrent
    <2>5. QED
      BY <2>3, <2>4
  <1>6. CASE DownloadFails
    BY <1>6 DEF DownloadFails, MountedIsCurrent, DownloadedIsCurrent
  <1>7. CASE UNCHANGED vars
    BY <1>7 DEF vars, MountedIsCurrent, DownloadedIsCurrent
  <1>8. QED
    BY <1>1, <1>3, <1>4, <1>5, <1>6, <1>7 DEF Next

\* A download that is reported as complete is one of the answers on display,
\* however slowly packages are built and whatever is changed meanwhile.
THEOREM DownloadsAreCurrent == Spec => []DownloadedIsCurrent
  <1>1. Init => MountedIsCurrent /\ DownloadedIsCurrent
    BY DEF Init, MountedIsCurrent, DownloadedIsCurrent
  <1>2. QED
    BY <1>1, InitType, StepType, DownloadStep, PTL DEF Spec

--------------------------------------------------------------------------------
(* The gates of the packages *)

\* A set of places in a list that is not empty has a last one.
LEMMA LastExists ==
    ASSUME NEW n \in Nat, NEW S \in SUBSET (1 .. n), S # {}
    PROVE  Last(S) \in S
  BY GreatestExists DEF Last

\* The chosen classes are classes of the core.
LEMMA ChosenAreClasses ==
    ASSUME NEW f, GoodForm(f), NEW i \in Chosen(f)
    PROVE  f.approvers[i].authorityClass \in AUTHORITY_CLASSES
  <1>1. f.approvers[i] \in Approver
    <2>1. i \in DOMAIN f.approvers
      BY DEF Chosen
    <2>2. f.approvers \in Seq(Approver)
      BY DEF GoodForm, WizardState
    <2>3. PICK list \in Seq(Approver) : list = f.approvers /\ i \in DOMAIN list
      BY <2>1, <2>2
    <2>4. list[i] \in Approver
      BY <2>3, ElementOfSeq, LenProperties
    <2>5. QED
      BY <2>3, <2>4
  <1>2. f.approvers[i].authorityClass \in AUTHORITY_CLASSES \cup {""}
    BY <1>1 DEF Approver
  <1>3. f.approvers[i].authorityClass # ""
    BY Zenon DEF Chosen
  <1>4. QED
    BY <1>2, <1>3, Zenon

\* The gate asks in the workflow for an approval of a chosen class.
GuardsWorkflow(f, g, w) ==
    /\ w \in WorkflowLabels
    /\ g \in GateType
    /\ g.approvalChains[w] = ChosenClasses(f)
    /\ g.approvalChains[w] # {} /\ g.approvalChains[w] # Absent

\* The gate of a package whose first approver has a class: the chain of its
\* workflow are the chosen classes, so that it requires an approval.
LEMMA PackageGate ==
    ASSUME NEW f, GoodForm(f), 1 \in Chosen(f),
           NEW g, g = GateFrom(EmptyConfig, generatePolicyJson(f)),
           NEW w, w = WorkflowClassOf(f)
    PROVE  GuardsWorkflow(f, g, w)
  <1>1. w \in WorkflowLabels
    BY TextsAssumption DEF WorkflowClassOf, toSnakeCase, GoodForm, WizardState
  <1>2. PICK n \in Nat : n = Len(f.approvers) /\ DOMAIN f.approvers = 1 .. n /\ n > 0
    BY LenProperties DEF GoodForm, WizardState
  <1>3. Chosen(f) \subseteq DOMAIN f.approvers
    BY DEF Chosen
  <1>4. 1 \in Chosen(f) /\ Chosen(f) \subseteq 1 .. n
    BY <1>2, <1>3
  <1>5. AUTHORITY_CLASSES \subseteq AuthorityLabels
    BY LabelsAssumption DEF AUTHORITY_CLASSES, CoreAuthorityClasses
  <1>6. \A i \in Chosen(f) : f.approvers[i].authorityClass \in AuthorityLabels
    BY <1>5, ChosenAreClasses
  <1>7. ChosenClasses(f) \in SUBSET AuthorityLabels /\ ChosenClasses(f) # {}
    BY <1>4, <1>6 DEF ChosenClasses
  <1>8. PICK policy : policy = generatePolicyJson(f)
    OBVIOUS
  <1>9. PICK mapping : mapping = [role \in AuthorityLabels |->
                          IF {i \in Chosen(f) : f.approvers[i].clientRoleName = role} = {}
                          THEN Absent
                          ELSE f.approvers[Last({i \in Chosen(f) :
                                  f.approvers[i].clientRoleName = role})].authorityClass]
    OBVIOUS
  <1>10. mapping \in Dictionary(AuthorityLabels, AuthorityLabels)
    <2>1. ASSUME NEW role \in AuthorityLabels,
                 {i \in Chosen(f) : f.approvers[i].clientRoleName = role} # {}
          PROVE  f.approvers[Last({i \in Chosen(f) :
                     f.approvers[i].clientRoleName = role})].authorityClass \in AuthorityLabels
      <3>1. PICK S : S = {i \in Chosen(f) : f.approvers[i].clientRoleName = role}
        OBVIOUS
      <3>2. S \in SUBSET (1 .. n) /\ S # {} /\ S \subseteq Chosen(f)
        BY <1>4, <2>1, <3>1
      <3>3. Last(S) \in Chosen(f)
        BY <3>2, LastExists
      <3>4. QED
        BY <1>6, <3>1, <3>3
    <2>2. QED
      BY <1>9, <2>1 DEF Dictionary
  <1>11. PICK behaviours :
             behaviours =
                [action \in ActionLabels |->
                    LET named == {i \in DOMAIN f.actions :
                                     /\ f.actions[i].name # ""
                                     /\ toSnakeCase(f.actions[i].name) = action}
                    IN  IF named = {} THEN Absent
                        ELSE IF f.actions[Last(named)].consequential
                        THEN "requires_approval" ELSE "auto_allow"]
    OBVIOUS
  <1>12. behaviours \in Dictionary(ActionLabels, PolicyActionBehavior)
    BY <1>11 DEF Dictionary, PolicyActionBehavior
  <1>13. policy = [EmptyPolicy EXCEPT
                     !.actorMappings = mapping,
                     !.workflowRules = <<[workflowClass |-> w, requiresApproval |-> TRUE]>>,
                     !.approvalChains[w] = ChosenClasses(f),
                     !.actionPolicies[w] = behaviours]
    BY <1>4, <1>8, <1>9, <1>11, Zenon DEF generatePolicyJson
  <1>14. /\ policy.actorMappings = mapping
         /\ policy.workflowRules = <<[workflowClass |-> w, requiresApproval |-> TRUE]>>
         /\ policy.approvalChains = [EmptyPolicy.approvalChains EXCEPT ![w] = ChosenClasses(f)]
         /\ policy.actionPolicies = [EmptyPolicy.actionPolicies EXCEPT ![w] = behaviours]
    BY <1>13 DEF EmptyPolicy
  <1>15. /\ EmptyPolicy.approvalChains = [workflow \in WorkflowLabels |-> Absent]
         /\ EmptyPolicy.actionPolicies =
                [workflow \in WorkflowLabels |-> [action \in ActionLabels |-> Absent]]
    BY DEF EmptyPolicy
  <1>16. /\ policy.approvalChains \in Dictionary(WorkflowLabels, SUBSET AuthorityLabels)
         /\ policy.approvalChains[w] = ChosenClasses(f)
    <2>1. PICK empty : empty = [workflow \in WorkflowLabels |-> Absent]
      OBVIOUS
    <2>2. policy.approvalChains = [empty EXCEPT ![w] = ChosenClasses(f)]
      BY <1>14, <1>15, <2>1
    <2>3. empty \in [WorkflowLabels -> (SUBSET AuthorityLabels) \cup {Absent}]
      BY <2>1
    <2>4. /\ policy.approvalChains \in [WorkflowLabels -> (SUBSET AuthorityLabels) \cup {Absent}]
          /\ policy.approvalChains[w] = ChosenClasses(f)
      BY <1>1, <1>7, <2>2, <2>3
    <2>5. QED
      BY <2>4 DEF Dictionary
  <1>17. policy.actionPolicies \in
             [WorkflowLabels -> Dictionary(ActionLabels, PolicyActionBehavior)]
    <2>1. PICK D : D = Dictionary(ActionLabels, PolicyActionBehavior)
      OBVIOUS
    <2>2. PICK none : none = [action \in ActionLabels |-> Absent]
      OBVIOUS
    <2>3. none \in D /\ behaviours \in D
      BY <1>12, <2>1, <2>2 DEF Dictionary
    <2>4. policy.actionPolicies =
              [[workflow \in WorkflowLabels |-> none] EXCEPT ![w] = behaviours]
      BY <1>14, <1>15, <2>2
    <2>5. policy.actionPolicies \in [WorkflowLabels -> D]
      BY <1>1, <2>3, <2>4
    <2>6. QED
      BY <2>1, <2>5
  <1>18. PICK rule : rule = [workflowClass |-> w, requiresApproval |-> TRUE]
    OBVIOUS
  <1>19. rule \in WorkflowRule /\ rule.workflowClass = w /\ rule.requiresApproval
    BY <1>1, <1>18 DEF WorkflowRule
  <1>20. PICK rules : rules = <<rule>>
    OBVIOUS
  <1>21. rules \in Seq(WorkflowRule) /\ DOMAIN rules = 1 .. 1 /\ rules[1] = rule
    <2>1. rules \in Seq(WorkflowRule) /\ Len(rules) = 1
      BY <1>19, <1>20
    <2>2. rules[1] = rule
      BY <1>20
    <2>3. DOMAIN rules = 1 .. 1
      BY <2>1, LenProperties
    <2>4. QED
      BY <2>1, <2>2, <2>3
  <1>22. policy.workflowRules = rules
    BY <1>14, <1>18, <1>20
  <1>23. /\ g.extendedClasses = {} /\ g.extendedActions = {}
         /\ g = [extendedClasses |-> g.extendedClasses, extendedActions |-> g.extendedActions,
                  actorMappings   |-> policy.actorMappings,
                  workflowRules   |-> policy.workflowRules,
                  approvalChains  |-> policy.approvalChains,
                  actionPolicies  |-> policy.actionPolicies]
    BY <1>8 DEF GateFrom, EmptyConfig
  <1>24. /\ g.actorMappings = mapping /\ g.workflowRules = rules
         /\ g.approvalChains = policy.approvalChains
         /\ g.actionPolicies = policy.actionPolicies
    <2>1. /\ g.actorMappings = policy.actorMappings
          /\ g.workflowRules = policy.workflowRules
          /\ g.approvalChains = policy.approvalChains
          /\ g.actionPolicies = policy.actionPolicies
      BY <1>23
    <2>2. policy.actorMappings = mapping
      BY <1>14
    <2>3. QED
      BY <1>22, <2>1, <2>2
  <1>25. g \in GateType
    <2>1. g = [extendedClasses |-> g.extendedClasses, extendedActions |-> g.extendedActions,
               actorMappings   |-> g.actorMappings,
               workflowRules   |-> g.workflowRules,
               approvalChains  |-> g.approvalChains,
               actionPolicies  |-> g.actionPolicies]
      BY <1>14, <1>22, <1>23, <1>24
    <2>2. /\ g.extendedClasses \in SUBSET AuthorityLabels
          /\ g.extendedActions \in SUBSET ActionLabels
      BY <1>23
    <2>3. /\ g.actorMappings \in Dictionary(AuthorityLabels, AuthorityLabels)
          /\ g.workflowRules \in Seq(WorkflowRule)
          /\ g.approvalChains \in Dictionary(WorkflowLabels, SUBSET AuthorityLabels)
          /\ g.actionPolicies \in [WorkflowLabels -> Dictionary(ActionLabels, PolicyActionBehavior)]
      BY <1>10, <1>16, <1>17, <1>21, <1>24
    <2>4. QED
      BY <2>1, <2>2, <2>3 DEF GateType
  <1>26. ChosenClasses(f) # Absent
    BY <1>7, NullAssumption
  <1>27. g.approvalChains[w] = ChosenClasses(f)
    BY <1>16, <1>24
  <1>28. QED
    BY <1>1, <1>7, <1>25, <1>26, <1>27 DEF GuardsWorkflow

\* What such a gate releases of the workflow has an approval of a chosen class.
LEMMA PackageReleases ==
    ASSUME NEW f, GoodForm(f), 1 \in Chosen(f),
           NEW r \in GovernedRequestType,
           NEW g, g = GateFrom(EmptyConfig, generatePolicyJson(f)),
           NEW q, q = [r EXCEPT !.workflowClass = WorkflowClassOf(f)],
           evaluate(g, q) # Threw, evaluate(g, q).finalState = "ALLOW"
    PROVE  /\ r.approvalArtifact \notin {Null, Absent}
           /\ r.approvalArtifact.approverAuthorityClass \in ChosenClasses(f)
  <1>1. PICK w : w = WorkflowClassOf(f)
    OBVIOUS
  <1>2. /\ w \in WorkflowLabels /\ g \in GateType
        /\ g.approvalChains[w] = ChosenClasses(f)
        /\ g.approvalChains[w] # {} /\ g.approvalChains[w] # Absent
    <2>1. GuardsWorkflow(f, g, w)
      BY <1>1, PackageGate
    <2>2. QED
      BY <2>1 DEF GuardsWorkflow
  <1>3. q \in GovernedRequestType /\ q.workflowClass = w
        /\ q.approvalArtifact = r.approvalArtifact
    BY <1>1, <1>2 DEF GovernedRequestType
  <1>4. MayRelease(g, q)
    <2>1. Answers(g, q, evaluate(g, q))
      BY <1>2, <1>3, EvaluateAnswers
    <2>2. Verdict(g, q, evaluate(g, q).finalState, evaluate(g, q).reason)
      BY <2>1 DEF Answers
    <2>3. QED
      BY <2>2, VerdictsDiffer
  <1>5. ApprovalNeeded(g, q)
    BY <1>2, <1>3 DEF ApprovalNeeded, Keys, GateType, Dictionary
  <1>6. \A reason \in ReasonCodes : ~ StandsAgainst(g, q, reason)
    BY <1>4 DEF MayRelease
  <1>7. /\ ~ StandsAgainst(g, q, "MALFORMED_REQUEST")
        /\ ~ StandsAgainst(g, q, "REQUIRED_APPROVAL_MISSING")
        /\ ~ StandsAgainst(g, q, "INVALID_APPROVAL_AUTHORITY")
    BY <1>6 DEF ReasonCodes
  <1>8. q.approvalArtifact # Null
    BY <1>5, <1>7 DEF StandsAgainst
  <1>9. q.approvalArtifact # Absent
    BY <1>5, <1>7 DEF StandsAgainst, DataMissing
  <1>10. MayApprove(g, q, q.approvalArtifact.approverAuthorityClass)
    BY <1>5, <1>7, <1>8, <1>9 DEF StandsAgainst, ApprovalGiven
  <1>11. w \in Keys(g.approvalChains)
    BY <1>2 DEF Keys, GateType, Dictionary
  <1>12. q.approvalArtifact.approverAuthorityClass \in g.approvalChains[w]
    BY <1>2, <1>3, <1>10, <1>11 DEF MayApprove
  <1>13. QED
    BY <1>2, <1>3, <1>8, <1>9, <1>12

\* What is downloaded, and what is on its way, passed the fourth step.
PackagesChecked ==
    /\ \A f \in saved : GoodForm(f) /\ validateStep(4, f)
    /\ \A d \in inFlight : GoodForm(d.form) /\ validateStep(4, d.form)

LEMMA PackagesStep ==
    TypeOK /\ NavigationIsValidated /\ PackagesChecked /\ [Next]_vars => PackagesChecked'
  <1> SUFFICES ASSUME TypeOK, NavigationIsValidated, PackagesChecked, [Next]_vars
               PROVE  PackagesChecked'
    OBVIOUS
  <1>1. CASE Step1 \/ Step2 \/ Step3 \/ Step4 \/ Step5
    <2>1. PICK new : update(new)
      BY <1>1, PageStep DEF TypeOK, GoodForm
    <2>2. UNCHANGED <<saved, inFlight>>
      BY <2>1 DEF update
    <2>3. QED
      BY <2>2 DEF PackagesChecked
  <1>2. ASSUME NEW n, GoTo(n)
        PROVE  PackagesChecked'
    <2>1. saved' = saved /\ \A d \in inFlight' : \E e \in inFlight : d.form = e.form
      BY <1>2 DEF GoTo, TypeOK
    <2>2. QED
      BY <2>1 DEF PackagesChecked
  <1>3. CASE next \/ back \/ StepDot
    <2>1. CASE \E n : GoTo(n)
      BY <1>2, <2>1
    <2>2. CASE ShowError
      BY <2>2 DEF ShowError, PackagesChecked
    <2>3. QED
      BY <1>3, <2>1, <2>2 DEF next, back, StepDot
  <1>4. CASE ClickDownload
    <2>1. GoodForm(form)
      BY DEF TypeOK, GoodForm
    <2>2. validateStep(4, form)
      BY <1>4 DEF ClickDownload, NavigationIsValidated, Steps
    <2>3. QED
      BY <1>4, <2>1, <2>2 DEF ClickDownload, PackagesChecked
  <1>5. CASE DownloadEnds
    BY <1>5 DEF DownloadEnds, PackagesChecked
  <1>6. CASE DownloadFails
    BY <1>6 DEF DownloadFails, PackagesChecked
  <1>7. CASE UNCHANGED vars
    BY <1>7 DEF vars, PackagesChecked
  <1>8. QED
    BY <1>1, <1>3, <1>4, <1>5, <1>6, <1>7 DEF Next

\* The gate of a downloaded package releases nothing of its workflow without an
\* approval by a class that was chosen for an approver, whatever was typed,
\* declared not consequential or entered twice (wizard.tsx:117-129).
THEOREM PackagesAreGuarded == Spec => []PackagesRequireApproval
  <1>1. Init => NavigationIsValidated /\ PackagesChecked
    BY DEF Init, NavigationIsValidated, PackagesChecked, Steps
  <1>2. ASSUME PackagesChecked PROVE PackagesRequireApproval
    <2>1. ASSUME NEW f \in saved, NEW r \in Probes,
                 NEW result,
                 result = evaluate(GateFrom(EmptyConfig, generatePolicyJson(f)),
                                   [r EXCEPT !.workflowClass = WorkflowClassOf(f)]),
                 result # Threw, result.finalState = "ALLOW"
          PROVE  /\ r.approvalArtifact \notin {Null, Absent}
                 /\ r.approvalArtifact.approverAuthorityClass \in ChosenClasses(f)
      <3>1. GoodForm(f) /\ 1 \in Chosen(f)
        <4>1. GoodForm(f)
          BY <1>2 DEF PackagesChecked
        <4>2. f.approvers[1].authorityClass # ""
          BY <1>2, Zenon DEF PackagesChecked, validateStep
        <4>3. DOMAIN f.approvers = 1 .. Len(f.approvers) /\ Len(f.approvers) \in Nat
          BY <4>1, LenProperties DEF GoodForm, WizardState
        <4>4. 1 \in DOMAIN f.approvers
          BY <4>1, <4>3 DEF GoodForm
        <4>5. QED
          BY <4>1, <4>2, <4>4, Zenon DEF Chosen
      <3>2. r \in GovernedRequestType
        BY ProbesAssumption
      <3>3. QED
        BY <2>1, <3>1, <3>2, PackageReleases
    <2>2. QED
      BY <2>1 DEF PackagesRequireApproval
  <1>3. QED
    BY <1>1, <1>2, InitType, StepType, NavigationStep, PackagesStep, PTL DEF Spec
================================================================================
