--------------------------- MODULE AppWizardProofs ---------------------------
(* The wizard's review and its result, for any operators and number of attempts.    *)
EXTENDS AppWizard, FiniteSetTheorems, SequenceTheorems, TLAPS

\* A run holds the page on its last step, so that the form it signed from is the form
\* that is still there when its group is linked.
RunOK ==
    /\ attempt.pc # "idle" => step = "deploy"
    /\ attempt.pc = "create" => Len(apps) < MaxApps
    /\ attempt.pc \notin {"idle", "create"} => attempt.app \in DOMAIN apps
    /\ attempt.pc = "attach" => attempt.existingGroup
    /\ attempt.pc \in {"deploy", "issuers"} =>
          apps[attempt.app].nodes = selected /\ apps[attempt.app].threshold = threshold
    /\ attempt.pc = "issuers" => apps[attempt.app].group = "linked"
    /\ attempt.pc \in {"sign", "deploy", "issuers"} => ~attempt.existingGroup
    /\ (attempt.pc # "idle" /\ attaching /\ ~attempt.existingGroup) => attempt.again

AppsOK == apps \in Seq(App)

WizardInv == WizardTypeOK /\ AppsOK /\ ThresholdPossible /\ RunOK /\ LiveAsReviewed

USE OperatorsAssumption, AttemptsAssumption

----------------------------------------------------------------------------
(* The steps of the page                                                   *)

StepNames == {Steps[i] : i \in DOMAIN Steps}

\* Either way through the wizard starts with the details and ends with the deployment,
\* and has the review in between.
LEMMA StepsKnown ==
    ASSUME mode \in {"deploy", "attach"}
    PROVE  /\ {"details", "review", "deploy"} \subseteq StepNames
           /\ StepNames \subseteq {"details", "operators", "login", "review", "deploy"}
<1>1. CASE mode = "attach"
  <2>1. Steps = AttachSteps
    BY <1>1 DEF Steps
  <2>2. DOMAIN AttachSteps = {1, 2, 3}
    BY DEF AttachSteps
  <2>3. AttachSteps[1] = "details" /\ AttachSteps[2] = "review" /\ AttachSteps[3] = "deploy"
    BY DEF AttachSteps
  <2> QED
    BY <2>1, <2>2, <2>3 DEF StepNames
<1>2. CASE mode = "deploy"
  <2>1. Steps = DeploySteps
    BY <1>2 DEF Steps
  <2>2. DOMAIN DeploySteps = {1, 2, 3, 4, 5}
    BY DEF DeploySteps
  <2>3. /\ DeploySteps[1] = "details" /\ DeploySteps[2] = "operators"
        /\ DeploySteps[3] = "login" /\ DeploySteps[4] = "review"
        /\ DeploySteps[5] = "deploy"
    BY DEF DeploySteps
  <2> QED
    BY <2>1, <2>2, <2>3 DEF StepNames
<1> QED
  BY <1>1, <1>2

\* A step that is not the last has a next one.
LEMMA NextStep ==
    ASSUME mode \in {"deploy", "attach"}, step \in StepNames, step # "deploy"
    PROVE  Steps[StepIndex + 1] \in StepNames
<1> DEFINE n == IF mode = "attach" THEN 3 ELSE 5
<1>1. DOMAIN Steps = 1..n /\ Steps[n] = "deploy" /\ n \in Nat
  <2>1. CASE mode = "attach"
    <3>1. DOMAIN AttachSteps = 1..3 /\ AttachSteps[3] = "deploy"
      BY DEF AttachSteps
    <3> QED
      BY <2>1, <3>1 DEF Steps
  <2>2. CASE mode = "deploy"
    <3>1. DOMAIN DeploySteps = 1..5 /\ DeploySteps[5] = "deploy"
      BY DEF DeploySteps
    <3> QED
      BY <2>2, <3>1 DEF Steps
  <2> QED
    BY <2>1, <2>2
<1>2. StepIndex \in DOMAIN Steps /\ Steps[StepIndex] = step
  <2>1. \E i \in DOMAIN Steps : Steps[i] = step
    BY DEF StepNames
  <2> QED
    BY <2>1 DEF StepIndex
<1>3. StepIndex # n
  BY <1>1, <1>2
<1>4. StepIndex + 1 \in 1..n
  <2> HIDE DEF n
  <2> QED
    BY <1>1, <1>2, <1>3
<1> QED
  BY <1>1, <1>4 DEF StepNames

----------------------------------------------------------------------------
(* The operators selected                                                  *)

\* Choosing or dropping an operator leaves a set of operators, and the threshold is
\* brought inside the bounds of that set, one if it is empty.
LEMMA Clamped ==
    ASSUME selected \subseteq Operators,
           threshold \in 1..(Cardinality(Operators) + 2),
           NEW o \in Operators, toggle(o)
    PROVE  /\ selected' \subseteq Operators
           /\ threshold' \in 1..(Cardinality(Operators) + 2)
           /\ selected' # {} => threshold' \in 1..Cardinality(selected')
<1>1. selected' \subseteq Operators
  BY DEF toggle
<1>2. /\ IsFiniteSet(selected')
      /\ Cardinality(selected') <= Cardinality(Operators)
  BY <1>1, FS_Subset
<1>3. Cardinality(Operators) \in Nat /\ Cardinality(selected') \in Nat
  BY <1>2, FS_CardinalityType
<1>4. selected' # {} => Cardinality(selected') >= 1
  BY <1>2, <1>3, FS_EmptySet
<1>5. threshold' = Least(Most(threshold, 1), Most(Cardinality(selected'), 1))
  BY DEF toggle
<1>6. threshold' \in 1..(Cardinality(Operators) + 2)
  BY <1>2, <1>3, <1>5 DEF Least, Most
<1>7. selected' # {} => threshold' \in 1..Cardinality(selected')
  BY <1>3, <1>4, <1>5 DEF Least, Most
<1> QED
  BY <1>1, <1>6, <1>7

----------------------------------------------------------------------------
(* The invariant                                                           *)

LEMMA InitInv ==
    ASSUME WizardInit
    PROVE  WizardInv
<1>1. Cardinality(Operators) \in Nat
  BY FS_CardinalityType
<1>2. step \in StepNames
  BY StepsKnown DEF WizardInit
<1>3. Len(apps) = 0 /\ apps \in Seq(App) /\ apps \in [1..Len(apps) -> App]
  <2>1. apps = << >>
    BY DEF WizardInit
  <2>2. << >> \in Seq(App) /\ Len(<< >>) = 0
    BY EmptySeq
  <2> QED
    BY <2>1, <2>2, LenProperties
<1>4. attempt \in Attempt
  <2>1. 0 \in 0..MaxApps
    OBVIOUS
  <2>2. attempt = [pc |-> "idle", existingGroup |-> FALSE, app |-> 0,
                  again |-> FALSE]
    BY Zenon DEF WizardInit
  <2> QED
    BY <2>1, <2>2, Zenon DEF Attempt
<1>5. WizardTypeOK
  <2>1. /\ mode = "deploy" /\ named \in BOOLEAN /\ issuers \in BOOLEAN /\ ready \in BOOLEAN
        /\ failed \in BOOLEAN /\ manualAddress = "" /\ selected = {} /\ threshold = 2
    BY Zenon DEF WizardInit
  <2>2. 2 \in 1..(Cardinality(Operators) + 2)
    BY <1>1
  <2>3. Len(apps) <= MaxApps
    BY <1>3
  <2> QED
    BY <1>2, <1>3, <1>4, <2>1, <2>2, <2>3 DEF WizardTypeOK, StepNames
<1> QED
  BY <1>3, <1>5 DEF WizardInit, WizardInv, AppsOK, ThresholdPossible, RunOK, LiveAsReviewed

\* What the form does: the page has not reached its last step, but for the address.
LEMMA FillInv ==
    ASSUME WizardInv, Fill
    PROVE  WizardInv'
<1> USE DEF WizardInv, AppsOK, ThresholdPossible, RunOK, LiveAsReviewed, attaching
<1>1. /\ step' = step /\ UNCHANGED <<ready, attempt, failed, apps>>
      /\ step = "deploy" => UNCHANGED <<selected, threshold>>
  BY StepsKnown DEF Fill, SetName, ToggleIssuers, ChooseMode, toggle, ThresholdPicker,
     SetAddress, Edit, form
<1>2. /\ selected' \subseteq Operators
      /\ threshold' \in 1..(Cardinality(Operators) + 2)
      /\ ThresholdPossible'
  <2>1. CASE \E o \in Operators : toggle(o)
    BY <2>1, Clamped DEF WizardTypeOK
  <2>2. CASE \E t \in 1..Cardinality(Operators) : ThresholdPicker(t)
    <3>1. Cardinality(Operators) \in Nat
      BY FS_CardinalityType
    <3>2. PICK t \in 1..Cardinality(Operators) : ThresholdPicker(t)
      BY <2>2
    <3>3. t \in 1..(Cardinality(Operators) + 2)
      BY <3>1
    <3>4. threshold' = t /\ selected' = selected /\ t \in 1..Cardinality(selected)
      BY <3>2 DEF ThresholdPicker
    <3> QED
      BY <3>3, <3>4 DEF WizardTypeOK
  <2>3. CASE \/ SetName \/ ToggleIssuers
             \/ \E m \in {"deploy", "attach"} : ChooseMode(m)
             \/ \E a \in {"", "malformed", "address"} : SetAddress(a)
    <3>1. UNCHANGED <<selected, threshold>>
      BY <2>3 DEF SetName, ToggleIssuers, ChooseMode, SetAddress, form
    <3> QED
      BY <3>1 DEF WizardTypeOK
  <2> QED
    BY <2>1, <2>2, <2>3 DEF Fill
<1>3. mode' \in {"deploy", "attach"} /\ (mode' = mode \/ step = "details")
  BY DEF Fill, SetName, ToggleIssuers, ChooseMode, toggle, ThresholdPicker, SetAddress,
     Edit, WizardTypeOK
<1>4. step' \in StepNames'
  <2>1. CASE mode' = mode
    BY <1>1, <2>1 DEF WizardTypeOK, StepNames, Steps
  <2>2. CASE step = "details"
    <3>1. "details" \in StepNames'
      <4>1. Steps' = AttachSteps \/ Steps' = DeploySteps
        BY <1>3 DEF Steps
      <4>2. 1 \in DOMAIN AttachSteps /\ AttachSteps[1] = "details"
        BY DEF AttachSteps
      <4>3. 1 \in DOMAIN DeploySteps /\ DeploySteps[1] = "details"
        BY DEF DeploySteps
      <4> QED
        BY <4>1, <4>2, <4>3 DEF StepNames
    <3> QED
      BY <1>1, <2>2, <3>1
  <2> QED
    BY <1>3, <2>1, <2>2
<1>5. named' \in BOOLEAN /\ issuers' \in BOOLEAN /\ manualAddress' \in {"", "malformed", "address"}
  BY DEF Fill, SetName, ToggleIssuers, ChooseMode, toggle, ThresholdPicker, SetAddress,
     Edit, WizardTypeOK, form
<1>6. WizardTypeOK'
  BY <1>1, <1>2, <1>3, <1>4, <1>5 DEF WizardTypeOK, StepNames
<1>m. attempt.pc # "idle" => mode' = mode
  BY <1>3
<1>7. RunOK'
  BY <1>1, <1>m
<1>8. LiveAsReviewed'
  BY <1>1, <1>m
<1> QED
  BY <1>1, <1>2, <1>6, <1>7, <1>8

\* Walking through the steps, and signing in or out: nothing runs, or nothing of it
\* changes.
LEMMA WalkInv ==
    ASSUME WizardInv,
           Continue \/ (\E s \in StepNames : GoTo(s)) \/ SetReady
    PROVE  WizardInv'
<1> USE DEF WizardInv, AppsOK, ThresholdPossible, RunOK, LiveAsReviewed, attaching
<1>1. UNCHANGED <<mode, named, selected, threshold, issuers, manualAddress, attempt, failed,
                  apps>>
  BY DEF Continue, GoTo, SetReady, form
<1>2. step' \in StepNames
  <2>1. CASE Continue
    BY <2>1, NextStep DEF Continue, WizardTypeOK, StepNames
  <2>2. CASE \E s \in StepNames : GoTo(s)
    BY <2>2 DEF GoTo
  <2>3. CASE SetReady
    BY <2>3 DEF SetReady, WizardTypeOK, StepNames
  <2> QED
    BY <2>1, <2>2, <2>3
<1>3. attempt.pc # "idle" => step' = "deploy"
  BY DEF Continue, GoTo, SetReady
<1>4. ready' \in BOOLEAN
  BY DEF Continue, GoTo, SetReady, WizardTypeOK
<1>5. Steps' = Steps
  BY <1>1 DEF Steps
<1>6. WizardTypeOK'
  BY <1>1, <1>2, <1>4, <1>5 DEF WizardTypeOK, StepNames
<1> QED
  BY <1>1, <1>3, <1>6

\* The stage of the page is one of those listed.
Stages == {"idle", "create", "attach", "sign", "deploy", "issuers", "done"}

LEMMA Staged ==
    ASSUME attempt \in Attempt, NEW pc \in Stages, Stage(pc)
    PROVE  /\ attempt' \in Attempt /\ attempt'.pc = pc
           /\ attempt'.app = attempt.app /\ attempt'.existingGroup = attempt.existingGroup
           /\ attempt'.again = attempt.again
BY DEF Attempt, Stage, Stages

\* A new run: there is room for its app, and the page is on its last step.
LEMMA LaunchInv ==
    ASSUME WizardInv,
           Launch \/ TryAgain \/ LinkIt
    PROVE  WizardInv'
<1> USE DEF WizardInv, AppsOK, ThresholdPossible, RunOK, LiveAsReviewed, attaching
<1>1. PICK existingGroup \in BOOLEAN, again \in BOOLEAN :
         /\ step' = "deploy" /\ deploy(existingGroup, again)
         /\ (attaching /\ ~existingGroup) => again
  BY DEF Launch, TryAgain, LinkIt, attaching
<1>2. /\ Len(apps) < MaxApps /\ failed' = FALSE
      /\ attempt' = [pc |-> "create", existingGroup |-> existingGroup, app |-> 0, again |-> again]
      /\ UNCHANGED <<mode, named, selected, threshold, issuers, manualAddress, ready, apps>>
  BY <1>1 DEF deploy, form
<1>3. attempt' \in Attempt
  <2>1. 0 \in 0..MaxApps
    OBVIOUS
  <2> QED
    BY <1>2, <2>1, Zenon DEF Attempt
<1>4. step' \in StepNames /\ Steps' = Steps
  BY <1>1, <1>2, StepsKnown DEF WizardTypeOK, Steps
<1>5. WizardTypeOK'
  BY <1>2, <1>3, <1>4 DEF WizardTypeOK, StepNames
<1> QED
  BY <1>1, <1>2, <1>5

\* A step of the run: the form is as it was.
LEMMA PageKept ==
    ASSUME WizardTypeOK, controls' = controls
    PROVE  /\ step' = step /\ mode' = mode /\ selected' = selected /\ threshold' = threshold
           /\ attempt' \in Attempt /\ failed' \in BOOLEAN
                /\ apps' \in [1..Len(apps') -> App] /\ Len(apps') <= MaxApps => WizardTypeOK'
<1>1. UNCHANGED <<step, mode, named, selected, threshold, issuers, manualAddress, ready>>
  BY DEF controls, form
<1>2. Steps' = Steps
  BY <1>1 DEF Steps
<1> QED
  BY <1>1, <1>2 DEF WizardTypeOK

\* One app of the platform changes.
LEMMA AppChanged ==
    ASSUME apps \in Seq(App), NEW i \in DOMAIN apps, NEW app \in App,
           apps' = [apps EXCEPT ![i] = app]
    PROVE  /\ apps' \in Seq(App) /\ Len(apps') = Len(apps) /\ DOMAIN apps' = DOMAIN apps
           /\ apps' \in [1..Len(apps') -> App]
           /\ apps'[i] = app
           /\ \A j \in DOMAIN apps : j # i => apps'[j] = apps[j]
BY ExceptSeq, LenProperties

\* The requests of a run: each does its part and the run goes on, ends, or fails.
LEMMA RequestInv ==
    ASSUME WizardInv,
           \/ CreateApp \/ AttachGroup \/ signCreateGroup \/ Send \/ LinkDeployed
           \/ Deployed \/ saveIssuers \/ Fail
           \/ \E i \in DOMAIN apps : Include(i)
    PROVE  WizardInv'
<1> USE DEF WizardInv, AppsOK, ThresholdPossible, RunOK, LiveAsReviewed, attaching
<1>0. /\ Len(apps) \in Nat /\ DOMAIN apps = 1..Len(apps) /\ attempt \in Attempt
      /\ attempt.app \in 0..MaxApps /\ attempt.existingGroup \in BOOLEAN /\ failed \in BOOLEAN
  BY LenProperties DEF WizardTypeOK, Attempt
<1>1. controls' = controls
  BY DEF CreateApp, AttachGroup, signCreateGroup, Send, LinkDeployed, Deployed, saveIssuers,
     Fail, Include
<1>2. step' = step /\ mode' = mode /\ selected' = selected /\ threshold' = threshold
  BY <1>1, PageKept
<1>3. ASSUME attempt' \in Attempt, failed' \in BOOLEAN, apps' \in Seq(App), Len(apps') <= MaxApps
      PROVE  WizardTypeOK' /\ AppsOK'
  BY <1>1, <1>3, PageKept, LenProperties
<1>4. CASE CreateApp
  <2> DEFINE new == Append(apps, BareApp)
  <2>1. BareApp \in App
    <3>1. 0 \in 0..(Cardinality(Operators) + 2)
      BY FS_CardinalityType
    <3> QED
      BY <3>1, Zenon DEF BareApp, App
  <2>2. /\ new \in Seq(App) /\ Len(new) = Len(apps) + 1
        /\ Len(new) <= MaxApps /\ Len(new) \in DOMAIN new
    BY <1>0, <1>4, <2>1, AppendProperties, LenProperties DEF CreateApp
  <2>3. apps' = new
    BY <1>4 DEF CreateApp
  <2>4. CASE attempt' = [attempt EXCEPT !.pc = "idle"] /\ failed' = TRUE
    <3>1. attempt' \in Attempt /\ attempt'.pc = "idle"
      BY <1>0, <2>4 DEF Attempt
    <3> QED
      BY <1>2, <1>3, <2>2, <2>3, <2>4, <3>1
  <2>5. CASE attempt' = [attempt EXCEPT !.app = Len(apps'),
                                !.pc = IF attempt.existingGroup THEN "attach" ELSE "sign"]
             /\ UNCHANGED failed
    <3>1. /\ attempt' \in Attempt /\ attempt'.app = Len(new)
          /\ attempt'.pc = IF attempt.existingGroup THEN "attach" ELSE "sign"
          /\ attempt'.existingGroup = attempt.existingGroup /\ attempt'.again = attempt.again
      <4>1. Len(apps') \in 0..MaxApps /\ Len(apps') = Len(new)
        BY <1>0, <2>2, <2>3
      <4> HIDE DEF new
      <4> QED
        BY <1>0, <2>5, <4>1 DEF Attempt
    <3>2. /\ step = "deploy" /\ attempt.pc = "create"
          /\ (attaching /\ ~attempt.existingGroup) => attempt.again
      BY <1>4 DEF CreateApp
    <3>4. apps' \in Seq(App) /\ Len(apps') <= MaxApps /\ attempt'.app \in DOMAIN apps'
      BY <2>2, <2>3, <3>1
    <3> HIDE DEF new
    <3>5. WizardTypeOK' /\ AppsOK'
      <4>1. attempt' \in Attempt /\ failed' = failed /\ failed \in BOOLEAN
        BY <2>5, <3>1 DEF WizardTypeOK
      <4> QED
        BY <1>3, <3>4, <4>1
    <3>6. RunOK'
      BY <1>2, <3>1, <3>2, <3>4
    <3>7. attempt'.pc \in {"attach", "sign"}
      BY <3>1
    <3> QED
      BY <1>2, <3>5, <3>6, <3>7
  <2> QED
    BY <1>4, <2>4, <2>5 DEF CreateApp
<1>5. CASE AttachGroup
  <2>1. /\ attempt.pc = "attach" /\ attempt.app \in DOMAIN apps /\ attempt.existingGroup
        /\ step = "deploy"
    BY <1>5 DEF AttachGroup
  <2> DEFINE app == [apps[attempt.app] EXCEPT !.group = "attached"]
  <2>2. app \in App /\ app.group = "attached"
    BY <1>0, <2>1 DEF App, WizardTypeOK
  <2>3. apps' = [apps EXCEPT ![attempt.app] = app]
    BY <1>5 DEF AttachGroup
  <2>4. /\ apps' \in Seq(App) /\ Len(apps') = Len(apps) /\ DOMAIN apps' = DOMAIN apps
        /\ apps'[attempt.app] = app
    <3> HIDE DEF app
    <3> QED
      BY <2>1, <2>2, <2>3, AppChanged
  <2>5. /\ attempt' \in Attempt /\ attempt'.pc = "done"
        /\ attempt'.app = attempt.app /\ attempt'.existingGroup = attempt.existingGroup
        /\ attempt'.again = attempt.again
        /\ failed' = failed
    BY <1>0, <1>5, Staged DEF AttachGroup, Stages
  <2>6. Len(apps) <= MaxApps
    BY DEF WizardTypeOK
  <2> HIDE DEF app
  <2> QED
    BY <1>0, <1>2, <1>3, <2>1, <2>2, <2>4, <2>5, <2>6
<1>6. CASE signCreateGroup
  <2>1. attempt.pc = "sign" /\ attempt.app \in DOMAIN apps /\ step = "deploy"
    BY <1>6 DEF signCreateGroup
  <2> DEFINE app == [apps[attempt.app] EXCEPT !.nodes = selected, !.threshold = threshold]
  <2>2. app \in App /\ app.nodes = selected /\ app.threshold = threshold
    <3>0. /\ Cardinality(Operators) \in Nat /\ selected \in SUBSET Operators
          /\ threshold \in 1..(Cardinality(Operators) + 2)
      BY FS_CardinalityType DEF WizardTypeOK
    <3>1. threshold \in 0..(Cardinality(Operators) + 2) /\ selected \in SUBSET Operators
      BY <3>0
    <3>2. apps[attempt.app] \in App
      BY <1>0, <2>1 DEF WizardTypeOK
    <3> QED
      BY <3>1, <3>2 DEF App
  <2>3. apps' = [apps EXCEPT ![attempt.app] = app]
    BY <1>6 DEF signCreateGroup
  <2>4. /\ apps' \in Seq(App) /\ Len(apps') = Len(apps) /\ DOMAIN apps' = DOMAIN apps
        /\ apps'[attempt.app] = app
    <3> HIDE DEF app
    <3> QED
      BY <2>1, <2>2, <2>3, AppChanged
  <2>5. /\ attempt' \in Attempt /\ attempt'.pc = "deploy"
        /\ attempt'.app = attempt.app /\ attempt'.existingGroup = attempt.existingGroup
        /\ attempt'.again = attempt.again
        /\ failed' = failed
    BY <1>0, <1>6, Staged DEF signCreateGroup, Stages
  <2>6. Len(apps) <= MaxApps
    BY DEF WizardTypeOK
  <2> HIDE DEF app
  <2> QED
    BY <1>0, <1>2, <1>3, <2>1, <2>2, <2>4, <2>5, <2>6
\* A group moves on from one state to the next, with what it was signed for.
<1>7. ASSUME NEW i \in DOMAIN apps, NEW app \in App,
             apps' = [apps EXCEPT ![i] = app], UNCHANGED <<attempt, failed>>,
             app.nodes = apps[i].nodes, app.threshold = apps[i].threshold,
             apps[i].group \notin {"linked", "attached"}
      PROVE  WizardInv'
  <2>1. /\ apps' \in Seq(App) /\ Len(apps') = Len(apps) /\ DOMAIN apps' = DOMAIN apps
        /\ apps'[i] = app /\ \A j \in DOMAIN apps : j # i => apps'[j] = apps[j]
    BY <1>7, AppChanged
  <2>2. Len(apps) <= MaxApps
    BY DEF WizardTypeOK
  <2>3. RunOK' /\ LiveAsReviewed'
    BY <1>0, <1>2, <1>7, <2>1
  <2>4. WizardTypeOK' /\ AppsOK'
    BY <1>0, <1>3, <1>7, <2>1, <2>2
  <2> QED
    BY <1>2, <2>3, <2>4
<1>8. CASE Send
  <2>1. attempt.pc = "deploy" /\ attempt.app \in DOMAIN apps /\ apps[attempt.app].group = "none"
    BY <1>8 DEF Send
  <2> DEFINE app == [apps[attempt.app] EXCEPT !.group = "sent"]
  <2>2. app \in App /\ app.nodes = apps[attempt.app].nodes
        /\ app.threshold = apps[attempt.app].threshold
    BY <1>0, <2>1 DEF App, WizardTypeOK
  <2>3. apps' = [apps EXCEPT ![attempt.app] = app] /\ UNCHANGED <<attempt, failed>>
    BY <1>8 DEF Send
  <2> HIDE DEF app
  <2> QED
    BY <1>7, <2>1, <2>2, <2>3
<1>9. CASE \E i \in DOMAIN apps : Include(i)
  <2>1. PICK i \in DOMAIN apps : Include(i)
    BY <1>9
  <2> DEFINE app == [apps[i] EXCEPT !.group = "deployed"]
  <2>2. app \in App /\ app.nodes = apps[i].nodes /\ app.threshold = apps[i].threshold
    BY <1>0 DEF App, WizardTypeOK
  <2>3. /\ apps' = [apps EXCEPT ![i] = app] /\ UNCHANGED <<attempt, failed>>
        /\ apps[i].group = "sent"
    BY <2>1 DEF Include
  <2> HIDE DEF app
  <2> QED
    BY <1>7, <2>2, <2>3
<1>10. CASE LinkDeployed
  <2>1. attempt.pc = "deploy" /\ attempt.app \in DOMAIN apps /\ apps[attempt.app].group = "deployed"
    BY <1>10 DEF LinkDeployed
  <2>2. PICK synced \in BOOLEAN :
           apps' = [apps EXCEPT ![attempt.app].group = "linked",
                                ![attempt.app].adopted = synced]
    BY <1>10 DEF LinkDeployed
  <2> DEFINE app == [apps[attempt.app] EXCEPT !.group = "linked", !.adopted = synced]
  <2>3. app \in App /\ app.nodes = apps[attempt.app].nodes
        /\ app.threshold = apps[attempt.app].threshold
    BY <1>0, <2>1 DEF App, WizardTypeOK
  <2>4. apps' = [apps EXCEPT ![attempt.app] = app] /\ UNCHANGED <<attempt, failed>>
    BY <1>10, <2>2 DEF LinkDeployed
  <2> HIDE DEF app
  <2> QED
    BY <1>7, <2>1, <2>3, <2>4
<1>11. CASE Deployed \/ saveIssuers
  <2>1. /\ apps' = apps /\ failed' = failed /\ attempt' \in Attempt
        /\ attempt'.app = attempt.app /\ attempt'.existingGroup = attempt.existingGroup
        /\ attempt'.again = attempt.again
        /\ \/ /\ attempt.pc = "deploy" /\ apps[attempt.app].group = "linked"
              /\ attempt'.pc = "issuers"
           \/ attempt.pc = "issuers" /\ attempt'.pc = "done"
    BY <1>0, <1>11, Staged DEF Deployed, saveIssuers, Stages
  <2>2. Len(apps) <= MaxApps
    BY DEF WizardTypeOK
  <2> QED
    BY <1>0, <1>2, <1>3, <2>1, <2>2
<1>12. CASE Fail
  <2>1. apps' = apps /\ failed' = TRUE /\ attempt' \in Attempt /\ attempt'.pc = "idle"
    BY <1>0, <1>12, Staged DEF Fail, controls, Stages
  <2>2. Len(apps) <= MaxApps
    BY DEF WizardTypeOK
  <2> QED
    BY <1>0, <1>2, <1>3, <2>1, <2>2
<1> QED
  BY <1>4, <1>5, <1>6, <1>8, <1>9, <1>10, <1>11, <1>12

LEMMA StutterInv ==
    ASSUME WizardInv, UNCHANGED wizard
    PROVE  WizardInv'
<1>1. UNCHANGED <<step, mode, named, selected, threshold, issuers, manualAddress, ready,
                  attempt, failed, apps>>
  BY DEF wizard, form
<1>2. WizardTypeOK'
  <2>1. Steps' = Steps
    BY <1>1 DEF Steps
  <2> QED
    BY <1>1, <2>1 DEF WizardInv, WizardTypeOK
<1> QED
  BY <1>1, <1>2 DEF WizardInv, AppsOK, ThresholdPossible, RunOK, LiveAsReviewed, attaching

----------------------------------------------------------------------------
(* The theorems                                                            *)

LEMMA WizardStep == WizardInv /\ [WizardNext]_wizard => WizardInv'
<1> SUFFICES ASSUME WizardInv, [WizardNext]_wizard PROVE WizardInv'
  OBVIOUS
<1>1. CASE Fill
  BY <1>1, FillInv
<1>2. CASE Continue \/ (\E s \in {Steps[i] : i \in DOMAIN Steps} : GoTo(s)) \/ SetReady
  BY <1>2, WalkInv DEF StepNames
<1>3. CASE Deploy
  BY <1>3, LaunchInv, RequestInv DEF Deploy
<1>4. CASE UNCHANGED wizard
  BY <1>4, StutterInv
<1> QED
  BY <1>1, <1>2, <1>3, <1>4 DEF WizardNext

\* What the invariant says holds in every state of the wizard.
LEMMA Invariance == WizardSpec => []WizardInv
<1>1. WizardInit => WizardInv
  BY InitInv
<1> QED
  BY <1>1, WizardStep, PTL DEF WizardSpec

\* The wizard's form, its run and the platform's apps keep their types.
THEOREM TypeCorrect == WizardSpec => []WizardTypeOK
<1>1. WizardInv => WizardTypeOK
  BY DEF WizardInv
<1> QED
  BY <1>1, Invariance, PTL

\* toggle, the slider and every way back leave a threshold that the operators
\* selected can reach (apps/new/page.tsx), for any number of operators.
THEOREM Reachable == WizardSpec => []ThresholdPossible
<1>1. WizardInv => ThresholdPossible
  BY DEF WizardInv
<1> QED
  BY <1>1, Invariance, PTL

\* The app shown as live has the group that the review announced, an existing one or
\* one deployed with the form as it still stands, or else one that "Try again" deployed
\* after an existing group could not be linked; however many attempts failed or came
\* in late.
THEOREM Live == WizardSpec => []LiveAsReviewed
<1>1. WizardInv => LiveAsReviewed
  BY DEF WizardInv
<1> QED
  BY <1>1, Invariance, PTL
=============================================================================
