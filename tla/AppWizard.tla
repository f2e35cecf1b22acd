------------------------------ MODULE AppWizard ------------------------------
(***************************************************************************)
(* The wizard that makes an app with its signing group                     *)
(* (web/app/(console)/apps/new/page.tsx, web/lib/deploy.ts).  It deploys a *)
(* group or links one that exists, each time for an app it has just        *)
(* created: three or more requests, any of which may fail, after which the *)
(* developer tries again, links a group by hand or goes back.              *)
(*                                                                         *)
(* Operators are those the directory lists in the platform's own category: *)
(* apps start in development, and the directory has loaded.                *)
(***************************************************************************)
EXTENDS Integers, FiniteSets, Sequences

CONSTANTS Operators,
          MaxApps     \* bound on the attempts

ASSUME OperatorsAssumption == IsFiniteSet(Operators)
ASSUME AttemptsAssumption == MaxApps \in Nat

VARIABLES
    step, mode,
    named,               \* whether the app has a name
    selected, threshold,
    issuers,             \* whether any login method is ticked
    manualAddress,
    ready,               \* whether this tab can sign
    attempt,             \* the function deploy, and the stage the page shows
    failed,              \* deployError
    apps                 \* history: the apps the platform has created, with their groups

form == <<named, selected, threshold, issuers, manualAddress>>
wizard == <<step, mode, form, ready, attempt, failed, apps>>

DeploySteps == <<"details", "operators", "login", "review", "deploy">>
AttachSteps == <<"details", "review", "deploy">>
Steps == IF mode = "attach" THEN AttachSteps ELSE DeploySteps
StepIndex == CHOOSE i \in DOMAIN Steps : Steps[i] = step
attaching == mode = "attach"

Attempt == [pc : {"idle", "create", "attach", "sign", "deploy", "issuers", "done"},
        existingGroup : BOOLEAN, app : 0..MaxApps,
        again : BOOLEAN]     \* history: begun with "Try again"
\* A group's operation is sent, it exists, and it is linked to the app; or it
\* existed before.  adopted: the platform has recorded the issuers it found there.
App == [group : {"none", "sent", "deployed", "linked", "attached"},
        nodes : SUBSET Operators, threshold : 0..(Cardinality(Operators) + 2), adopted : BOOLEAN]
BareApp == [group |-> "none", nodes |-> {}, threshold |-> 0, adopted |-> FALSE]

WizardTypeOK ==
    /\ mode \in {"deploy", "attach"}
    /\ step \in {Steps[i] : i \in DOMAIN Steps}
    /\ named \in BOOLEAN /\ issuers \in BOOLEAN /\ ready \in BOOLEAN /\ failed \in BOOLEAN
    /\ selected \subseteq Operators
    /\ threshold \in 1..(Cardinality(Operators) + 2)
    /\ manualAddress \in {"", "malformed", "address"}
    /\ attempt \in Attempt
    /\ apps \in [1..Len(apps) -> App] /\ Len(apps) <= MaxApps

WizardInit ==
    /\ step = "details" /\ mode = "deploy"
    /\ named = FALSE /\ selected = {} /\ threshold = 2 /\ issuers = TRUE
    /\ manualAddress = ""
    /\ ready \in BOOLEAN
    /\ attempt = [pc |-> "idle", existingGroup |-> FALSE, app |-> 0, again |-> FALSE]
    /\ failed = FALSE
    /\ apps = << >>

----------------------------------------------------------------------------
(* The form                                                                *)

Least(a, b) == IF a < b THEN a ELSE b
Most(a, b) == IF a < b THEN b ELSE a

Edit == UNCHANGED <<step, mode, ready, attempt, failed, apps>>

SetName ==
    /\ step = "details"
    /\ named' = ~named
    /\ Edit /\ UNCHANGED <<selected, threshold, issuers, manualAddress>>

ChooseMode(m) ==
    /\ step = "details"
    /\ mode' = m
    /\ UNCHANGED <<step, form, ready, attempt, failed, apps>>

\* The threshold is left to the review.
ToggleOnly(o) ==
    /\ step = "operators"
    /\ selected' = IF o \in selected THEN selected \ {o} ELSE selected \cup {o}
    /\ Edit /\ UNCHANGED <<named, threshold, issuers, manualAddress>>

\* The threshold follows the set down to nothing.
ToggleToZero(o) ==
    /\ step = "operators"
    /\ selected' = IF o \in selected THEN selected \ {o} ELSE selected \cup {o}
    /\ threshold' = Least(threshold, Cardinality(selected'))
    /\ Edit /\ UNCHANGED <<named, issuers, manualAddress>>

\* toggle keeps the threshold inside the bounds the new set allows.
toggle(o) ==
    /\ step = "operators"
    /\ selected' = IF o \in selected THEN selected \ {o} ELSE selected \cup {o}
    /\ threshold' = Least(Most(threshold, 1), Most(Cardinality(selected'), 1))
    /\ Edit /\ UNCHANGED <<named, issuers, manualAddress>>

\* The slider is there once there is something to choose.
ThresholdPicker(t) ==
    /\ step = "operators"
    /\ Cardinality(selected) > 1 /\ t \in 1..Cardinality(selected)
    /\ threshold' = t
    /\ Edit /\ UNCHANGED <<named, selected, issuers, manualAddress>>

ToggleIssuers ==
    /\ step = "login"
    /\ issuers' = ~issuers
    /\ Edit /\ UNCHANGED <<named, selected, threshold, manualAddress>>

\* The address has a field on the review of an attachment, and one below the error
\* of a deployment.
SetAddress(a) ==
    /\ IF attaching THEN step = "review" ELSE step = "deploy" /\ failed
    /\ manualAddress' = a
    /\ Edit /\ UNCHANGED <<named, selected, threshold, issuers>>

----------------------------------------------------------------------------
(* From step to step                                                       *)

canContinue ==
    CASE step = "details" -> named
      [] step = "operators" -> Cardinality(selected) >= 1
                                /\ threshold \in 1..Cardinality(selected)
      [] OTHER -> TRUE

Continue ==
    /\ step \notin {"review", "deploy"} /\ canContinue
    /\ step' = Steps[StepIndex + 1]
    /\ UNCHANGED <<mode, form, ready, attempt, failed, apps>>

\* The header stays open during a run.
GoToAnytime(s) ==
    /\ \E i \in 1..StepIndex : Steps[i] = s
    /\ step' = s
    /\ UNCHANGED <<mode, form, ready, attempt, failed, apps>>

\* The steps in the header, "Back" and "Back to review": never forward.
GoTo(s) ==
    /\ attempt.pc = "idle"
    /\ \E i \in 1..StepIndex : Steps[i] = s
    /\ step' = s
    /\ UNCHANGED <<mode, form, ready, attempt, failed, apps>>

\* useCanSignOnchain.
SetReady ==
    /\ ready' = ~ready
    /\ UNCHANGED <<step, mode, form, attempt, failed, apps>>

----------------------------------------------------------------------------
(* deploy                                                                  *)

deploy(existingGroup, again) ==
    /\ attempt.pc = "idle" /\ Len(apps) < MaxApps
    /\ attempt' = [pc |-> "create", existingGroup |-> existingGroup, app |-> 0, again |-> again]
    /\ failed' = FALSE
    /\ UNCHANGED <<mode, form, ready, apps>>

Launch ==
    /\ step = "review"
    /\ IF attaching THEN manualAddress = "address" ELSE ready
    /\ step' = "deploy"
    /\ deploy(attaching, FALSE)

\* Without an address, whatever the attempt that failed was to do.
TryAgain ==
    /\ step = "deploy" /\ failed
    /\ deploy(FALSE, TRUE)
    /\ UNCHANGED step

LinkIt ==
    /\ step = "deploy" /\ failed
    /\ ~attaching /\ manualAddress # ""
    /\ deploy(TRUE, FALSE)
    /\ UNCHANGED step

Stage(pc) == attempt' = [attempt EXCEPT !.pc = pc]
controls == <<step, mode, form, ready>>

\* The platform has the app, whether or not the page hears of it.
CreateApp ==
    /\ attempt.pc = "create"
    /\ apps' = Append(apps, BareApp)
    /\ \/ /\ attempt' = [attempt EXCEPT !.app = Len(apps'),
                                !.pc = IF attempt.existingGroup THEN "attach" ELSE "sign"]
          /\ UNCHANGED failed
       \/ attempt' = [attempt EXCEPT !.pc = "idle"] /\ failed' = TRUE
    /\ UNCHANGED controls

\* Of an address that is a group's, managed by this developer.
AttachGroup ==
    /\ attempt.pc = "attach" /\ manualAddress = "address"
    /\ apps' = [apps EXCEPT ![attempt.app].group = "attached"]
    /\ Stage("done")
    /\ UNCHANGED <<controls, failed>>

\* createGroup is built, estimated and signed with what the form holds.
signCreateGroup ==
    /\ attempt.pc = "sign" /\ selected # {}
    /\ apps' = [apps EXCEPT ![attempt.app].nodes = selected,
                            ![attempt.app].threshold = threshold]
    /\ Stage("deploy")
    /\ UNCHANGED <<controls, failed>>

\* The platform's part of the request: the operation is sent, it creates the group
\* however long that takes, the group is linked, and its issuers are adopted if the
\* chain can be read again.
Send ==
    /\ attempt.pc = "deploy" /\ apps[attempt.app].group = "none"
    /\ apps' = [apps EXCEPT ![attempt.app].group = "sent"]
    /\ UNCHANGED <<controls, attempt, failed>>

Include(i) ==
    /\ apps[i].group = "sent"
    /\ apps' = [apps EXCEPT ![i].group = "deployed"]
    /\ UNCHANGED <<controls, attempt, failed>>

LinkDeployed ==
    /\ attempt.pc = "deploy" /\ apps[attempt.app].group = "deployed"
    /\ \E synced \in BOOLEAN :
          apps' = [apps EXCEPT ![attempt.app].group = "linked",
                               ![attempt.app].adopted = synced]
    /\ UNCHANGED <<controls, attempt, failed>>

Deployed ==
    /\ attempt.pc = "deploy" /\ apps[attempt.app].group = "linked"
    /\ Stage("issuers")
    /\ UNCHANGED <<controls, failed, apps>>

\* saveIssuer needs no operation for an issuer the platform has adopted, and none is
\* sent along.
saveIssuers ==
    /\ attempt.pc = "issuers" /\ (issuers => apps[attempt.app].adopted)
    /\ Stage("done")
    /\ UNCHANGED <<controls, failed, apps>>

\* A request is refused, or its answer is lost.
Fail ==
    /\ attempt.pc \notin {"idle", "done"}
    /\ Stage("idle")
    /\ failed' = TRUE
    /\ UNCHANGED <<controls, apps>>

----------------------------------------------------------------------------

Fill ==
    \/ SetName \/ ToggleIssuers
    \/ \E m \in {"deploy", "attach"} : ChooseMode(m)
    \/ \E o \in Operators : toggle(o)
    \/ \E t \in 1..Cardinality(Operators) : ThresholdPicker(t)
    \/ \E a \in {"", "malformed", "address"} : SetAddress(a)

Deploy ==
    \/ Launch \/ TryAgain \/ LinkIt
    \/ CreateApp \/ AttachGroup \/ signCreateGroup \/ Send \/ LinkDeployed
    \/ Deployed \/ saveIssuers \/ Fail
    \/ \E i \in DOMAIN apps : Include(i)

WizardNext ==
    \/ Fill
    \/ Continue \/ \E s \in {Steps[i] : i \in DOMAIN Steps} : GoTo(s)
    \/ SetReady
    \/ Deploy

WizardSpec == WizardInit /\ [][WizardNext]_wizard

----------------------------------------------------------------------------
(* Properties                                                              *)

\* Whatever the developer toggles and however far back they go, the review never
\* presents a threshold that the selected operators cannot reach.
ThresholdPossible == selected # {} => threshold \in 1..Cardinality(selected)

\* The app that the wizard calls live has the group that its review announced: an
\* existing one, or one of the operators and the threshold that the form still holds,
\* although the form stayed on the page.  One case is left, which the review did not
\* announce: "Try again", after an existing group could not be linked, deploys a new
\* one of whatever operators an earlier deployment left selected.
LiveAsReviewed ==
    attempt.pc = "done" =>
       LET a == apps[attempt.app] IN
       \/ a.group = "attached" /\ attempt.existingGroup
       \/ /\ a.group = "linked" /\ a.nodes = selected /\ a.threshold = threshold
          /\ attaching => attempt.again
=============================================================================
