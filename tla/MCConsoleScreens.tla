-------------------------- MODULE MCConsoleScreens --------------------------
(* The console's screens for TLC, one of them open in each behaviour: a query and an *)
(* action, a signing group's keys or its members, the app wizard, a form or the      *)
(* wallets screen, the last for one key, one developer or two lists at once.         *)
EXTENDS ScreenQuery, AppWizard, Functions, TLC

CONSTANTS Things, Calls, Syncs, Nothing,
          k2, d2, s1, Keys, Subjects, Screens, NoKey, Owner,
          FormPages

ASSUME KeysAssumption == IsFiniteSet(Keys)
ASSUME OwnerAssumption == Owner \in [Keys -> Subjects]

VARIABLES
    screen,
    manager, trust, row, session, page, pendingAction, call, sync, misread,
    formPage, stored, value, dirty, touched, formData, formError, read, save,
    node, keyRow, count, shown, job, drifted

Onchain == INSTANCE OnchainActions

\* Of each shape of page, one field of each kind: fields do not depend on each other.
Every == INSTANCE ConsoleForms WITH page <- formPage, data <- formData, error <- formError,
                                    Screens <- {}
One(S) == IF S = {} THEN {} ELSE {CHOOSE f \in S : TRUE}
Follow(p) ==
    LET Unlike(v) == {f \in DOMAIN p.shown \ p.files : p.shown[f] = v}
        followed == IF p.files = {} THEN One(Unlike("default")) \cup One(Unlike("none"))
                    ELSE p.files \cup One(Unlike("default"))
    IN [p EXCEPT !.shown = Restrict(@, followed)]
Pages == {Follow(p) : p \in Every!Pages}
Forms == INSTANCE ConsoleForms WITH page <- formPage, data <- formData, error <- formError,
                                    Screens <- FormPages

\* A page shows each field with a default or blank, and a configuration screen shows an
\* error in place of its form.
ASSUME FormPagesAssumption ==
    /\ FormPages # {}
    /\ \A p \in FormPages :
          /\ p.shown \in [DOMAIN p.shown -> {"none", "default"}]
          /\ p.section \in BOOLEAN /\ p.givesUp \in BOOLEAN /\ p.waits \in BOOLEAN
          /\ p.section => p.givesUp

\* Keys and members have pages of their own.
CallsAre(kinds) == \A c \in Calls : call[c].pc = "idle" \/ call[c].kind \in kinds

\* While a sync is under way, one call at most is.
FewAtOnce ==
    \/ \A y \in Syncs : sync[y].pc = "idle"
    \/ \A c, d \in Calls : c = d \/ call[c].pc = "idle" \/ call[d].pc = "idle"

\* One end user has every key.
OneOwner == [k \in Keys |-> s1]
Inventory == INSTANCE KeyInventory WITH row <- keyRow

\* Two developers, one of whom syncs, and one key.
OneKey ==
    /\ node[k2] = "absent" /\ \A d \in Screens : job[d].keys[k2] = "absent"
    /\ job[d2].pc \in {"idle", "node", "record", "refresh"}

\* One developer syncs keys that nobody disables.
OneScreen ==
    /\ job[d2] = Inventory!Idle /\ shown[d2] = Inventory!NotRead
    /\ \A d \in Screens : job[d].pc \notin {"node", "record"}
    /\ \A k \in Keys : node[k] # "disabled" /\ \A d \in Screens : job[d].keys[k] # "disabled"

\* Two developers paste lists of keys, whatever the nodes hold.
Lists ==
    /\ \A d \in Screens : shown[d] = Inventory!NotRead
    /\ \A k \in Keys : node[k] = "absent"
    /\ \A d \in Screens, k \in Keys : job[d].keys[k] \in {"absent", "enabled"}

----------------------------------------------------------------------------

onchain == <<manager, trust, row, session, page, pendingAction, call, sync, misread>>
forms == <<formPage, stored, value, dirty, touched, formData, formError, read, save>>
inventory == <<node, keyRow, count, shown, job, drifted>>

\* A screen that is not open rests in one state.
QueryShut ==
    /\ now = 0 /\ generation = 1 /\ question = CHOOSE q \in Questions : TRUE
    /\ data = NoData /\ error = TRUE /\ loading = FALSE
    /\ run = [g \in Generations |-> NoRun]
    /\ inFlight = FALSE /\ pending = FALSE /\ actions = 0
OnchainShut == Onchain!Init /\ manager = "other" /\ session = FALSE
                /\ trust = [x \in Things |-> "never"]
                /\ sync = [y \in Syncs |-> Onchain!NoSync]
WizardShut == WizardInit /\ ~ready
FormShut ==
    /\ Forms!Init
    /\ formPage = CHOOSE p \in FormPages : TRUE
    /\ \A f \in Forms!Fields : stored[f] = formPage.shown[f]
InventoryShut == Inventory!Init /\ node = [k \in Keys |-> "absent"]

ScreensInit ==
    \/ /\ screen = "query"
       /\ Init /\ OnchainShut /\ WizardShut /\ FormShut /\ InventoryShut
    \/ /\ screen \in {"keys", "members"}
       /\ QueryShut /\ Onchain!Init /\ WizardShut /\ FormShut /\ InventoryShut
    \/ /\ screen = "wizard"
       /\ QueryShut /\ OnchainShut /\ WizardInit /\ FormShut /\ InventoryShut
    \/ /\ screen = "form"
       /\ QueryShut /\ OnchainShut /\ WizardShut /\ Forms!Init /\ InventoryShut
    \/ /\ screen \in {"one key", "one screen", "lists"}
       /\ QueryShut /\ OnchainShut /\ WizardShut /\ FormShut /\ Inventory!Init
       /\ screen = "one key" => OneKey
       /\ screen = "lists" => Lists

ScreensNext ==
    /\ UNCHANGED screen
    /\ \/ screen = "query" /\ Next /\ UNCHANGED <<onchain, wizard, forms, inventory>>
       \/ /\ \/ screen = "keys" /\ Onchain!Next /\ CallsAre({"add", "remove"})' /\ FewAtOnce'
             \/ screen = "members" /\ Onchain!Next /\ CallsAre({"change"})' /\ FewAtOnce'
          /\ UNCHANGED <<vars, wizard, forms, inventory>>
       \/ screen = "wizard" /\ WizardNext /\ UNCHANGED <<vars, onchain, forms, inventory>>
       \/ screen = "form" /\ Forms!Next /\ UNCHANGED <<vars, onchain, wizard, inventory>>
       \/ /\ \/ screen = "one key" /\ Inventory!Next /\ OneKey'
             \/ screen = "one screen" /\ Inventory!Next /\ OneScreen'
             \/ screen = "lists" /\ Inventory!Next /\ Lists'
          /\ UNCHANGED <<vars, onchain, wizard, forms>>

ScreensSpec ==
    /\ ScreensInit /\ [][ScreensNext]_<<screen, vars, onchain, wizard, forms, inventory>>
    /\ Fairness

----------------------------------------------------------------------------
(* Properties of several modules, by the names the configurations use.       *)

ScreensTypeOK ==
    TypeOK /\ Onchain!TypeOK /\ WizardTypeOK /\ Forms!TypeOK /\ Inventory!TypeOK
RevertsOnlyAfterHandover == Onchain!RevertsOnlyAfterHandover
GoneFromBoth == Onchain!GoneFromBoth
AddedOrNeither == Onchain!AddedOrNeither
UntouchedKept == Forms!UntouchedKept
CleanWhenLoaded == Forms!CleanWhenLoaded
DisabledOnNodes == Inventory!DisabledOnNodes
NoSilentWipe == Inventory!NoSilentWipe
CountsFollow == Inventory!CountsFollow
=============================================================================
