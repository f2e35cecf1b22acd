---------------------------- MODULE ConsoleForms ----------------------------
(***************************************************************************)
(* The console's forms: the configuration screens, which share             *)
(* components/console/SettingsForm.tsx and each save one section of the    *)
(* settings document, and the settings of an app, an organization and an   *)
(* account, which save a record.  One developer's screen, the server, and  *)
(* another developer who saves the same page elsewhere.                    *)
(*                                                                         *)
(* A field is absent or blank ("none"), holds the default its screen shows *)
(* for it, or something else.  Reads follow useQuery (ScreenQuery): only   *)
(* the latest one counts.                                                  *)
(***************************************************************************)
CONSTANT Screens    \* the pages, as the section of their fields that is followed

VARIABLES
    page,
    stored,  \* what the database holds of it
    value, dirty, touched,   \* the form; touched since it was last filled in: history
    data, error, read,       \* useQuery: what was last loaded, and the latest read
    save                     \* useAction: seen and touched as of the click are history

screen == <<value, dirty, touched, data, error, read, save>>
vars == <<page, stored, screen>>

----------------------------------------------------------------------------
(* The pages                                                               *)

\* shown: the fields with the default the page fills in, the others starting
\* blank.  section: replaced as a whole and saved only when dirty; otherwise a
\* record, of which the server leaves alone what is sent blank.  gives up: an error
\* takes the place of the form.  waits: there is no form until there is data.
Section(defaults, others, files) ==
    [shown |-> [f \in defaults \cup others |-> IF f \in defaults THEN "default" ELSE "none"],
     files |-> files, section |-> TRUE, givesUp |-> TRUE, waits |-> FALSE]

Record(defaults, others) == [Section(defaults, others, {}) EXCEPT !.section = FALSE]

Branding == Section({"theme", "accent_color", "corner_radius", "show_wallet_ui"},
                    {"app_name", "logo_url", "header_text", "login_message", "terms_url",
                     "privacy_url"}, {"logo_url"})
EmbeddedWallets == Section({"creation", "curves", "default_curve", "prover",
                            "session_ttl_seconds", "require_confirmation_on_transaction",
                            "chain_ids"},
                           {"require_confirmation_on_sign", "default_chain_id"}, {})
SmartAccounts == Section({"enabled", "implementation", "paymaster_enabled",
                          "sponsor_first_deployment"},
                         {"entrypoint", "bundler_url", "paymaster_url"}, {})
SessionSigners == Section({"enabled", "require_scope", "default_ttl_seconds",
                           "max_ttl_seconds"}, {}, {})
Funding == Section({"enabled", "providers", "default_asset"}, {}, {})
LoginMethods == Section({}, {"auth_key", "onchain_resolver", "email", "sms", "passkey",
                             "wallet", "farcaster", "telegram", "guest"}, {})

\* The environment starts as "development".
AppSettings == Record({"environment"}, {"name", "description", "website_url"})
\* The user is the session's.
Account == [Record({}, {"display_name", "email"}) EXCEPT !.givesUp = FALSE, !.waits = TRUE]
Organization == [Record({}, {"name", "billing_email", "website_url", "logo_url"})
                    EXCEPT !.givesUp = FALSE, !.files = {"logo_url"}]

Pages == {Branding, EmbeddedWallets, SmartAccounts, SessionSigners, Funding, LoginMethods,
          AppSettings, Account, Organization}

----------------------------------------------------------------------------

Fields == DOMAIN page.shown
Values == {"none", "default", "other"}
Docs == [Fields -> Values]
NoDoc == <<>>
Choices(f) == {page.shown[f], "other"}

Read == [state : {"none", "asked", "served"}, doc : Docs \cup {NoDoc}, bySave : BOOLEAN]
Save == [pc : {"idle", "put", "stored", "refresh"}, doc : Docs \cup {NoDoc},
         seen : Docs \cup {NoDoc}, touched : SUBSET Fields]
NoRead == [state |-> "none", doc |-> NoDoc, bySave |-> FALSE]
NoSave == [pc |-> "idle", doc |-> NoDoc, seen |-> NoDoc, touched |-> {}]
Asked(bySave) == [state |-> "asked", doc |-> NoDoc, bySave |-> bySave]

TypeOK ==
    /\ page \in Screens
    /\ stored \in Docs /\ value \in Docs
    /\ dirty \in BOOLEAN /\ error \in BOOLEAN
    /\ touched \subseteq Fields
    /\ data \in Docs \cup {NoDoc}
    /\ read \in Read
    /\ save \in Save

\* The screen has just mounted.  A record has every field that has a default.
Init ==
    /\ page \in Screens
    /\ stored \in Docs
    /\ \A f \in Fields : /\ page.shown[f] = "none" => stored[f] # "default"
                         /\ ~page.section /\ page.shown[f] # "none" => stored[f] # "none"
    /\ value = page.shown /\ dirty = FALSE /\ touched = {}
    /\ data = NoDoc /\ error = FALSE /\ read = Asked(FALSE)
    /\ save = NoSave

----------------------------------------------------------------------------
(* Filling the form                                                        *)

\* The defaults on top of what was loaded.
MergeReversed(doc) == [f \in Fields |-> IF page.shown[f] # "none" THEN page.shown[f] ELSE doc[f]]

\* {...defaults, ...loaded}
Merge(doc) == [f \in Fields |-> IF doc[f] = "none" THEN page.shown[f] ELSE doc[f]]

\* The effect of new data.  It does not ask whether the form is dirty.
Fill(doc) ==
    /\ data' = doc /\ error' = FALSE
    /\ value' = Merge(doc) /\ dirty' = FALSE /\ touched' = {}

HasForm == /\ page.givesUp => ~error
           /\ page.waits => data # NoDoc

\* Of an uploaded file, the branding screen's form can be rid.
Type(f, v) ==
    /\ HasForm
    /\ v \in Choices(f) /\ (f \in page.files => page.section /\ v = "none")
    /\ value' = [value EXCEPT ![f] = v]
    /\ dirty' = TRUE /\ touched' = touched \cup {f}
    /\ UNCHANGED <<page, stored, data, error, read, save>>

\* An upload ends long after the file was chosen: whatever is on the screen by now.
UploadDone(f) ==
    /\ f \in page.files
    /\ value' = [value EXCEPT ![f] = "other"]
    /\ dirty' = TRUE /\ touched' = touched \cup {f}
    /\ UNCHANGED <<page, stored, data, error, read, save>>

----------------------------------------------------------------------------
(* Reading                                                                 *)

Serve ==
    /\ read.state = "asked"
    /\ read' = [read EXCEPT !.state = "served", !.doc = stored]
    /\ UNCHANGED <<page, stored, value, dirty, touched, data, error, save>>

Answer ==
    /\ read.state = "served"
    /\ Fill(read.doc)
    /\ read' = NoRead
    /\ save' = IF read.bySave THEN NoSave ELSE save
    /\ UNCHANGED <<page, stored>>

\* The save has succeeded all the same: setDirty(false).
FailRead ==
    /\ read.state # "none"
    /\ error' = TRUE
    /\ read' = NoRead
    /\ save' = IF read.bySave THEN NoSave ELSE save
    /\ dirty' = (dirty /\ ~read.bySave)
    /\ UNCHANGED <<page, stored, value, touched, data>>

Retry ==
    /\ page.givesUp /\ error
    /\ read' = Asked(FALSE)
    /\ UNCHANGED <<page, stored, value, dirty, touched, data, error, save>>

----------------------------------------------------------------------------
(* Saving                                                                  *)

\* The form as the click finds it.  Nothing asks whether it has been filled in.
Submit ==
    /\ save.pc = "idle" /\ HasForm
    /\ page.section => dirty
    /\ save' = [pc |-> "put", doc |-> value, seen |-> data, touched |-> touched]
    /\ UNCHANGED <<page, stored, value, dirty, touched, data, error, read>>

\* UpdateSettings replaces the section; UpdateApp, UpdateOrg and UpdateProfile take
\* a blank field for one that is not sent.
Written(doc) ==
    IF page.section THEN doc
    ELSE [f \in Fields |-> IF doc[f] = "none" THEN stored[f] ELSE doc[f]]

Put ==
    /\ save.pc = "put"
    /\ stored' = Written(save.doc)
    /\ save' = [save EXCEPT !.pc = "stored"]
    /\ UNCHANGED <<page, value, dirty, touched, data, error, read>>

\* The form is clean once the server has the document.
DoneAtOnce ==
    /\ save.pc = "stored"
    /\ save' = NoSave /\ dirty' = FALSE
    /\ UNCHANGED <<page, stored, value, touched, data, error, read>>

\* The answer is there: the screen reads again, giving up any read under way.
ReadAgain ==
    /\ save.pc = "stored"
    /\ save' = [save EXCEPT !.pc = "refresh"] /\ read' = Asked(TRUE)
    /\ UNCHANGED <<page, stored, value, dirty, touched, data, error>>

\* The developer has retried meanwhile: the save's own read comes back unheeded.
Overtaken ==
    /\ save.pc = "refresh" /\ ~read.bySave
    /\ save' = NoSave /\ dirty' = FALSE
    /\ UNCHANGED <<page, stored, value, touched, data, error, read>>

FailSave ==
    /\ save.pc \in {"put", "stored"}
    /\ save' = NoSave
    /\ UNCHANGED <<page, stored, value, dirty, touched, data, error, read>>

SaveElsewhere(f, v) ==
    /\ v \in Choices(f)
    /\ stored' = [stored EXCEPT ![f] = v]
    /\ stored' # stored
    /\ UNCHANGED <<page, screen>>

----------------------------------------------------------------------------

Next ==
    \/ \E f \in Fields : UploadDone(f) \/ \E v \in Values : Type(f, v) \/ SaveElsewhere(f, v)
    \/ Serve \/ Answer \/ FailRead \/ Retry
    \/ Submit \/ Put \/ ReadAgain \/ Overtaken \/ FailSave

Spec == Init /\ [][Next]_vars

----------------------------------------------------------------------------
(* Properties                                                              *)

\* Saving changes a field the developer did not touch only by writing down the
\* default that the form showed for it, or when the form was not showing what the
\* server holds: it had not loaded, or somebody has saved since.
UntouchedKept ==
    [][Put => \A f \in Fields \ save.touched :
                 \/ stored'[f] = stored[f]
                 \/ stored[f] = "none" /\ stored'[f] = page.shown[f]
                 \/ save.seen # stored]_vars

\* A configuration form turns from unsaved to saved only when it shows what the
\* screen last loaded, although the developer may type during the save and the read
\* after it may fail; except that a retry may overtake that read, whose return then
\* passes off what was typed since as saved.
CleanWhenLoaded ==
    [][(page.section /\ dirty /\ ~dirty' /\ HasForm' /\ data' # NoDoc)
          => value' = Merge(data') \/ Overtaken]_vars
=============================================================================
