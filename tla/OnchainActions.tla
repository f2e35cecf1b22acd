--------------------------- MODULE OnchainActions ---------------------------
(***************************************************************************)
(* What the console does to a signing group (web/lib/onchain.ts and the    *)
(* group, credentials and login methods screens).  A call is signed in the *)
(* tab and relayed by the platform, or sent by the developer's own wallet  *)
(* and confirmed by the platform afterwards; which of the two depends on   *)
(* who manages the group.  Meanwhile the platform's syncs of the group     *)
(* write what they read of its keys, which may be old by then.             *)
(*                                                                         *)
(* Things are authorization keys: each is generated for one registration,  *)
(* so a key that was removed is never added again.                         *)
(***************************************************************************)
CONSTANTS Things,
          Calls,     \* calls of the console under way at once, a bound
          Syncs,     \* syncs of the group under way at once, a bound
          Nothing    \* what a membership call adds or removes, which is no key

VARIABLES
    manager,   \* the group contract's: the smart wallet, the developer's EOA or another
    trust,     \* the group contract's keys
    row,       \* app_credentials.onchain_status, and whether revoked_at is set
    session,   \* whether this tab holds a signing session
    page,      \* what the screen last read, and useCanSignOnchain's state
    pendingAction,  \* the group screen's
    call,
    sync,      \* syncGroup: the keys it read, until it has written
    misread    \* history: keys that a sync marked removed and the group trusts

vars == <<manager, trust, row, session, page, pendingAction, call, sync, misread>>

Managers == {"smart", "eoa", "other"}
Row == {"absent", "active", "removed", "revoked"}
Page == [manager : Managers, row : [Things -> Row], ready : BOOLEAN]
Transports == {"userop", "wallet", "none"}
Call == [pc : {"idle", "sign", "wallet", "wait", "request", "prove", "drop", "submitted",
               "refresh", "gone"},
         kind : {"add", "remove", "change"}, thing : Things \cup {Nothing},
         proof : Transports,                   \* what the request carries
         tx : {"none", "pending", "mined", "reverted"},
         steady : BOOLEAN,                     \* history: the page knew the manager,
                                               \* who has not changed since
         misled : BOOLEAN]                     \* history: the row it read was misread
Idle == [pc |-> "idle", kind |-> "change", thing |-> Nothing, proof |-> "none",
         tx |-> "none", steady |-> TRUE, misled |-> FALSE]
Sync == [pc : {"idle", "write"}, keys : SUBSET Things]
NoSync == [pc |-> "idle", keys |-> {}]

TypeOK ==
    /\ manager \in Managers
    /\ trust \in [Things -> {"never", "trusted", "removed"}]
    /\ row \in [Things -> Row]
    /\ session \in BOOLEAN
    /\ page \in Page
    /\ pendingAction \in BOOLEAN
    /\ call \in [Calls -> Call]
    /\ sync \in [Syncs -> Sync]
    /\ misread \subseteq Things

Trusted == {x \in Things : trust[x] = "trusted"}

\* The screen has just loaded on a group that trusts some keys, all recorded.  Syncs
\* under way may have read the group before it trusted all of them.
Init ==
    /\ manager \in Managers
    /\ trust \in [Things -> {"never", "trusted"}]
    /\ row = [x \in Things |-> IF trust[x] = "trusted" THEN "active" ELSE "absent"]
    /\ session \in BOOLEAN
    /\ page = [manager |-> manager, row |-> row, ready |-> session]
    /\ pendingAction = FALSE
    /\ call = [c \in Calls |-> Idle]
    /\ sync \in [Syncs -> {NoSync} \cup [pc : {"write"}, keys : SUBSET Trusted]]
    /\ misread = {}

onChain == <<manager, trust>>
platform == <<row, sync, misread>>
tab == <<session, page, pendingAction>>

----------------------------------------------------------------------------
(* Choosing who signs                                                      *)

\* Whatever this tab can do.
ByCapability(p) ==
    IF p.ready THEN "userop" ELSE IF p.manager = "other" THEN "none" ELSE "wallet"

\* chooseTransport: the manager decides, not what the tab could do.
Transport(p) ==
    CASE p.manager = "smart" /\ p.ready -> "userop"
      [] p.manager = "eoa" -> "wallet"
      [] OTHER -> "none"

\* The account a proof comes from.
From(proof) == IF proof = "userop" THEN "smart" ELSE "eoa"

\* useCanSignOnchain looks again only when the session's user is a new object.
UserChanged ==
    /\ page' = [page EXCEPT !.ready = session]
    /\ UNCHANGED <<onChain, platform, session, pendingAction, call>>

\* The session expires, or a node rejects it.
DropSession ==
    /\ session
    /\ session' = FALSE
    /\ UNCHANGED <<onChain, platform, page, pendingAction, call>>

\* The notice offers it in one case only, and refreshes the user afterwards.
RestoreSession ==
    /\ page.manager = "smart" /\ ~page.ready
    /\ session' = TRUE
    /\ page' = [page EXCEPT !.ready = TRUE]
    /\ UNCHANGED <<onChain, platform, pendingAction, call>>

----------------------------------------------------------------------------
(* The clicks                                                              *)

Begin(c, kind, x, step) ==
    /\ call[c].pc = "idle"
    /\ call' = [call EXCEPT ![c] = [pc |-> step, kind |-> kind, thing |-> x, proof |-> "none",
                                    tx |-> "none", steady |-> page.manager = manager,
                                    misled |-> FALSE]]
    /\ UNCHANGED <<onChain, platform, session, page>>

\* submitGroupCall, with the transport the button was drawn with.
Submit(c, kind, x) ==
    /\ Transport(page) # "none"
    /\ Begin(c, kind, x, IF Transport(page) = "userop" THEN "sign" ELSE "wallet")

\* A key is generated in the browser.
GenerateKey(c, x) ==
    /\ trust[x] = "never" /\ \A d \in Calls : call[d].thing # x
    /\ Submit(c, "add", x)
    /\ UNCHANGED pendingAction

\* A key that the screen shows as trusted goes from the group first.
RevokeKey(c, x) ==
    /\ page.row[x] = "active"
    /\ Submit(c, "remove", x)
    /\ UNCHANGED pendingAction

\* One that it shows otherwise goes without proof, and so does an app secret.
RevokeRow(c, x) ==
    /\ page.row[x] = "removed"
    /\ Begin(c, "remove", x, "request")
    /\ UNCHANGED pendingAction

\* The membership buttons look at pendingAction and, those that remove a queued
\* removal apart, at the session, whichever transport is due.
ChangeMembership(c) ==
    /\ ~pendingAction
    /\ Submit(c, "change", Nothing)
    /\ pendingAction' = TRUE

\* The invitation dialog looks at the session alone, when it is opened.
Invite(c) ==
    /\ page.ready
    /\ Submit(c, "change", Nothing)
    /\ pendingAction' = TRUE

----------------------------------------------------------------------------
(* Proof                                                                   *)

Goto(c, step) == call' = [call EXCEPT ![c].pc = step]

\* signCall and buildSignedUserOp: the session is looked up again.
Sign(c) ==
    /\ call[c].pc = "sign" /\ session
    /\ call' = [call EXCEPT ![c].pc = "request", ![c].proof = "userop"]
    /\ UNCHANGED <<onChain, platform, tab>>

\* The developer confirms in the wallet, and the console has the hash.
SendTransaction(c) ==
    /\ call[c].pc = "wallet"
    /\ call' = [call EXCEPT ![c].pc = "wait", ![c].proof = "wallet", ![c].tx = "pending"]
    /\ UNCHANGED <<onChain, platform, tab>>

\* waitForReceipt, of which the screens await the outcome.
FindReceipt(c) ==
    /\ call[c].pc = "wait" /\ call[c].tx = "mined"
    /\ Goto(c, "request")
    /\ UNCHANGED <<onChain, platform, tab>>

\* The call is over for the screen: its transaction may be still to come.
Over(c) ==
    /\ call' = [call EXCEPT ![c] = IF call[c].tx = "pending" THEN [@ EXCEPT !.pc = "gone"] ELSE Idle]
    /\ pendingAction' = (pendingAction /\ call[c].kind # "change")

FindRevert(c) ==
    /\ call[c].pc = "wait" /\ call[c].tx = "reverted"
    /\ Over(c)
    /\ UNCHANGED <<onChain, platform, session, page>>

\* Five minutes have passed.  The transaction may still land.
GiveUp(c) ==
    /\ call[c].pc = "wait"
    /\ Over(c)
    /\ UNCHANGED <<onChain, platform, session, page>>

----------------------------------------------------------------------------
(* The group contract and the network before it                            *)

\* The group takes a call from its manager alone, and removes only what it has.  What
\* else may turn a membership change down, a removal queued already or one whose time
\* has not come, is left out.
Takes(c) ==
    /\ From(call[c].proof) = manager
    /\ call[c].kind = "remove" => trust[call[c].thing] = "trusted"

Include(c) ==
    /\ call[c].tx = "pending"
    /\ trust' = IF Takes(c) /\ call[c].kind # "change"
                THEN [trust EXCEPT ![call[c].thing] = IF call[c].kind = "add" THEN "trusted"
                                                      ELSE "removed"]
                ELSE trust
    /\ call' = [call EXCEPT ![c] = IF @.pc = "gone" THEN Idle
                                   ELSE [@ EXCEPT !.tx = IF Takes(c) THEN "mined" ELSE "reverted"]]
    /\ UNCHANGED <<manager, platform, tab>>

Lose(c) ==
    /\ call[c].tx = "pending"
    /\ call' = [call EXCEPT ![c] = IF @.pc = "gone" THEN Idle ELSE [@ EXCEPT !.tx = "none"]]
    /\ UNCHANGED <<onChain, platform, tab>>

TransferManager(m) ==
    /\ m # manager
    /\ manager' = m
    /\ call' = [c \in Calls |-> IF call[c].pc = "idle" THEN call[c]
                                ELSE [call[c] EXCEPT !.steady = FALSE]]
    /\ UNCHANGED <<trust, platform, tab>>

----------------------------------------------------------------------------
(* The platform's syncs: of the timer, and of whoever presses the button   *)

ReadGroup(y) ==
    /\ sync[y].pc = "idle"
    /\ sync' = [sync EXCEPT ![y] = [pc |-> "write", keys |-> Trusted]]
    /\ UNCHANGED <<onChain, row, misread, tab, call>>

\* Each key that was read, unless it has a row, revoked or not.
AdoptAuthKey(y, x) ==
    /\ sync[y].pc = "write" /\ x \in sync[y].keys
    /\ row[x] = "absent"
    /\ row' = [row EXCEPT ![x] = "active"]
    /\ UNCHANGED <<onChain, sync, misread, tab, call>>

\* Rows are marked after what was read, however old; a revoked one stays as it is.
SyncAuthKeyStatuses(y) ==
    /\ sync[y].pc = "write" /\ \A x \in sync[y].keys : row[x] # "absent"
    /\ row' = [x \in Things |-> IF row[x] \in {"absent", "revoked"} THEN row[x]
                                ELSE IF x \in sync[y].keys THEN "active" ELSE "removed"]
    /\ misread' = {x \in Trusted : row'[x] = "removed"}
    /\ sync' = [sync EXCEPT ![y] = NoSync]
    /\ UNCHANGED <<onChain, tab, call>>

\* One of its earlier statements fails.
FailSync(y) ==
    /\ sync[y].pc = "write"
    /\ sync' = [sync EXCEPT ![y] = NoSync]
    /\ UNCHANGED <<onChain, row, misread, tab, call>>

----------------------------------------------------------------------------
(* The request                                                             *)

\* A new key's proof goes in a field of its own inside user_op, where the platform
\* does not look for it: the body does not parse.
RefuseKey(c) ==
    /\ call[c].pc = "request" /\ call[c].kind = "add"
    /\ Over(c)
    /\ UNCHANGED <<onChain, platform, session, page>>

\* Whether the route needs proof of the change: of a removal, the row decides.
NeedsProof(c) == call[c].kind = "remove" => row[call[c].thing] = "active"

\* The route lists the rows that are not revoked, and does not look at them again.
ReadRow(c) ==
    /\ call[c].pc = "request" /\ call[c].kind # "add"
    /\ call[c].kind = "remove" => row[call[c].thing] \in {"active", "removed"}
    /\ call' = [call EXCEPT ![c].pc = IF NeedsProof(c) THEN "prove" ELSE "drop",
                            ![c].misled = call[c].thing \in misread]
    /\ UNCHANGED <<onChain, platform, tab>>

\* The platform relays the operation, having checked what it does.
Relay(c) ==
    /\ call[c].pc = "prove" /\ call[c].proof = "userop"
    /\ call' = [call EXCEPT ![c].pc = "submitted", ![c].tx = "pending"]
    /\ UNCHANGED <<onChain, platform, tab>>

\* What is left of the route once the change is proved, or needs no proof: a row is
\* revoked once.
Record(c) ==
    /\ call[c].kind = "remove" => row[call[c].thing] # "revoked"
    /\ row' = IF call[c].kind = "remove" THEN [row EXCEPT ![call[c].thing] = "revoked"] ELSE row
    /\ Goto(c, "refresh")
    /\ UNCHANGED <<onChain, sync, misread, tab>>

\* The row goes as soon as the operation is sent.
ConfirmSent(c) ==
    /\ \/ call[c].pc = "submitted"
       \/ call[c].pc = "prove" /\ call[c].proof = "wallet" /\ call[c].tx = "mined"
    /\ Record(c)

\* The receipt of the operation, or of the transaction whose hash was sent.
Confirm(c) ==
    /\ \/ call[c].pc = "submitted"
       \/ call[c].pc = "prove" /\ call[c].proof = "wallet"
    /\ call[c].tx = "mined"
    /\ Record(c)

\* The group did not trust it, as far as the platform knew when it read the row.
DropRow(c) ==
    /\ call[c].pc = "drop"
    /\ Record(c)

\* The screen reads again, at the end of a call and whenever it is opened.
Read ==
    /\ page' = [page EXCEPT !.manager = manager, !.row = row]
    /\ UNCHANGED <<onChain, platform, session>>

Refresh(c) == call[c].pc = "refresh" /\ Read /\ Over(c)

Reload == Read /\ UNCHANGED <<pendingAction, call>>

\* No session, another account in the wallet, a rejected prompt, a refusal of the
\* platform or an answer that is lost.
Fail(c) ==
    /\ call[c].pc \notin {"idle", "gone"}
    /\ Over(c)
    /\ UNCHANGED <<onChain, platform, session, page>>

----------------------------------------------------------------------------

ClickOn(c) ==
    \/ \E x \in Things : GenerateKey(c, x) \/ RevokeKey(c, x) \/ RevokeRow(c, x)
    \/ ChangeMembership(c) \/ Invite(c)

Proceed(c) ==
    \/ Sign(c) \/ SendTransaction(c) \/ FindReceipt(c) \/ FindRevert(c) \/ GiveUp(c)
    \/ RefuseKey(c) \/ ReadRow(c) \/ Relay(c) \/ Confirm(c) \/ DropRow(c)
    \/ Refresh(c) \/ Fail(c)

Network ==
    \/ \E c \in Calls : Include(c) \/ Lose(c)
    \/ \E m \in Managers : TransferManager(m)

SyncGroup(y) ==
    \/ ReadGroup(y) \/ SyncAuthKeyStatuses(y) \/ FailSync(y)
    \/ \E x \in Things : AdoptAuthKey(y, x)

Next ==
    \/ \E c \in Calls : ClickOn(c) \/ Proceed(c)
    \/ UserChanged \/ DropSession \/ RestoreSession \/ Reload
    \/ Network
    \/ \E y \in Syncs : SyncGroup(y)

Spec == Init /\ [][Next]_vars

----------------------------------------------------------------------------
(* Properties                                                              *)

\* A call reverts only when the group changed hands since the screen read it, or
\* the key had gone from it already: a developer never watches the progress of an
\* operation that the console could have known to be sent from the wrong account.
RevertsOnlyAfterHandover ==
    [][\A c \in Calls :
          (call'[c].tx = "reverted" /\ call[c].tx # "reverted")
             => ~call[c].steady \/ (call[c].kind = "remove" /\ trust[call[c].thing] # "trusted")]_vars

\* A key that the operators still accept goes from the console only by a request that
\* found its row marked removed by a sync that had read the group before the key was
\* there: any other removal waits for the group to let go of the key.
GoneFromBoth ==
    [][\A x \in Things :
          (row[x] # "revoked" /\ row'[x] = "revoked" /\ trust[x] = "trusted") =>
             \E c \in Calls : call[c].pc = "drop" /\ call[c].thing = x /\ call[c].misled]_vars

\* What the credentials screen says of a new key: the platform registers it with
\* the group and records it, or does neither.
AddedOrNeither ==
    [][\A c \in Calls :
          (call[c].kind = "add" /\ call[c].pc = "request" /\ call'[c].pc = "idle")
             => (trust[call[c].thing] = "trusted" <=> row[call[c].thing] = "active")]_vars
=============================================================================
