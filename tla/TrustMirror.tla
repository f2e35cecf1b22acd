---------------------------- MODULE TrustMirror ----------------------------
(***************************************************************************)
(* What an app's group trusts - authorization keys and login issuers - and *)
(* the platform's mirror of it: app_credentials and app_issuers, the part  *)
(* of syncGroup that adopts and reconciles them, and the handlers that     *)
(* write the chain first and the mirror second (backend/internal/api/      *)
(* handlers_group.go, handlers_apps.go, backend/internal/store/apps.go).   *)
(*                                                                         *)
(* Each SQL statement is one action.  A user operation is an Add or Remove *)
(* of its own, included when the chain pleases; the handler then confirms  *)
(* it, as it confirms a transaction the developer sent, however long ago.  *)
(***************************************************************************)
EXTENDS Naturals

CONSTANTS Groups,    \* signing groups the app may come to be linked to
          Keys,      \* authorization keys
          Issuers,   \* login issuers
          Rows,      \* rows app_credentials may come to hold
          Requests,  \* slots for requests being served at the same time
          Timer,     \* the goroutine running SyncAllGroups
          None       \* no group, no row, no key or issuer

\* What the constants are to be: none of them doubles as another.
Apart ==
    /\ None \notin Groups \cup Keys \cup Issuers \cup Rows
    /\ Timer \notin Requests /\ Keys \cap Issuers = {}

VARIABLES
    trust,    \* the chain: whether each group trusts each key and issuer, and ever did
    linked,   \* apps.group_address
    creds,    \* the auth_key rows of app_credentials
    issuers,  \* app_issuers: onchain_status of each issuer, "absent" without a row
    req,      \* the local state of each request, and of the timer
    calm      \* from here on nobody touches the group or the console, and reads succeed

vars == <<trust, linked, creds, issuers, req, calm>>

Slots == Requests \cup {Timer}
Things == Keys \cup Issuers

Status == {"absent", "unknown", "pending", "active", "removed"}
Credential == [key : Keys \cup {None}, status : Status, revoked : BOOLEAN]
NoCredential == [key |-> None, status |-> "absent", revoked |-> FALSE]

\* "again": trusted, and once removed in between.
Trust == {"never", "trusted", "removed", "again"}
Trusts(g, x) == trust[g][x] \in {"trusted", "again"}
WasAdded(g, x) == trust[g][x] # "never"
WasRemoved(g, x) == trust[g][x] \in {"removed", "again"}

Step == {"idle", "readIssuers", "readKeys", "adoptIssuers", "adoptKeys", "confirm",
         "record", "revoke", "upsert", "delete"}
Request == [pc : Step, group : Groups \cup {None}, thing : Things \cup {None},
            row : Rows \cup {None}, seen : SUBSET Things, todo : SUBSET Things,
            next : {"idle", "record", "revoke", "upsert", "delete"}]   \* after the chain
Idle == [pc |-> "idle", group |-> None, thing |-> None, row |-> None, seen |-> {},
         todo |-> {}, next |-> "idle"]

TypeOK ==
    /\ trust \in [Groups -> [Things -> Trust]]
    /\ linked \in Groups \cup {None}
    /\ creds \in [Rows -> Credential]
    /\ issuers \in [Issuers -> Status]
    /\ req \in [Slots -> Request]
    /\ calm \in BOOLEAN

\* A group may have been created with keys and issuers already in it.
Init ==
    /\ trust \in [Groups -> [Things -> {"never", "trusted"}]]
    /\ linked = None
    /\ creds = [c \in Rows |-> NoCredential]
    /\ issuers = [i \in Issuers |-> "absent"]
    /\ req = [r \in Slots |-> Idle]
    /\ calm = FALSE

Finish(r) == [req EXCEPT ![r] = Idle]

----------------------------------------------------------------------------
(* The chain                                                               *)

Add(g, x) ==
    /\ ~calm /\ ~Trusts(g, x)
    /\ trust' = [trust EXCEPT ![g][x] = IF @ = "never" THEN "trusted" ELSE "again"]
    /\ UNCHANGED <<linked, creds, issuers, req, calm>>

Remove(g, x) ==
    /\ ~calm /\ Trusts(g, x)
    /\ trust' = [trust EXCEPT ![g][x] = "removed"]
    /\ UNCHANGED <<linked, creds, issuers, req, calm>>

----------------------------------------------------------------------------
(* syncGroup                                                               *)

Start(r, g) ==
    /\ req[r].pc = "idle"
    /\ req' = [req EXCEPT ![r] = [Idle EXCEPT !.pc = "readIssuers", !.group = g]]

StartSync(r) ==
    /\ linked # None
    /\ Start(r, linked)
    /\ UNCHANGED <<trust, linked, creds, issuers, calm>>

\* AttachGroup, at the end of an attach or a deploy, and the sync that follows.
LinkGroup(r, g) ==
    /\ ~calm /\ linked # g
    /\ linked' = g
    /\ Start(r, g)
    /\ UNCHANGED <<trust, creds, issuers, calm>>

ReadIssuers(r) ==
    LET q == req[r] IN
    /\ q.pc = "readIssuers"
    /\ req' = [req EXCEPT ![r].pc = "readKeys", ![r].seen = {i \in Issuers : Trusts(q.group, i)}]
    /\ UNCHANGED <<trust, linked, creds, issuers, calm>>

ReadKeys(r) ==
    LET q == req[r]
        seen == q.seen \cup {k \in Keys : Trusts(q.group, k)} IN
    /\ q.pc = "readKeys"
    /\ req' = [req EXCEPT ![r].pc = "adoptIssuers", ![r].seen = seen, ![r].todo = seen]
    /\ UNCHANGED <<trust, linked, creds, issuers, calm>>

AdoptIssuer(r, i) ==
    /\ req[r].pc = "adoptIssuers" /\ i \in req[r].todo
    /\ issuers' = [issuers EXCEPT ![i] = "active"]
    /\ req' = [req EXCEPT ![r].todo = @ \ {i}]
    /\ UNCHANGED <<trust, linked, creds, calm>>

\* A status pass that marks what the chain has and leaves the rest as it is.
MarkActiveIssuers(r) ==
    LET q == req[r] IN
    /\ q.pc = "adoptIssuers" /\ q.todo \cap Issuers = {}
    /\ issuers' = [i \in Issuers |-> IF issuers[i] # "absent" /\ i \in q.seen
                                     THEN "active" ELSE issuers[i]]
    /\ req' = [req EXCEPT ![r].pc = "adoptKeys"]
    /\ UNCHANGED <<trust, linked, creds, calm>>

SyncIssuerStatuses(r) ==
    LET q == req[r] IN
    /\ q.pc = "adoptIssuers" /\ q.todo \cap Issuers = {}
    /\ issuers' = [i \in Issuers |-> IF issuers[i] = "absent" THEN "absent"
                                     ELSE IF i \in q.seen THEN "active" ELSE "removed"]
    /\ req' = [req EXCEPT ![r].pc = "adoptKeys"]
    /\ UNCHANGED <<trust, linked, creds, calm>>

Free(c) == creds[c].status = "absent"

\* INSERT ... WHERE NOT EXISTS a row for the key, revoked rows included.
AdoptAuthKey(r, k) ==
    /\ req[r].pc = "adoptKeys" /\ k \in req[r].todo
    /\ IF \E c \in Rows : creds[c].key = k THEN UNCHANGED creds
       ELSE \E c \in Rows : /\ Free(c)
                            /\ creds' = [creds EXCEPT ![c] = [key |-> k, status |-> "active",
                                                              revoked |-> FALSE]]
    /\ req' = [req EXCEPT ![r].todo = @ \ {k}]
    /\ UNCHANGED <<trust, linked, issuers, calm>>

SyncAuthKeyStatuses(r) ==
    LET q == req[r] IN
    /\ q.pc = "adoptKeys" /\ q.todo \cap Keys = {}
    /\ creds' = [c \in Rows |->
                   IF Free(c) \/ creds[c].revoked THEN creds[c]
                   ELSE [creds[c] EXCEPT !.status = IF creds[c].key \in q.seen
                                                    THEN "active" ELSE "removed"]]
    /\ req' = Finish(r)
    /\ UNCHANGED <<trust, linked, issuers, calm>>

----------------------------------------------------------------------------
(* The handlers                                                            *)

Ask(r, x, c, chain, write) ==
    /\ ~calm /\ req[r].pc = "idle"
    /\ req' = [req EXCEPT ![r] =
                [Idle EXCEPT !.pc = IF chain THEN "confirm" ELSE write, !.thing = x, !.row = c,
                             !.group = linked, !.next = IF chain THEN write ELSE "idle"]]
    /\ UNCHANGED <<trust, linked, creds, issuers, calm>>

\* handleCreateCredential: on-chain first wherever there is a group.
CreateCredential(r, k) == Ask(r, k, None, linked # None, "record")

\* handleRevokeCredential: on-chain first where the row says the key is active.
RevokeAsked(r, c) ==
    /\ ~Free(c) /\ ~creds[c].revoked
    /\ Ask(r, creds[c].key, c, creds[c].status = "active" /\ linked # None, "revoke")

\* handleUpsertIssuer: "same" is sameClientIDs, which spares the chain an edit of
\* a label.
SaveIssuer(r, i, same) ==
    Ask(r, i, None, linked # None /\ ~(issuers[i] = "active" /\ same), "upsert")

\* handleRemoveIssuer.
DropIssuer(r, i) ==
    /\ issuers[i] # "absent"
    /\ Ask(r, i, None, linked # None, "delete")

\* The call that was confirmed, now or long ago: the key or the issuer is checked
\* against the calldata, except that adding an issuer is not.
Done(q) ==
    CASE q.next = "record" -> WasAdded(q.group, q.thing)
      [] q.next \in {"revoke", "delete"} -> WasRemoved(q.group, q.thing)
      [] q.next = "upsert" -> \E i \in Issuers : WasAdded(q.group, i)
      [] OTHER -> FALSE

\* A hash or an operation taken for done as soon as it is sent.
ConfirmUnseen(r) ==
    /\ req[r].pc = "confirm"
    /\ req' = [req EXCEPT ![r].pc = req[r].next, ![r].next = "idle"]
    /\ UNCHANGED <<trust, linked, creds, issuers, calm>>

\* applyOnchainChange.
Confirm(r) ==
    /\ req[r].pc = "confirm" /\ Done(req[r])
    /\ req' = [req EXCEPT ![r].pc = req[r].next, ![r].next = "idle"]
    /\ UNCHANGED <<trust, linked, creds, issuers, calm>>

RecordAuthKey(r) ==
    LET q == req[r] IN
    /\ q.pc = "record"
    /\ \E c \in Rows : /\ Free(c)
                       /\ creds' = [creds EXCEPT ![c] =
                             [key |-> q.thing, revoked |-> FALSE,
                              status |-> IF q.group = None THEN "pending" ELSE "active"]]
    /\ req' = Finish(r)
    /\ UNCHANGED <<trust, linked, issuers, calm>>

RevokeCredential(r) ==
    /\ req[r].pc = "revoke"
    /\ creds' = [creds EXCEPT ![req[r].row].revoked = TRUE]
    /\ req' = Finish(r)
    /\ UNCHANGED <<trust, linked, issuers, calm>>

\* An existing row keeps the status it has.
UpsertIssuer(r) ==
    /\ req[r].pc = "upsert"
    /\ issuers' = [issuers EXCEPT ![req[r].thing] = IF @ = "absent" THEN "unknown" ELSE @]
    /\ req' = Finish(r)
    /\ UNCHANGED <<trust, linked, creds, calm>>

\* The row kept, and marked.
SoftDeleteIssuer(r) ==
    LET i == req[r].thing IN
    /\ req[r].pc = "delete"
    /\ issuers' = [issuers EXCEPT ![i] = "revoked"]
    /\ req' = Finish(r)
    /\ UNCHANGED <<trust, linked, creds, calm>>

\* The row is deleted by its id: whoever else was about to delete it finds that
\* nothing is left to do, even if a sync has adopted the issuer anew.
RemoveIssuer(r) ==
    LET i == req[r].thing IN
    /\ req[r].pc = "delete"
    /\ issuers' = [issuers EXCEPT ![i] = "absent"]
    /\ req' = [s \in Slots |-> IF req[s].thing = i /\ "delete" \in {req[s].pc, req[s].next}
                               THEN Idle ELSE req[s]]
    /\ UNCHANGED <<trust, linked, creds, calm>>

\* A failed read or write, a refusal, the deadline, a restart: what is written stays.
Abandon(r) ==
    /\ ~calm /\ req[r].pc # "idle"
    /\ req' = Finish(r)
    /\ UNCHANGED <<trust, linked, creds, issuers, calm>>

CalmDown ==
    /\ ~calm
    /\ calm' = TRUE
    /\ UNCHANGED <<trust, linked, creds, issuers, req>>

----------------------------------------------------------------------------

Run(r) ==
    \/ ReadIssuers(r) \/ ReadKeys(r) \/ SyncIssuerStatuses(r) \/ SyncAuthKeyStatuses(r)
    \/ \E i \in Issuers : AdoptIssuer(r, i)
    \/ \E k \in Keys : AdoptAuthKey(r, k)
    \/ Confirm(r)
    \/ RecordAuthKey(r) \/ RevokeCredential(r) \/ UpsertIssuer(r) \/ RemoveIssuer(r)

Arrive(r) ==
    \/ \E g \in Groups : LinkGroup(r, g)
    \/ \E k \in Keys : CreateCredential(r, k)
    \/ \E c \in Rows : RevokeAsked(r, c)
    \/ \E i \in Issuers, same \in BOOLEAN : SaveIssuer(r, i, same)
    \/ \E i \in Issuers : DropIssuer(r, i)

Next ==
    \/ \E g \in Groups, x \in Things : Add(g, x) \/ Remove(g, x)
    \/ \E r \in Requests : Arrive(r)
    \/ \E r \in Slots : StartSync(r) \/ Run(r) \/ Abandon(r)
    \/ CalmDown

\* Requests and the timer's job run on until they end (all have a deadline), and
\* the timer starts its job again and again (loop in cmd/server/main.go).
Fairness == WF_vars(StartSync(Timer)) /\ \A r \in Slots : WF_vars(Run(r))

Spec == Init /\ [][Next]_vars /\ Fairness

----------------------------------------------------------------------------
(* Properties                                                              *)

\* The console says "trusted on-chain" only of what some group of the app has
\* trusted at some time: of no key a handler merely asked for, whatever syncs of
\* whichever group landed in between.
ActiveWasTrusted ==
    /\ \A c \in Rows : creds[c].status = "active" => \E g \in Groups : WasAdded(g, creds[c].key)
    /\ \A i \in Issuers : issuers[i] = "active" => \E g \in Groups : WasAdded(g, i)

\* Once nothing changes any more the mirror says active of exactly what the group
\* trusts, and has a row for every key and issuer in it: no stale sync that
\* revived a row, or late handler that wrote one, is left uncorrected.
TrustSettles ==
    <>[]((calm /\ linked # None) =>
            /\ \A i \in Issuers : issuers[i] \in (IF Trusts(linked, i) THEN {"active"}
                                                  ELSE {"absent", "removed"})
            /\ \A c \in Rows : (~Free(c) /\ ~creds[c].revoked)
                    => (creds[c].status = "active") = Trusts(linked, creds[c].key)
            /\ \A k \in Keys : Trusts(linked, k) => \E c \in Rows : creds[c].key = k)

\* AdoptAuthKey promises that a key the group trusts is shown: "hiding it would
\* make the credentials screen quietly incomplete".
TrustedKeysShown ==
    <>[]((calm /\ linked # None) =>
            \A k \in Keys : Trusts(linked, k)
                => \E c \in Rows : creds[c].key = k /\ ~creds[c].revoked)
=============================================================================
