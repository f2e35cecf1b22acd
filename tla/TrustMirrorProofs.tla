------------------------- MODULE TrustMirrorProofs -------------------------
(***************************************************************************)
(* Proofs about TrustMirror, for any groups, keys, issuers, rows and       *)
(* requests.  Liveness (TrustSettles) is left to TLC.                      *)
(***************************************************************************)
EXTENDS TrustMirror, TLAPS

Syncing == {"readIssuers", "readKeys", "adoptIssuers", "adoptKeys"}

\* What the local state of a request can be relied on for: the things it has seen
\* in its group were there, and a key it is about to record as active was added.
Sound(q) ==
    /\ q.pc \in Syncing \cup {"confirm"} => q.group \in Groups
    /\ "record" \in {q.pc, q.next} => q.thing \in Keys
    /\ "revoke" \in {q.pc, q.next} => q.row \in Rows
    /\ ("upsert" \in {q.pc, q.next} \/ "delete" \in {q.pc, q.next}) => q.thing \in Issuers
    /\ q.todo \subseteq q.seen /\ (q.pc = "readIssuers" => q.todo = {})
    /\ \A x \in q.seen : q.group \in Groups /\ WasAdded(q.group, x)
    /\ (q.pc = "record" /\ q.group # None) => WasAdded(q.group, q.thing)

RowsNamed == \A c \in Rows : creds[c].status # "absent" => creds[c].key \in Keys

Inv == TypeOK /\ RowsNamed /\ ActiveWasTrusted /\ \A r \in Slots : Sound(req[r])

LEMMA IdleSound == Idle \in Request /\ Sound(Idle)
  BY DEF Idle, Request, Sound, Step, Syncing

LEMMA InitInv == Init => Inv
<1> SUFFICES ASSUME Init PROVE Inv
  OBVIOUS
<1>1. TypeOK
  BY IdleSound DEF Init, TypeOK, NoCredential, Credential, Status, Trust
<1>2. RowsNamed /\ ActiveWasTrusted
  BY DEF Init, RowsNamed, ActiveWasTrusted, NoCredential
<1>3. \A r \in Slots : Sound(req[r])
  BY IdleSound DEF Init
<1> QED
  BY <1>1, <1>2, <1>3 DEF Inv

----------------------------------------------------------------------------
(* Steps of the chain: what was once added stays added.                    *)

LEMMA ChainKeeps ==
  ASSUME Inv, NEW g \in Groups, NEW x \in Things, Add(g, x) \/ Remove(g, x)
  PROVE  /\ trust' \in [Groups -> [Things -> Trust]]
         /\ \A h \in Groups, y \in Things : WasAdded(h, y) => WasAdded(h, y)'
<1>1. PICK v \in Trust \ {"never"} : trust' = [trust EXCEPT ![g][x] = v]
  BY DEF Add, Remove, Trust
<1>2. trust \in [Groups -> [Things -> Trust]]
  BY DEF Inv, TypeOK
<1>3. trust' = [trust EXCEPT ![g] = [trust[g] EXCEPT ![x] = v]]
  BY <1>1
<1> DEFINE row == [trust[g] EXCEPT ![x] = v]
<1>4. row \in [Things -> Trust] /\ \A y \in Things : row[y] = IF y = x THEN v ELSE trust[g][y]
  BY <1>1, <1>2
<1> HIDE DEF row
<1>5. trust' \in [Groups -> [Things -> Trust]]
  BY <1>2, <1>3, <1>4 DEF row
<1>6. \A h \in Groups : trust'[h] = IF h = g THEN row ELSE trust[h]
  BY <1>2, <1>3 DEF row
<1>7. \A h \in Groups, y \in Things : WasAdded(h, y) => WasAdded(h, y)'
  BY <1>1, <1>4, <1>6 DEF WasAdded
<1> QED
  BY <1>5, <1>7

LEMMA ChainStep ==
  ASSUME Inv, NEW g \in Groups, NEW x \in Things, Add(g, x) \/ Remove(g, x)
  PROVE  Inv'
<1>0. UNCHANGED <<linked, creds, issuers, req, calm>>
  BY DEF Add, Remove
<1>1. TypeOK'
  BY <1>0, ChainKeeps DEF Inv, TypeOK
<1>2. RowsNamed'
  BY <1>0 DEF Inv, RowsNamed
<1>3. ActiveWasTrusted'
  BY <1>0, ChainKeeps DEF Inv, ActiveWasTrusted, RowsNamed, Things
<1>4. ASSUME NEW r \in Slots PROVE Sound(req[r])'
  <2>1. req[r] \in Request /\ Sound(req[r]) /\ req'[r] = req[r]
    BY <1>0 DEF Inv, TypeOK
  <2>2. req[r].seen \subseteq Things /\ req[r].group \in Groups \cup {None}
    BY <2>1 DEF Request
  <2>3. \A y \in req[r].seen : req[r].group \in Groups /\ WasAdded(req[r].group, y)'
    BY <2>1, <2>2, ChainKeeps DEF Sound
  <2>4. (req[r].pc = "record" /\ req[r].group # None) => WasAdded(req[r].group, req[r].thing)'
    BY <2>1, <2>2, ChainKeeps DEF Sound, Things
  <2> QED
    BY <2>1, <2>3, <2>4 DEF Sound, WasAdded
<1> QED
  BY <1>1, <1>2, <1>3, <1>4 DEF Inv

----------------------------------------------------------------------------
(* Steps of the requests: the chain and the other requests stay as they are. *)

LEMMA RequestStep ==
  ASSUME Inv, NEW r \in Slots, UNCHANGED <<trust, calm>>,
         linked' \in Groups \cup {None},
         creds' \in [Rows -> Credential], issuers' \in [Issuers -> Status],
         RowsNamed', ActiveWasTrusted',
         NEW q, q \in Request, Sound(q), req' = [req EXCEPT ![r] = q]
  PROVE  Inv'
<1>1. TypeOK'
  BY DEF Inv, TypeOK
<1>2. \A s \in Slots : req'[s] = IF s = r THEN q ELSE req[s]
  BY DEF Inv, TypeOK
<1>3. \A s \in Slots : Sound(req[s])'
  BY <1>2 DEF Inv, Sound, WasAdded
<1> QED
  BY <1>1, <1>3 DEF Inv

LEMMA SameRows ==
  ASSUME Inv, UNCHANGED <<trust, creds, issuers>>
  PROVE  /\ creds' \in [Rows -> Credential] /\ issuers' \in [Issuers -> Status]
         /\ RowsNamed' /\ ActiveWasTrusted'
  BY DEF Inv, TypeOK, RowsNamed, ActiveWasTrusted, WasAdded

\* A write to app_issuers: whatever it makes active was added to some group.
LEMMA IssuersStep ==
  ASSUME Inv, UNCHANGED <<trust, creds>>, issuers' \in [Issuers -> Status],
         \A i \in Issuers : issuers'[i] = "active"
            => issuers[i] = "active" \/ \E g \in Groups : WasAdded(g, i)
  PROVE  RowsNamed' /\ ActiveWasTrusted'
  BY DEF Inv, TypeOK, RowsNamed, ActiveWasTrusted, WasAdded

\* A write to app_credentials: the same, and every row it fills has a key.
LEMMA CredsStep ==
  ASSUME Inv, UNCHANGED <<trust, issuers>>, creds' \in [Rows -> Credential],
         \A c \in Rows :
            \/ creds'[c].status = creds[c].status /\ creds'[c].key = creds[c].key
            \/ /\ creds'[c].key \in Keys
               /\ creds'[c].status = "active" => \E g \in Groups : WasAdded(g, creds'[c].key)
  PROVE  RowsNamed' /\ ActiveWasTrusted'
  BY DEF Inv, TypeOK, RowsNamed, ActiveWasTrusted, WasAdded

LEMMA StartStep ==
  ASSUME Inv, NEW r \in Slots, StartSync(r) \/ \E g \in Groups : LinkGroup(r, g)
  PROVE  Inv'
<1>1. PICK g \in Groups : Start(r, g) /\ linked' \in Groups \cup {None}
  BY DEF StartSync, LinkGroup, Inv, TypeOK
<1> DEFINE q == [Idle EXCEPT !.pc = "readIssuers", !.group = g]
<1>2. q \in Request /\ Sound(q)
  BY <1>1 DEF Idle, Request, Sound, Step, Syncing
<1>3. req' = [req EXCEPT ![r] = q] /\ UNCHANGED <<trust, creds, issuers, calm>>
  BY <1>1 DEF Start, StartSync, LinkGroup
<1> HIDE DEF q
<1> QED
  BY <1>1, <1>2, <1>3, RequestStep, SameRows

LEMMA ReadStep ==
  ASSUME Inv, NEW r \in Slots, ReadIssuers(r) \/ ReadKeys(r)
  PROVE  Inv'
<1>0. req[r] \in Request /\ Sound(req[r]) /\ req[r].pc \in Syncing
  BY DEF Inv, TypeOK, ReadIssuers, ReadKeys, Syncing
<1>1. req[r].group \in Groups /\ UNCHANGED <<trust, linked, creds, issuers, calm>>
  BY <1>0 DEF Sound, ReadIssuers, ReadKeys
<1>2. \A x \in Things : Trusts(req[r].group, x) => WasAdded(req[r].group, x)
  BY DEF Trusts, WasAdded
<1>3. CASE ReadIssuers(r)
  <2> DEFINE q == [req[r] EXCEPT !.pc = "readKeys",
                                 !.seen = {i \in Issuers : Trusts(req[r].group, i)}]
  <2>1. q \in Request /\ Sound(q)
    BY <1>0, <1>1, <1>2, <1>3 DEF ReadIssuers, Request, Sound, Step, Syncing, Things
  <2>2. req' = [req EXCEPT ![r] = q]
    BY <1>3 DEF ReadIssuers
  <2> HIDE DEF q
  <2> QED
    BY <1>1, <2>1, <2>2, RequestStep, SameRows DEF Inv, TypeOK
<1>4. CASE ReadKeys(r)
  <2> DEFINE seen == req[r].seen \cup {k \in Keys : Trusts(req[r].group, k)}
             q == [req[r] EXCEPT !.pc = "adoptIssuers", !.seen = seen, !.todo = seen]
  <2>0. seen \subseteq Things /\ \A x \in seen : WasAdded(req[r].group, x)
    BY <1>0, <1>2 DEF Request, Things, Sound
  <2>1. q \in Request /\ Sound(q)
    BY <1>0, <1>1, <1>4, <2>0 DEF ReadKeys, Request, Sound, Step, Syncing
  <2>2. req' = [req EXCEPT ![r] = q]
    BY <1>4 DEF ReadKeys
  <2> HIDE DEF q
  <2> QED
    BY <1>1, <2>1, <2>2, RequestStep, SameRows DEF Inv, TypeOK
<1> QED
  BY <1>3, <1>4

LEMMA AdoptIssuerStep ==
  ASSUME Inv, NEW r \in Slots, NEW i \in Issuers, AdoptIssuer(r, i)
  PROVE  Inv'
<1>0. req[r] \in Request /\ Sound(req[r]) /\ req[r].pc = "adoptIssuers" /\ i \in req[r].todo
  BY DEF Inv, TypeOK, AdoptIssuer
<1>1. \E g \in Groups : WasAdded(g, i)
  BY <1>0 DEF Sound
<1> DEFINE q == [req[r] EXCEPT !.todo = req[r].todo \ {i}]
<1>2. q \in Request /\ Sound(q)
  BY <1>0 DEF Request, Sound
<1>3. req' = [req EXCEPT ![r] = q] /\ UNCHANGED <<trust, linked, creds, calm>>
  BY DEF AdoptIssuer
<1>4. issuers' \in [Issuers -> Status] /\ creds' \in [Rows -> Credential]
  BY <1>3 DEF AdoptIssuer, Inv, TypeOK, Status
<1>5. \A j \in Issuers : issuers'[j] = "active"
         => issuers[j] = "active" \/ \E g \in Groups : WasAdded(g, j)
  BY <1>1 DEF AdoptIssuer, Inv, TypeOK
<1>6. RowsNamed' /\ ActiveWasTrusted'
  BY <1>3, <1>4, <1>5, IssuersStep
<1> HIDE DEF q
<1> QED
  BY <1>2, <1>3, <1>4, <1>6, RequestStep DEF Inv, TypeOK

LEMMA SyncIssuersStep ==
  ASSUME Inv, NEW r \in Slots, SyncIssuerStatuses(r)
  PROVE  Inv'
<1>0. req[r] \in Request /\ Sound(req[r]) /\ req[r].pc = "adoptIssuers"
  BY DEF Inv, TypeOK, SyncIssuerStatuses
<1> DEFINE q == [req[r] EXCEPT !.pc = "adoptKeys"]
<1>2. q \in Request /\ Sound(q)
  BY <1>0 DEF Request, Sound, Step, Syncing
<1>3. req' = [req EXCEPT ![r] = q] /\ UNCHANGED <<trust, linked, creds, calm>>
  BY DEF SyncIssuerStatuses
<1>4. issuers' \in [Issuers -> Status] /\ creds' \in [Rows -> Credential]
  BY <1>3 DEF SyncIssuerStatuses, Inv, TypeOK, Status
<1>5. \A j \in Issuers : issuers'[j] = "active" => j \in req[r].seen
  BY DEF SyncIssuerStatuses
<1>6. RowsNamed' /\ ActiveWasTrusted'
  BY <1>0, <1>3, <1>4, <1>5, IssuersStep DEF Sound
<1> HIDE DEF q
<1> QED
  BY <1>2, <1>3, <1>4, <1>6, RequestStep DEF Inv, TypeOK

LEMMA AdoptKeyStep ==
  ASSUME Inv, NEW r \in Slots, NEW k \in Keys, AdoptAuthKey(r, k)
  PROVE  Inv'
<1>0. req[r] \in Request /\ Sound(req[r]) /\ req[r].pc = "adoptKeys" /\ k \in req[r].todo
  BY DEF Inv, TypeOK, AdoptAuthKey
<1>1. \E g \in Groups : WasAdded(g, k)
  BY <1>0 DEF Sound
<1> DEFINE q == [req[r] EXCEPT !.todo = req[r].todo \ {k}]
<1>2. q \in Request /\ Sound(q)
  BY <1>0 DEF Request, Sound
<1>3. req' = [req EXCEPT ![r] = q] /\ UNCHANGED <<trust, linked, issuers, calm>>
  BY DEF AdoptAuthKey
<1> DEFINE new == [key |-> k, status |-> "active", revoked |-> FALSE]
<1>4. /\ issuers' \in [Issuers -> Status] /\ creds' \in [Rows -> Credential]
      /\ \A c \in Rows : creds'[c] = creds[c] \/ creds'[c] = new
  <2>1. new \in Credential /\ creds \in [Rows -> Credential] /\ issuers \in [Issuers -> Status]
    BY DEF Inv, TypeOK, Credential, Status
  <2> HIDE DEF new
  <2>2. CASE creds' = creds
    BY <1>3, <2>1, <2>2
  <2>3. ASSUME NEW c \in Rows, creds' = [creds EXCEPT ![c] = new]
        PROVE  creds' \in [Rows -> Credential]
               /\ \A d \in Rows : creds'[d] = creds[d] \/ creds'[d] = new
    BY <2>1, <2>3
  <2> QED
    BY <1>3, <2>1, <2>2, <2>3 DEF AdoptAuthKey, new
<1>6. RowsNamed' /\ ActiveWasTrusted'
  BY <1>1, <1>3, <1>4, CredsStep
<1> HIDE DEF q
<1> QED
  BY <1>2, <1>3, <1>4, <1>6, RequestStep DEF Inv, TypeOK

LEMMA SyncKeysStep ==
  ASSUME Inv, NEW r \in Slots, SyncAuthKeyStatuses(r)
  PROVE  Inv'
<1>0. req[r] \in Request /\ Sound(req[r])
  BY DEF Inv, TypeOK
<1>3. req' = [req EXCEPT ![r] = Idle] /\ UNCHANGED <<trust, linked, issuers, calm>>
  BY DEF SyncAuthKeyStatuses, Finish
<1>4. \A c \in Rows :
         \/ creds'[c] = creds[c]
         \/ /\ creds[c].status # "absent" /\ creds'[c] \in Credential
            /\ creds'[c].key = creds[c].key
            /\ creds'[c].status = "active" => creds[c].key \in req[r].seen
  BY DEF SyncAuthKeyStatuses, Free, Inv, TypeOK, Credential, Status
<1>5. issuers' \in [Issuers -> Status] /\ creds' \in [Rows -> Credential]
  <2>1. creds' = [c \in Rows |-> creds'[c]]
    BY DEF SyncAuthKeyStatuses
  <2> QED
    BY <1>3, <1>4, <2>1 DEF Inv, TypeOK
<1>6. RowsNamed' /\ ActiveWasTrusted'
  BY <1>0, <1>3, <1>4, <1>5, CredsStep DEF Inv, RowsNamed, Sound
<1> QED
  BY <1>3, <1>5, <1>6, IdleSound, RequestStep DEF Inv, TypeOK

----------------------------------------------------------------------------
(* The handlers                                                            *)

Asked(x, c, pc, next) ==
    [Idle EXCEPT !.pc = pc, !.thing = x, !.row = c, !.group = linked, !.next = next]

Writes == {"record", "revoke", "upsert", "delete"}

LEMMA AskStep ==
  ASSUME Inv, NEW r \in Slots, NEW x \in Things, NEW c \in Rows \cup {None}, NEW pc, NEW next,
         \/ pc = "confirm" /\ next \in Writes /\ linked # None
         \/ pc \in Writes /\ next = "idle" /\ (pc = "record" => linked = None),
         "record" \in {pc, next} => x \in Keys,
         "revoke" \in {pc, next} => c \in Rows,
         "upsert" \in {pc, next} \/ "delete" \in {pc, next} => x \in Issuers,
         req' = [req EXCEPT ![r] = Asked(x, c, pc, next)],
         UNCHANGED <<trust, linked, creds, issuers, calm>>
  PROVE  Inv'
<1> DEFINE q == Asked(x, c, pc, next)
<1>1. linked \in Groups \cup {None}
  BY DEF Inv, TypeOK
<1>2. q \in Request
  BY <1>1 DEF Asked, Writes, Idle, Request, Step
<1>3. /\ q.pc = pc /\ q.next = next /\ q.thing = x /\ q.row = c /\ q.group = linked
      /\ q.seen = {} /\ q.todo = {}
  BY DEF Asked, Idle
<1> HIDE DEF q
<1>4. Sound(q)
  BY <1>1, <1>3 DEF Sound, Syncing, Writes
<1> QED
  BY <1>1, <1>2, <1>4, RequestStep, SameRows DEF q

LEMMA ArriveStep ==
  ASSUME Inv, NEW r \in Slots, Arrive(r)
  PROVE  Inv'
<1>1. CASE \E g \in Groups : LinkGroup(r, g)
  BY <1>1, StartStep
<1>2. ASSUME NEW k \in Keys, CreateCredential(r, k) PROVE Inv'
  <2>1. UNCHANGED <<trust, linked, creds, issuers, calm>> /\ k \in Things
    BY <1>2 DEF CreateCredential, Ask, Things
  <2>2. CASE linked # None
    <3>1. req' = [req EXCEPT ![r] = Asked(k, None, "confirm", "record")]
      BY <1>2, <2>2 DEF CreateCredential, Ask, Asked
    <3> QED
      BY <2>1, <2>2, <3>1, AskStep DEF Writes
  <2>3. CASE linked = None
    <3>1. req' = [req EXCEPT ![r] = Asked(k, None, "record", "idle")]
      BY <1>2, <2>3 DEF CreateCredential, Ask, Asked
    <3> QED
      BY <2>1, <2>3, <3>1, AskStep DEF Writes
  <2> QED
    BY <2>2, <2>3
<1>3. ASSUME NEW c \in Rows, RevokeAsked(r, c) PROVE Inv'
  <2>1. PICK k \in Keys : k = creds[c].key
    BY <1>3 DEF RevokeAsked, Free, Inv, RowsNamed
  <2>2. UNCHANGED <<trust, linked, creds, issuers, calm>> /\ k \in Things
    BY <1>3, <2>1 DEF RevokeAsked, Ask, Things
  <2>3. CASE creds[c].status = "active" /\ linked # None
    <3>1. req' = [req EXCEPT ![r] = Asked(k, c, "confirm", "revoke")]
      BY <1>3, <2>1, <2>3 DEF RevokeAsked, Ask, Asked
    <3> QED
      BY <2>2, <2>3, <3>1, AskStep DEF Writes
  <2>4. CASE ~(creds[c].status = "active" /\ linked # None)
    <3>1. req' = [req EXCEPT ![r] = Asked(k, c, "revoke", "idle")]
      BY <1>3, <2>1, <2>4 DEF RevokeAsked, Ask, Asked
    <3> QED
      BY <2>2, <3>1, AskStep DEF Writes
  <2> QED
    BY <2>3, <2>4
<1>4. ASSUME NEW i \in Issuers, NEW same \in BOOLEAN, SaveIssuer(r, i, same) PROVE Inv'
  <2>1. UNCHANGED <<trust, linked, creds, issuers, calm>> /\ i \in Things
    BY <1>4 DEF SaveIssuer, Ask, Things
  <2>2. CASE linked # None /\ ~(issuers[i] = "active" /\ same)
    <3>1. req' = [req EXCEPT ![r] = Asked(i, None, "confirm", "upsert")]
      BY <1>4, <2>2 DEF SaveIssuer, Ask, Asked
    <3> QED
      BY <2>1, <2>2, <3>1, AskStep DEF Writes
  <2>3. CASE ~(linked # None /\ ~(issuers[i] = "active" /\ same))
    <3>1. req' = [req EXCEPT ![r] = Asked(i, None, "upsert", "idle")]
      BY <1>4, <2>3 DEF SaveIssuer, Ask, Asked
    <3> QED
      BY <2>1, <3>1, AskStep DEF Writes
  <2> QED
    BY <2>2, <2>3
<1>5. ASSUME NEW i \in Issuers, DropIssuer(r, i) PROVE Inv'
  <2>1. UNCHANGED <<trust, linked, creds, issuers, calm>> /\ i \in Things
    BY <1>5 DEF DropIssuer, Ask, Things
  <2>2. CASE linked # None
    <3>1. req' = [req EXCEPT ![r] = Asked(i, None, "confirm", "delete")]
      BY <1>5, <2>2 DEF DropIssuer, Ask, Asked
    <3> QED
      BY <2>1, <2>2, <3>1, AskStep DEF Writes
  <2>3. CASE linked = None
    <3>1. req' = [req EXCEPT ![r] = Asked(i, None, "delete", "idle")]
      BY <1>5, <2>3 DEF DropIssuer, Ask, Asked
    <3> QED
      BY <2>1, <3>1, AskStep DEF Writes
  <2> QED
    BY <2>2, <2>3
<1> QED
  BY <1>1, <1>2, <1>3, <1>4, <1>5 DEF Arrive

\* Where the confirmation matters: what is recorded as active was added.
LEMMA ConfirmStep ==
  ASSUME Inv, NEW r \in Slots, Confirm(r)
  PROVE  Inv'
<1> DEFINE q == [req[r] EXCEPT !.pc = req[r].next, !.next = "idle"]
<1>0. req[r] \in Request /\ Sound(req[r]) /\ req[r].pc = "confirm" /\ Done(req[r])
  BY DEF Inv, TypeOK, Confirm
<1>1. req[r].next \in Writes /\ (req[r].next = "record" => WasAdded(req[r].group, req[r].thing))
  BY <1>0 DEF Done, Writes
<1>2. q \in Request
  BY <1>0, <1>1 DEF Request, Step, Writes
<1>3. Sound(q)
  BY <1>0, <1>1 DEF Sound, Request, Syncing, Writes
<1>4. req' = [req EXCEPT ![r] = q] /\ UNCHANGED <<trust, linked, creds, issuers, calm>>
  BY DEF Confirm
<1> HIDE DEF q
<1> QED
  BY <1>2, <1>3, <1>4, RequestStep, SameRows DEF Inv, TypeOK

LEMMA RecordStep ==
  ASSUME Inv, NEW r \in Slots, RecordAuthKey(r)
  PROVE  Inv'
<1>0. req[r] \in Request /\ Sound(req[r]) /\ req[r].pc = "record" /\ req[r].thing \in Keys
  BY DEF Inv, TypeOK, RecordAuthKey, Sound
<1> DEFINE new == [key |-> req[r].thing, revoked |-> FALSE,
                   status |-> IF req[r].group = None THEN "pending" ELSE "active"]
<1>1. new \in Credential /\ new.key \in Keys
      /\ (new.status = "active" => \E g \in Groups : WasAdded(g, new.key))
  BY <1>0 DEF Credential, Status, Sound, Request
<1> HIDE DEF new
<1>2. PICK c \in Rows : creds' = [creds EXCEPT ![c] = new]
  BY DEF RecordAuthKey, new
<1>3. req' = [req EXCEPT ![r] = Idle] /\ UNCHANGED <<trust, linked, issuers, calm>>
  BY DEF RecordAuthKey, Finish
<1>4. creds \in [Rows -> Credential] /\ issuers \in [Issuers -> Status]
  BY DEF Inv, TypeOK
<1>5. creds' \in [Rows -> Credential] /\ issuers' \in [Issuers -> Status]
      /\ \A d \in Rows : creds'[d] = creds[d] \/ creds'[d] = new
  BY <1>1, <1>2, <1>3, <1>4
<1>6. RowsNamed' /\ ActiveWasTrusted'
  BY <1>1, <1>3, <1>5, CredsStep
<1> QED
  BY <1>3, <1>5, <1>6, IdleSound, RequestStep DEF Inv, TypeOK

LEMMA RevokeStep ==
  ASSUME Inv, NEW r \in Slots, RevokeCredential(r)
  PROVE  Inv'
<1>0. req[r].row \in Rows
  BY DEF Inv, RevokeCredential, Sound
<1> DEFINE new == [creds[req[r].row] EXCEPT !.revoked = TRUE]
<1>1. creds \in [Rows -> Credential] /\ issuers \in [Issuers -> Status]
  BY DEF Inv, TypeOK
<1>2. new \in Credential /\ new.key = creds[req[r].row].key /\ new.status = creds[req[r].row].status
  BY <1>0, <1>1 DEF Credential
<1>3. /\ creds' = [creds EXCEPT ![req[r].row] = new]
      /\ req' = [req EXCEPT ![r] = Idle] /\ UNCHANGED <<trust, linked, issuers, calm>>
  BY DEF RevokeCredential, Finish
<1> HIDE DEF new
<1>4. creds' \in [Rows -> Credential] /\ issuers' \in [Issuers -> Status]
      /\ \A d \in Rows : creds'[d].status = creds[d].status /\ creds'[d].key = creds[d].key
  BY <1>0, <1>1, <1>2, <1>3
<1>5. RowsNamed' /\ ActiveWasTrusted'
  BY <1>3, <1>4, CredsStep
<1> QED
  BY <1>3, <1>4, <1>5, IdleSound, RequestStep DEF Inv, TypeOK

LEMMA UpsertStep ==
  ASSUME Inv, NEW r \in Slots, UpsertIssuer(r)
  PROVE  Inv'
<1>0. req[r].thing \in Issuers
  BY DEF Inv, UpsertIssuer, Sound
<1>1. req' = [req EXCEPT ![r] = Idle] /\ UNCHANGED <<trust, linked, creds, calm>>
  BY DEF UpsertIssuer, Finish
<1>2. /\ issuers' \in [Issuers -> Status] /\ creds' \in [Rows -> Credential]
      /\ \A j \in Issuers : issuers'[j] = "active" => issuers[j] = "active"
  BY <1>0, <1>1 DEF UpsertIssuer, Inv, TypeOK, Status
<1>3. RowsNamed' /\ ActiveWasTrusted'
  BY <1>1, <1>2, IssuersStep
<1> QED
  BY <1>1, <1>2, <1>3, IdleSound, RequestStep DEF Inv, TypeOK

LEMMA RemoveStep ==
  ASSUME Inv, NEW r \in Slots, RemoveIssuer(r)
  PROVE  Inv'
<1>0. req[r].thing \in Issuers
  BY DEF Inv, RemoveIssuer, Sound
<1>1. UNCHANGED <<trust, linked, creds, calm>>
  BY DEF RemoveIssuer
<1>2. /\ issuers' \in [Issuers -> Status] /\ creds' \in [Rows -> Credential]
      /\ \A j \in Issuers : issuers'[j] = "active" => issuers[j] = "active"
  BY <1>0, <1>1 DEF RemoveIssuer, Inv, TypeOK, Status
<1>3. RowsNamed' /\ ActiveWasTrusted'
  BY <1>1, <1>2, IssuersStep
<1>4. req' \in [Slots -> Request] /\ \A s \in Slots : req'[s] = Idle \/ req'[s] = req[s]
  BY IdleSound DEF RemoveIssuer, Inv, TypeOK
<1>5. \A s \in Slots : Sound(req[s])'
  <2>1. Sound(Idle)'
    BY IdleSound DEF Sound, Idle
  <2>2. \A s \in Slots : Sound(req[s])
    BY DEF Inv
  <2> QED
    BY <1>1, <1>4, <2>1, <2>2 DEF Sound, WasAdded
<1> QED
  BY <1>1, <1>2, <1>3, <1>4, <1>5 DEF Inv, TypeOK

LEMMA AbandonStep ==
  ASSUME Inv, NEW r \in Slots, Abandon(r)
  PROVE  Inv'
  BY IdleSound, RequestStep, SameRows DEF Abandon, Finish, Inv, TypeOK

----------------------------------------------------------------------------

LEMMA CalmStep ==
  ASSUME Inv, CalmDown \/ UNCHANGED vars
  PROVE  Inv'
<1>1. UNCHANGED <<trust, linked, creds, issuers, req>> /\ calm' \in BOOLEAN
  BY DEF CalmDown, vars, Inv, TypeOK
<1>2. TypeOK' /\ RowsNamed' /\ ActiveWasTrusted'
  BY <1>1 DEF Inv, TypeOK, RowsNamed, ActiveWasTrusted, WasAdded
<1>3. \A s \in Slots : Sound(req[s])'
  BY <1>1 DEF Inv, Sound, WasAdded
<1> QED
  BY <1>2, <1>3 DEF Inv

LEMMA InvStep == Inv /\ [Next]_vars => Inv'
<1> SUFFICES ASSUME Inv, [Next]_vars PROVE Inv'
  OBVIOUS
<1>1. CASE \E g \in Groups, x \in Things : Add(g, x) \/ Remove(g, x)
  BY <1>1, ChainStep
<1>2. CASE \E r \in Requests : Arrive(r)
  BY <1>2, ArriveStep DEF Slots
<1>3. ASSUME NEW r \in Slots, StartSync(r) \/ Run(r) \/ Abandon(r) PROVE Inv'
  <2>1. CASE StartSync(r)
    BY <2>1, StartStep
  <2>2. CASE ReadIssuers(r) \/ ReadKeys(r)
    BY <2>2, ReadStep
  <2>3. CASE \E i \in Issuers : AdoptIssuer(r, i)
    BY <2>3, AdoptIssuerStep
  <2>4. CASE SyncIssuerStatuses(r)
    BY <2>4, SyncIssuersStep
  <2>5. CASE \E k \in Keys : AdoptAuthKey(r, k)
    BY <2>5, AdoptKeyStep
  <2>6. CASE SyncAuthKeyStatuses(r)
    BY <2>6, SyncKeysStep
  <2>7. CASE Confirm(r)
    BY <2>7, ConfirmStep
  <2>8. CASE RecordAuthKey(r)
    BY <2>8, RecordStep
  <2>9. CASE RevokeCredential(r)
    BY <2>9, RevokeStep
  <2>10. CASE UpsertIssuer(r)
    BY <2>10, UpsertStep
  <2>11. CASE RemoveIssuer(r)
    BY <2>11, RemoveStep
  <2>12. CASE Abandon(r)
    BY <2>12, AbandonStep
  <2> QED
    BY <1>3, <2>1, <2>2, <2>3, <2>4, <2>5, <2>6, <2>7, <2>8, <2>9, <2>10, <2>11, <2>12 DEF Run
<1>4. CASE CalmDown \/ UNCHANGED vars
  BY <1>4, CalmStep
<1> QED
  BY <1>1, <1>2, <1>3, <1>4 DEF Next

LEMMA Invariance == Spec => []Inv
<1> QED
  BY InitInv, InvStep, PTL DEF Spec

\* The chain, the mirror and every request in flight have their types: in
\* particular an issuer is deleted or has one of the four statuses a sync knows.
THEOREM TypeCorrect == Spec => []TypeOK
<1>1. Inv => TypeOK
  BY DEF Inv
<1> QED
  BY <1>1, Invariance, PTL

\* However many syncs of however many groups overlap, whichever chain they read
\* and whenever they write, with handlers confirming old transactions in between,
\* no row says active of what no group of the app ever trusted.
THEOREM ActiveTrusted == Spec => []ActiveWasTrusted
<1>1. Inv => ActiveWasTrusted
  BY DEF Inv
<1> QED
  BY <1>1, Invariance, PTL
=============================================================================
