--------------------------- MODULE AppGroupProofs ---------------------------
(***************************************************************************)
(* AppGroup for every number of users, apps, groups and requests: one app  *)
(* per group, and the handlers implement the life of an app.               *)
(***************************************************************************)
EXTENDS AppGroup, TLAPS

----------------------------------------------------------------------------
(* The inductive invariant.  Beside the types it says who a request acts   *)
(* for, and that what a request is about to link exists on the chain.      *)

\* A request in flight is about a user and an app that has been created.
RequestsNamed ==
    \A r \in Requests : req[r].pc # "idle" =>
        /\ req[r].app \in Apps /\ apps[req[r].app].status # "absent"
        /\ req[r].user \in Users

\* A request holds a group from the moment it waits for one.
GroupsHeld ==
    \A r \in Requests :
        /\ req[r].pc \in {"wait", "manager", "link"} => req[r].group \in Groups
        /\ req[r].pc = "link" => groups[req[r].group].state = "live"

\* A missing row has no group.
RowsSound ==
    \A a \in Apps : apps[a].status = "absent" => apps[a].group = NoGroup

\* Every operation the bundler holds has a sender.
GroupsMade ==
    \A g \in Groups : groups[g].state = "pending" => groups[g].maker \in Users

Inv ==
    /\ TypeOK
    /\ RequestsNamed
    /\ GroupsHeld
    /\ GroupsMade
    /\ RowsSound
    /\ OneAppPerGroup

LEMMA Constructors ==
  /\ Idle \in Request /\ NoApps \in App /\ Unborn \in Group
  /\ Idle.pc = "idle" /\ Idle.group = NoGroup
  BY DEF Idle, Request, NoApps, App, Environment, Unborn, Group

LEMMA InitInv == Init => Inv
<1> SUFFICES ASSUME Init
             PROVE  Inv
  OBVIOUS
<1>1. TypeOK
  BY Constructors DEF Init, TypeOK
<1>2. RequestsNamed /\ GroupsHeld
  BY DEF Init, RequestsNamed, GroupsHeld, Idle
<1>3. RowsSound /\ OneAppPerGroup /\ GroupsMade
  BY DEF Init, RowsSound, OneAppPerGroup, NoApps, GroupsMade, Unborn
<1> QED
  BY <1>1, <1>2, <1>3 DEF Inv

----------------------------------------------------------------------------
(* What the three tables allow of any step, whatever the action.           *)

\* The requests' own step: one slot changes and the tables do not.
LEMMA RequestStep ==
  ASSUME Inv, NEW r \in Requests, NEW q \in Request, UNCHANGED <<apps, groups>>,
         req' = [req EXCEPT ![r] = q],
         q.pc # "idle" => /\ q.app \in Apps /\ apps[q.app].status # "absent"
                          /\ q.user \in Users,
         q.pc \in {"wait", "manager", "link"} => q.group \in Groups,
         q.pc = "link" => groups[q.group].state = "live"
  PROVE  Inv'
<1>1. TypeOK'
  BY DEF Inv, TypeOK
<1>2. \A s \in Requests : req'[s] = IF s = r THEN q ELSE req[s]
  BY DEF Inv, TypeOK
<1>3. RequestsNamed' /\ GroupsHeld'
  BY <1>2 DEF Inv, RequestsNamed, GroupsHeld
<1>4. RowsSound' /\ OneAppPerGroup' /\ GroupsMade'
  BY DEF Inv, RowsSound, OneAppPerGroup, GroupsMade
<1> QED
  BY <1>1, <1>3, <1>4 DEF Inv

LEMMA FinishStep ==
  ASSUME Inv, NEW r \in Requests, UNCHANGED <<apps, groups>>, req' = Finish(r)
  PROVE  Inv'
  BY Constructors, RequestStep DEF Finish, Idle

\* A step of the chain: one address changes, and a live group stays live.
LEMMA ChainStep ==
  ASSUME Inv, NEW g \in Groups, NEW h \in Group, UNCHANGED <<apps, req>>,
         groups' = [groups EXCEPT ![g] = h], groups[g].state = "live" => h.state = "live",
         h.state = "pending" => h.maker \in Users
  PROVE  Inv'
<1>1. TypeOK'
  BY DEF Inv, TypeOK
<1>2. \A k \in Groups : groups'[k] = IF k = g THEN h ELSE groups[k]
  BY DEF Inv, TypeOK
<1>3. RequestsNamed' /\ RowsSound' /\ OneAppPerGroup'
  BY DEF Inv, RequestsNamed, RowsSound, OneAppPerGroup
<1>4. GroupsHeld' /\ GroupsMade'
  BY <1>2 DEF Inv, GroupsHeld, GroupsMade
<1> QED
  BY <1>1, <1>3, <1>4 DEF Inv

----------------------------------------------------------------------------
(* Every action keeps the invariant.                                       *)

LEMMA ConsoleInv ==
  ASSUME Inv, NEW a \in Apps, Console(a)
  PROVE  Inv'
<1>0. TypeOK /\ apps[a] \in App
  BY DEF Inv, TypeOK
<1>1. CASE \E u \in Users, env \in Environment : CreateApp(u, a, env)
  <2> PICK u \in Users, env \in Environment : CreateApp(u, a, env)
    BY <1>1
  <2> DEFINE row == [status |-> "provisioning", env |-> env, creator |-> u, group |-> NoGroup]
  <2>1. row \in App
    BY DEF App
  <2>2. \A b \in Apps : apps'[b] = IF b = a THEN row ELSE apps[b]
    BY <1>0 DEF CreateApp, TypeOK
  <2>3. TypeOK'
    BY <1>0, <2>1 DEF CreateApp, TypeOK
  <2>4. RequestsNamed' /\ GroupsHeld' /\ GroupsMade'
    BY <2>2 DEF Inv, RequestsNamed, GroupsHeld, GroupsMade, CreateApp
  <2>5. RowsSound' /\ OneAppPerGroup'
    BY <2>2 DEF Inv, RowsSound, OneAppPerGroup
  <2> QED
    BY <2>3, <2>4, <2>5 DEF Inv
<1>2. CASE \E env \in Environment : ChangeEnvironment(a, env)
  <2> PICK env \in Environment : ChangeEnvironment(a, env)
    BY <1>2
  <2>1. \A b \in Apps : /\ apps'[b].status = apps[b].status /\ apps'[b].group = apps[b].group
    BY <1>0 DEF ChangeEnvironment, TypeOK, App
  <2>2. apps' \in [Apps -> App]
    BY <1>0 DEF ChangeEnvironment, TypeOK, App
  <2>3. req' \in [Requests -> Request]
    BY <1>0 DEF ChangeEnvironment, TypeOK, Request
  <2>4. \A r \in Requests :
          /\ req'[r].pc = req[r].pc /\ req'[r].group = req[r].group
          /\ req'[r].app = req[r].app /\ req'[r].user = req[r].user
    BY <1>0 DEF ChangeEnvironment, TypeOK, Request
  <2>5. TypeOK' /\ UNCHANGED groups
    BY <1>0, <2>2, <2>3 DEF ChangeEnvironment, TypeOK
  <2> QED
    BY <2>1, <2>4, <2>5 DEF Inv, RequestsNamed, GroupsHeld, GroupsMade, RowsSound, OneAppPerGroup
<1>3. CASE ArchiveApp(a)
  <2>1. \A b \in Apps : /\ apps'[b].group = apps[b].group
                        /\ apps'[b].status = IF b = a THEN "archived" ELSE apps[b].status
    BY <1>0, <1>3 DEF ArchiveApp, TypeOK, App
  <2>2. TypeOK' /\ UNCHANGED <<groups, req>>
    BY <1>0, <1>3 DEF ArchiveApp, TypeOK, App
  <2> QED
    BY <2>1, <2>2 DEF Inv, RequestsNamed, GroupsHeld, GroupsMade, RowsSound, OneAppPerGroup
<1>4. CASE \E r \in Requests, u \in Users :
          \/ ArriveDeploy(r, u, a) \/ \E g \in Groups : ArriveAttach(r, u, a, g)
  <2> PICK r \in Requests, u \in Users, kind \in {"deploy", "attach"},
           g \in Groups \cup {NoGroup}, step \in {"read", "manager"} :
             Arrive(r, kind, u, a, g, step) /\ (step = "manager" => g \in Groups)
    BY <1>4 DEF ArriveDeploy, ArriveAttach
  <2> DEFINE q == [pc |-> step, kind |-> kind, user |-> u, app |-> a, group |-> g,
                   sponsored |-> FALSE,
                   wasDev |-> (kind = "deploy" /\ apps[a].env = "development")]
  <2>1. q \in Request
    BY DEF Request
  <2>2. req' = [req EXCEPT ![r] = q] /\ UNCHANGED <<apps, groups>> /\ apps[a].status # "absent"
    BY DEF Arrive, Open
  <2>3. q.pc = step /\ q.app = a /\ q.user = u /\ q.group = g
    OBVIOUS
  <2> HIDE DEF q
  <2> QED
    BY <2>1, <2>2, <2>3, RequestStep
<1> QED
  BY <1>1, <1>2, <1>3, <1>4 DEF Console

LEMMA ChainInv ==
  ASSUME Inv, NEW g \in Groups, Chain(g)
  PROVE  Inv'
<1>0. groups[g] \in Group /\ groups \in [Groups -> Group]
  BY DEF Inv, TypeOK
<1>1. CASE Include(g)
  <2> DEFINE h == [groups[g] EXCEPT !.state = "live", !.manager = groups[g].maker,
                                    !.past = {groups[g].maker}]
  <2>1. groups[g].maker \in Users
    BY <1>1 DEF Include, Inv, GroupsMade
  <2>2. h \in Group /\ h.state = "live"
    BY <1>0, <2>1 DEF Group
  <2>3. groups' = [groups EXCEPT ![g] = h] /\ UNCHANGED <<apps, req>>
    BY <1>0, <1>1 DEF Include
  <2> QED
    BY <2>2, <2>3, ChainStep
<1>2. CASE Lose(g)
  <2> DEFINE h == [Unborn EXCEPT !.state = "lost"]
  <2>1. h \in Group /\ h.state = "lost" /\ groups[g].state = "pending"
    BY <1>2, Constructors DEF Group, Lose
  <2> QED
    BY <1>2, <2>1, ChainStep DEF Lose
<1>3. CASE \E u \in Users : CreateByWallet(u, g)
  <2> PICK u \in Users : CreateByWallet(u, g)
    BY <1>3
  <2>1. [state |-> "live", origin |-> "wallet", maker |-> u, manager |-> u, past |-> {u}] \in Group
    BY DEF Group
  <2> QED
    BY <2>1, ChainStep DEF CreateByWallet
<1>4. CASE \E u \in Users : TransferManager(g, u)
  <2> PICK u \in Users : TransferManager(g, u)
    BY <1>4
  <2> DEFINE h == [groups[g] EXCEPT !.manager = u, !.past = @ \cup {u}]
  <2>1. h \in Group /\ h.state = groups[g].state /\ h.state = "live"
    BY <1>0 DEF Group, TransferManager
  <2>2. groups' = [groups EXCEPT ![g] = h] /\ UNCHANGED <<apps, req>>
    BY <1>0 DEF TransferManager
  <2> QED
    BY <2>1, <2>2, ChainStep
<1> QED
  BY <1>1, <1>2, <1>3, <1>4 DEF Chain

\* Moving a request on without giving it a group.
LEMMA GotoStep ==
  ASSUME Inv, NEW r \in Requests, NEW sp \in BOOLEAN, NEW step \in {"count", "submit"},
         UNCHANGED <<apps, groups>>, req[r].pc # "idle",
         req' = [req EXCEPT ![r].pc = step, ![r].sponsored = sp]
  PROVE  Inv'
<1> DEFINE q == [req[r] EXCEPT !.pc = step, !.sponsored = sp]
<1>1. req[r] \in Request /\ req \in [Requests -> Request]
  BY DEF Inv, TypeOK
<1>2. /\ q \in Request /\ q.pc = step
      /\ q.app = req[r].app /\ q.user = req[r].user /\ q.group = req[r].group
  BY <1>1 DEF Request
<1>3. req' = [req EXCEPT ![r] = q]
  BY <1>1
<1> HIDE DEF q
<1>4. q.app \in Apps /\ apps[q.app].status # "absent" /\ q.user \in Users
  BY <1>2 DEF Inv, RequestsNamed
<1> QED
  BY <1>2, <1>3, <1>4, RequestStep

\* A request takes hold of a group, and forgets what it decided on.
LEMMA CarryType ==
  ASSUME Inv, NEW r \in Requests, NEW g \in Groups, NEW step \in {"wait", "link"}
  PROVE  \E q \in Request :
           /\ Carry(r, step, g) = [req EXCEPT ![r] = q]
           /\ q.pc = step /\ q.group = g /\ q.app = req[r].app /\ q.user = req[r].user
           /\ ~q.sponsored
<1> DEFINE q == [req[r] EXCEPT !.pc = step, !.group = g, !.sponsored = FALSE, !.wasDev = FALSE]
<1>1. req[r] \in Request
  BY DEF Inv, TypeOK
<1>2. /\ q \in Request /\ q.pc = step /\ q.group = g /\ q.app = req[r].app
      /\ q.user = req[r].user /\ ~q.sponsored
  BY <1>1 DEF Request
<1>3. Carry(r, step, g) = [req EXCEPT ![r] = q]
  BY DEF Carry
<1> HIDE DEF q
<1> QED
  BY <1>2, <1>3

LEMMA SubmitInv ==
  ASSUME Inv, NEW r \in Requests, NEW g \in Groups, NEW origin \in {"sponsored", "selfPaid"},
         Submit(r, g, origin)
  PROVE  Inv'
<1> DEFINE h == [Unborn EXCEPT !.state = "pending", !.origin = origin, !.maker = req[r].user]
<1>0. TypeOK /\ req[r].pc = "submit" /\ groups[g].state = "none"
  BY DEF Inv, Submit
<1>1. req[r].user \in Users /\ req[r].app \in Apps /\ apps[req[r].app].status # "absent"
  BY <1>0 DEF Inv, RequestsNamed
<1>2. h \in Group /\ h.state = "pending" /\ h.maker \in Users
  BY <1>1, Constructors DEF Group
<1>3. groups' = [groups EXCEPT ![g] = h] /\ UNCHANGED apps
  BY DEF Submit
<1> HIDE DEF h
<1>4. \A k \in Groups : groups'[k] = IF k = g THEN h ELSE groups[k]
  BY <1>0, <1>3 DEF TypeOK
<1>5. PICK q \in Request :
        /\ req' = [req EXCEPT ![r] = q]
        /\ q.pc = "wait" /\ q.group = g /\ q.app = req[r].app /\ q.user = req[r].user
  BY CarryType DEF Submit
<1>6. \A s \in Requests : req'[s] = IF s = r THEN q ELSE req[s]
  BY <1>0, <1>5 DEF TypeOK
<1>7. TypeOK'
  BY <1>0, <1>2, <1>3, <1>5 DEF TypeOK
<1>8. RequestsNamed' /\ GroupsMade' /\ RowsSound' /\ OneAppPerGroup'
  BY <1>1, <1>2, <1>3, <1>4, <1>5, <1>6
  DEF Inv, RequestsNamed, GroupsMade, RowsSound, OneAppPerGroup
<1>9. GroupsHeld'
  BY <1>0, <1>4, <1>5, <1>6 DEF Inv, GroupsHeld
<1> QED
  BY <1>7, <1>8, <1>9 DEF Inv

\* The row a successful AttachGroup writes.
LEMMA AttachEffect ==
  ASSUME Inv, NEW r \in Requests, AttachGroup(r)
  PROVE  /\ req' = Finish(r) /\ UNCHANGED groups
         /\ req[r].app \in Apps /\ req[r].group \in Groups
         /\ groups[req[r].group].state = "live"
         /\ \/ UNCHANGED apps
            \/ /\ Open(req[r].app)
               /\ \A b \in Apps \ {req[r].app} : apps[b].group # req[r].group
               /\ apps' = [apps EXCEPT ![req[r].app] =
                             [@ EXCEPT !.status = "live", !.group = req[r].group]]
  BY DEF AttachGroup, Inv, RequestsNamed, GroupsHeld, TypeOK

LEMMA AttachInv ==
  ASSUME Inv, NEW r \in Requests, AttachGroup(r)
  PROVE  Inv'
<1> DEFINE a == req[r].app
           g == req[r].group
           row == [apps[a] EXCEPT !.status = "live", !.group = g]
<1>0. TypeOK /\ a \in Apps /\ g \in Groups
  BY AttachEffect DEF Inv
<1>1. CASE UNCHANGED apps
  BY <1>1, AttachEffect, FinishStep
<1>2. CASE apps' # apps
  <2>1. /\ \A b \in Apps \ {a} : apps[b].group # g
        /\ apps' = [apps EXCEPT ![a] = row] /\ UNCHANGED groups
        /\ req' = [req EXCEPT ![r] = Idle]
    BY <1>2, AttachEffect DEF Finish
  <2>2. row \in App /\ row.status = "live" /\ row.group = g
    BY <1>0 DEF TypeOK, App
  <2> HIDE DEF row
  <2>3. \A b \in Apps : apps'[b] = IF b = a THEN row ELSE apps[b]
    BY <1>0, <2>1 DEF TypeOK
  <2>4. \A s \in Requests : req'[s] = IF s = r THEN Idle ELSE req[s]
    BY <1>0, <2>1 DEF TypeOK
  <2>5. TypeOK'
    BY <1>0, <2>1, <2>2, Constructors DEF TypeOK
  <2>6. RequestsNamed' /\ GroupsHeld' /\ GroupsMade'
    BY <2>1, <2>2, <2>3, <2>4, Constructors DEF Inv, RequestsNamed, GroupsHeld, GroupsMade
  <2>7. RowsSound' /\ OneAppPerGroup'
    BY <2>1, <2>2, <2>3 DEF Inv, RowsSound, OneAppPerGroup
  <2> QED
    BY <2>5, <2>6, <2>7 DEF Inv
<1> QED
  BY <1>1, <1>2

LEMMA ServeInv ==
  ASSUME Inv, NEW r \in Requests, Serve(r) \/ Abandon(r)
  PROVE  Inv'
<1>0. TypeOK /\ req[r] \in Request
  BY DEF Inv, TypeOK
<1>1. CASE ReadApp(r)
  <2> DEFINE dev == apps[req[r].app].env = "development"
  <2>1. dev \in BOOLEAN
    OBVIOUS
  <2>2. \/ req' = Finish(r)
        \/ req' = [req EXCEPT ![r].pc = IF dev THEN "count" ELSE "submit",
                              ![r].sponsored = dev]
    BY <1>1 DEF ReadApp
  <2>3. UNCHANGED <<apps, groups>> /\ req[r].pc # "idle"
    BY <1>1 DEF ReadApp
  <2> HIDE DEF dev
  <2> QED
    BY <2>1, <2>2, <2>3, FinishStep, GotoStep
<1>2. CASE CountSponsored(r)
  <2>1. req' = Finish(r) \/ req' = [req EXCEPT ![r].pc = "submit",
                                              ![r].sponsored = req[r].sponsored]
    BY <1>0, <1>2 DEF CountSponsored, Goto, TypeOK, Request
  <2>2. UNCHANGED <<apps, groups>> /\ req[r].pc # "idle" /\ req[r].sponsored \in BOOLEAN
    BY <1>0, <1>2 DEF CountSponsored, Request
  <2> QED
    BY <2>1, <2>2, FinishStep, GotoStep
<1>3. CASE \E g \in Groups, origin \in {"sponsored", "selfPaid"} : Submit(r, g, origin)
  BY <1>3, SubmitInv
<1>4. CASE \E g \in Groups : ConfirmTransaction(r, g)
  <2> PICK g \in Groups : ConfirmTransaction(r, g)
    BY <1>4
  <2>1. PICK q \in Request :
          /\ req' = [req EXCEPT ![r] = q]
          /\ q.pc = "link" /\ q.group = g /\ q.app = req[r].app /\ q.user = req[r].user
    BY CarryType DEF ConfirmTransaction
  <2>2. req[r].pc = "submit" /\ groups[g].state = "live" /\ UNCHANGED <<apps, groups>>
    BY DEF ConfirmTransaction
  <2> QED
    BY <2>1, <2>2, RequestStep DEF Inv, RequestsNamed
<1>5. CASE Receipt(r) \/ (ReadManager(r) /\ req' # Finish(r))
  <2> DEFINE q == [req[r] EXCEPT !.pc = "link"]
  <2>1. /\ req' = [req EXCEPT ![r] = q] /\ UNCHANGED <<apps, groups>>
        /\ req[r].pc \in {"wait", "manager"} /\ groups[req[r].group].state = "live"
    BY <1>0, <1>5 DEF Receipt, ReadManager, Goto, TypeOK
  <2>2. /\ q \in Request /\ q.pc = "link" /\ q.app = req[r].app /\ q.user = req[r].user
        /\ q.group = req[r].group
    BY <1>0 DEF Request
  <2> HIDE DEF q
  <2>3. req[r].group \in Groups
    BY <2>1 DEF Inv, GroupsHeld
  <2> QED
    BY <2>1, <2>2, <2>3, RequestStep DEF Inv, RequestsNamed
<1>6. CASE Abandon(r) \/ (ReadManager(r) /\ req' = Finish(r))
  BY <1>6, FinishStep DEF Abandon, ReadManager
<1>7. CASE AttachGroup(r)
  BY <1>7, AttachInv
<1> QED
  BY <1>1, <1>2, <1>3, <1>4, <1>5, <1>6, <1>7 DEF Serve

LEMMA NextInv == Inv /\ [Next]_vars => Inv'
<1> SUFFICES ASSUME Inv, [Next]_vars
             PROVE  Inv'
  OBVIOUS
<1>1. CASE Next
  BY <1>1, ServeInv, ChainInv, ConsoleInv DEF Next
<1>2. CASE UNCHANGED vars
  BY <1>2 DEF vars, Inv, TypeOK, RequestsNamed, GroupsHeld, GroupsMade, RowsSound, OneAppPerGroup
<1> QED
  BY <1>1, <1>2

LEMMA Invariance == Spec => []Inv
  BY InitInv, NextInv, PTL DEF Spec

\* The tables and the handlers' state stay well formed.
THEOREM TypeCorrect == Spec => []TypeOK
<1>1. Inv => TypeOK
  BY DEF Inv
<1> QED
  BY Invariance, <1>1, PTL

\* However many deploys and attaches overlap, no group backs two apps.
THEOREM OneApp == Spec => []OneAppPerGroup
<1>1. Inv => OneAppPerGroup
  BY DEF Inv
<1> QED
  BY Invariance, <1>1, PTL

----------------------------------------------------------------------------
(* The handlers implement AppLifecycle: each step is one of its steps or   *)
(* leaves status, binding and chain as they were.                          *)

LEMMA LifecycleInit == Init => Lifecycle!Init
  BY DEF Init, Lifecycle!Init, NoApps, Unborn

\* A step that keeps the rows' status and group, and what is live, stutters.
LEMMA Stutter ==
  ASSUME Inv, Inv',
         \A a \in Apps : apps'[a].status = apps[a].status /\ apps'[a].group = apps[a].group,
         \A g \in Groups : (groups'[g].state = "live") <=> (groups[g].state = "live")
  PROVE  UNCHANGED Lifecycle!vars
  BY DEF Lifecycle!vars

LEMMA ConsoleLifecycle ==
  ASSUME Inv, Inv', NEW a \in Apps, Console(a)
  PROVE  [Lifecycle!Next]_(Lifecycle!vars)
<1>0. apps \in [Apps -> App]
  BY DEF Inv, TypeOK
<1>1. CASE \E u \in Users, env \in Environment : CreateApp(u, a, env)
  <2> PICK u \in Users, env \in Environment : CreateApp(u, a, env)
    BY <1>1
  <2>1. \A b \in Apps :
          /\ apps'[b].status = IF b = a THEN "provisioning" ELSE apps[b].status
          /\ apps'[b].group = apps[b].group
    BY <1>0 DEF CreateApp, Inv, RowsSound
  <2>2. apps[a].status = "absent" /\ UNCHANGED groups
    BY DEF CreateApp
  <2>3. Lifecycle!Register(a)
    BY <2>1, <2>2 DEF Lifecycle!Register
  <2> QED
    BY <2>3 DEF Lifecycle!Next
<1>2. CASE ArchiveApp(a)
  <2>1. \A b \in Apps :
          /\ apps'[b].status = IF b = a THEN "archived" ELSE apps[b].status
          /\ apps'[b].group = apps[b].group
    BY <1>0, <1>2 DEF ArchiveApp, App
  <2>2. apps[a].status \in {"provisioning", "live"} /\ UNCHANGED groups
    BY <1>2 DEF ArchiveApp, Open
  <2>3. Lifecycle!Archive(a)
    BY <2>1, <2>2 DEF Lifecycle!Archive
  <2> QED
    BY <2>3 DEF Lifecycle!Next
<1>3. CASE \E env \in Environment : ChangeEnvironment(a, env)
  BY <1>0, <1>3, Stutter DEF ChangeEnvironment, App
<1>4. CASE UNCHANGED <<apps, groups>>
  BY <1>4, Stutter
<1> QED
  BY <1>1, <1>2, <1>3, <1>4 DEF Console, ArriveDeploy, ArriveAttach, Arrive

LEMMA ChainLifecycle ==
  ASSUME Inv, Inv', NEW g \in Groups, Chain(g)
  PROVE  [Lifecycle!Next]_(Lifecycle!vars)
<1>0. groups \in [Groups -> Group] /\ Unborn.state = "none"
  BY DEF Inv, TypeOK, Unborn
<1>1. CASE Include(g) \/ \E u \in Users : CreateByWallet(u, g)
  <2>1. /\ \A k \in Groups : groups'[k].state = IF k = g THEN "live" ELSE groups[k].state
        /\ groups[g].state # "live" /\ UNCHANGED apps
    BY <1>0, <1>1 DEF Include, CreateByWallet, Group
  <2>2. Lifecycle!Deploy(g)
    BY <2>1 DEF Lifecycle!Deploy
  <2> QED
    BY <2>2 DEF Lifecycle!Next
<1>2. CASE Lose(g) \/ \E u \in Users : TransferManager(g, u)
  <2>1. /\ \A k \in Groups : (groups'[k].state = "live") <=> (groups[k].state = "live")
        /\ UNCHANGED apps
    BY <1>0, <1>2 DEF Lose, TransferManager, Group, Unborn
  <2> QED
    BY <2>1, Stutter
<1> QED
  BY <1>1, <1>2 DEF Chain

LEMMA ServeLifecycle ==
  ASSUME Inv, Inv', NEW r \in Requests, Serve(r) \/ Abandon(r)
  PROVE  [Lifecycle!Next]_(Lifecycle!vars)
<1>0. apps \in [Apps -> App] /\ groups \in [Groups -> Group] /\ Unborn.state = "none"
  BY DEF Inv, TypeOK, Unborn
<1>1. CASE AttachGroup(r) /\ apps' # apps
  <2>1. PICK a \in Apps, g \in Groups :
          /\ groups[g].state = "live" /\ UNCHANGED groups
          /\ apps[a].status \in {"provisioning", "live"}
          /\ \A b \in Apps \ {a} : apps[b].group # g
          /\ apps' = [apps EXCEPT ![a] = [@ EXCEPT !.status = "live", !.group = g]]
    BY <1>1, AttachEffect DEF Open
  <2>2. \A b \in Apps :
          /\ apps'[b].status = IF b = a THEN "live" ELSE apps[b].status
          /\ apps'[b].group = IF b = a THEN g ELSE apps[b].group
    BY <1>0, <2>1 DEF App
  <2>3. Lifecycle!Bind(a, g)
    BY <2>1, <2>2 DEF Lifecycle!Bind
  <2> QED
    BY <2>3 DEF Lifecycle!Next
<1>2. CASE \E g \in Groups, origin \in {"sponsored", "selfPaid"} : Submit(r, g, origin)
  <2>1. /\ \A k \in Groups : (groups'[k].state = "live") <=> (groups[k].state = "live")
        /\ UNCHANGED apps
    BY <1>0, <1>2 DEF Submit, Unborn
  <2> QED
    BY <2>1, Stutter
<1>3. CASE UNCHANGED <<apps, groups>>
  BY <1>3, Stutter
<1> QED
  BY <1>1, <1>2, <1>3
  DEF Serve, Abandon, ReadApp, CountSponsored, Receipt, ReadManager, AttachGroup,
      ConfirmTransaction

LEMMA LifecycleNext == Inv /\ Inv' /\ [Next]_vars => [Lifecycle!Next]_(Lifecycle!vars)
<1> SUFFICES ASSUME Inv, Inv', [Next]_vars
             PROVE  [Lifecycle!Next]_(Lifecycle!vars)
  OBVIOUS
<1>1. CASE Next
  BY <1>1, ServeLifecycle, ChainLifecycle, ConsoleLifecycle DEF Next
<1>2. CASE UNCHANGED vars
  BY <1>2, Stutter DEF vars
<1> QED
  BY <1>1, <1>2

\* Every behaviour of the handlers is a life the platform promises: an app is
\* bound only to a group that exists and backs no other app, is live while it is
\* bound, and never changes once archived - deploys in flight included.
THEOREM Refinement == Spec => LifecycleSpec
<1>1. Spec => Lifecycle!Init /\ [][Lifecycle!Next]_(Lifecycle!vars)
  BY Invariance, LifecycleInit, LifecycleNext, PTL DEF Spec
<1> QED
  BY <1>1 DEF LifecycleSpec, Lifecycle!Spec

----------------------------------------------------------------------------
(* What a request still knows when it acts on what it read.  Between the   *)
(* read and the act the app may be promoted and the group may change hands,*)
(* so the two properties below need the history that the reads leave.      *)

\* A sponsorship decision was taken on an app in development.
Told(q) ==
    /\ (q.pc = "read" /\ apps[q.app].env = "development") => q.wasDev
    /\ q.sponsored => q.wasDev

\* A request waits for its own operation, and links a group its user has managed.
Managed(q) ==
    /\ q.pc = "wait" => /\ groups[q.group].state \in {"pending", "live", "lost"}
                        /\ groups[q.group].state = "pending" => groups[q.group].maker = q.user
                        /\ groups[q.group].state = "live" => q.user \in groups[q.group].past
    /\ q.pc = "link" => q.user \in groups[q.group].past

\* Whoever made a group on the chain, and whoever manages it, has managed it.
PastKept ==
    \A g \in Groups : groups[g].state = "live" =>
        groups[g].maker \in groups[g].past /\ groups[g].manager \in groups[g].past

HistoryInv ==
    /\ Inv
    /\ PastKept
    /\ \A r \in Requests : Told(req[r]) /\ Managed(req[r])

LEMMA HistoryInit == Init => HistoryInv
<1> SUFFICES ASSUME Init
             PROVE  HistoryInv
  OBVIOUS
<1>1. Told(Idle) /\ Managed(Idle)
  BY DEF Told, Managed, Idle
<1>2. \A r \in Requests : Told(req[r]) /\ Managed(req[r])
  BY <1>1 DEF Init
<1>3. PastKept
  BY DEF Init, PastKept, Unborn
<1> QED
  BY <1>2, <1>3, InitInv DEF HistoryInv

\* The requests' own step: what it leaves in its slot has been looked up.
LEMMA RequestHistory ==
  ASSUME HistoryInv, Inv', NEW r \in Requests, NEW q, UNCHANGED <<apps, groups>>,
         req' = [req EXCEPT ![r] = q], Told(q), Managed(q)
  PROVE  HistoryInv'
<1>1. \A s \in Requests : req'[s] = IF s = r THEN q ELSE req[s]
  BY DEF HistoryInv, Inv, TypeOK
<1>2. ASSUME NEW s \in Requests
      PROVE  Told(req[s])' /\ Managed(req[s])'
  BY <1>1 DEF HistoryInv, Told, Managed
<1>3. PastKept'
  BY DEF HistoryInv, PastKept
<1> QED
  BY <1>2, <1>3 DEF HistoryInv

LEMMA FinishHistory ==
  ASSUME HistoryInv, Inv', NEW r \in Requests, UNCHANGED <<apps, groups>>, req' = Finish(r)
  PROVE  HistoryInv'
<1>1. Told(Idle) /\ Managed(Idle)
  BY DEF Told, Managed, Idle
<1> QED
  BY <1>1, RequestHistory DEF Finish

\* A step of the chain: an operation is included for its maker, a group keeps
\* everyone who managed it.
LEMMA ChainHistory ==
  ASSUME HistoryInv, Inv', NEW g \in Groups, Chain(g)
  PROVE  HistoryInv'
<1>0. groups \in [Groups -> Group] /\ UNCHANGED <<apps, req>>
  BY DEF HistoryInv, Inv, TypeOK, Chain, Include, Lose, CreateByWallet, TransferManager
<1>1. /\ \A k \in Groups \ {g} : groups'[k] = groups[k]
      /\ \/ /\ groups[g].state = "none" /\ groups'[g].state = "live"
            /\ groups'[g].maker \in groups'[g].past /\ groups'[g].manager \in groups'[g].past
         \/ /\ groups[g].state = "pending" /\ groups'[g].state = "live"
            /\ groups'[g].maker = groups[g].maker /\ groups'[g].manager = groups[g].maker
            /\ groups'[g].past = {groups[g].maker}
         \/ groups[g].state = "pending" /\ groups'[g].state = "lost"
         \/ /\ groups[g].state = "live" /\ groups'[g].state = "live"
            /\ groups'[g].maker = groups[g].maker
            /\ groups'[g].past = groups[g].past \cup {groups'[g].manager}
  <2>1. CASE Include(g)
    BY <1>0, <2>1 DEF Include, Group
  <2>2. CASE Lose(g)
    BY <1>0, <2>2 DEF Lose, Unborn
  <2>3. CASE \E u \in Users : CreateByWallet(u, g)
    BY <1>0, <2>3 DEF CreateByWallet
  <2>4. CASE \E u \in Users : TransferManager(g, u)
    BY <1>0, <2>4 DEF TransferManager, Group
  <2> QED
    BY <2>1, <2>2, <2>3, <2>4 DEF Chain
<1>2. PastKept'
  BY <1>1 DEF HistoryInv, PastKept
<1>3. ASSUME NEW r \in Requests
      PROVE  Told(req[r])' /\ Managed(req[r])'
  <2>1. Told(req[r]) /\ Managed(req[r])
        /\ (req[r].pc \in {"wait", "link"} => req[r].group \in Groups)
        /\ (req[r].pc = "link" => groups[req[r].group].state = "live")
    BY DEF HistoryInv, Inv, GroupsHeld
  <2>2. Told(req[r])'
    BY <1>0, <2>1 DEF Told
  <2>3. Managed(req[r])'
    BY <1>0, <1>1, <2>1 DEF Managed
  <2> QED
    BY <2>2, <2>3
<1> QED
  BY <1>2, <1>3 DEF HistoryInv

\* A step of the console: an app that comes back to development is noted by the
\* deploys that may yet read it so.
LEMMA ConsoleHistory ==
  ASSUME HistoryInv, Inv', NEW a \in Apps, Console(a)
  PROVE  HistoryInv'
<1>0. TypeOK /\ apps[a] \in App
  BY DEF HistoryInv, Inv, TypeOK
<1>1. CASE ArchiveApp(a) \/ \E u \in Users, env \in Environment : CreateApp(u, a, env)
  <2>0. UNCHANGED <<groups, req>>
    BY <1>1 DEF ArchiveApp, CreateApp
  <2>1. \A b \in Apps : apps[b].status # "absent" => apps'[b].env = apps[b].env
    BY <1>0, <1>1 DEF CreateApp, ArchiveApp, TypeOK, App
  <2>2. ASSUME NEW r \in Requests
        PROVE  Told(req[r])' /\ Managed(req[r])'
    <3>1. /\ Told(req[r]) /\ Managed(req[r])
          /\ req[r].pc # "idle" => req[r].app \in Apps /\ apps[req[r].app].status # "absent"
      BY DEF HistoryInv, Inv, RequestsNamed
    <3> QED
      BY <2>0, <2>1, <3>1 DEF Told, Managed
  <2> QED
    BY <2>0, <2>2 DEF HistoryInv, PastKept
<1>2. CASE \E env \in Environment : ChangeEnvironment(a, env)
  <2> PICK env \in Environment : ChangeEnvironment(a, env)
    BY <1>2
  <2>1. UNCHANGED groups /\ \A b \in Apps : apps'[b].env = IF b = a THEN env ELSE apps[b].env
    BY <1>0 DEF ChangeEnvironment, TypeOK, App
  <2>2. ASSUME NEW r \in Requests
        PROVE  Told(req[r])' /\ Managed(req[r])'
    <3> DEFINE dev == req[r].wasDev \/ env = "development"
    <3>1. /\ Told(req[r]) /\ Managed(req[r]) /\ req[r] \in Request
          /\ req[r].pc # "idle" => req[r].app \in Apps
      BY <1>0 DEF HistoryInv, Inv, RequestsNamed, TypeOK
    <3>2. req'[r] = IF req[r].app = a /\ req[r].pc \in {"read", "count", "submit"}
                    THEN [req[r] EXCEPT !.wasDev = dev] ELSE req[r]
      BY DEF ChangeEnvironment
    <3>3. /\ req'[r].pc = req[r].pc /\ req'[r].app = req[r].app /\ req'[r].user = req[r].user
          /\ req'[r].group = req[r].group /\ req'[r].sponsored = req[r].sponsored
          /\ req[r].wasDev => req'[r].wasDev
          /\ (req[r].app = a /\ req[r].pc = "read" /\ env = "development") => req'[r].wasDev
      BY <3>1, <3>2 DEF Request
    <3>4. Told(req[r])'
      BY <2>1, <3>1, <3>3 DEF Told
    <3>5. Managed(req[r])'
      BY <2>1, <3>1, <3>3 DEF Managed
    <3> QED
      BY <3>4, <3>5
  <2> QED
    BY <2>1, <2>2 DEF HistoryInv, PastKept
<1>3. CASE \E r \in Requests, u \in Users : ArriveDeploy(r, u, a)
  <2> PICK r \in Requests, u \in Users : Arrive(r, "deploy", u, a, NoGroup, "read")
    BY <1>3 DEF ArriveDeploy
  <2> DEFINE dev == apps[a].env = "development"
             q == [pc |-> "read", kind |-> "deploy", user |-> u, app |-> a, group |-> NoGroup,
                   sponsored |-> FALSE, wasDev |-> dev]
  <2>1. req' = [req EXCEPT ![r] = q] /\ UNCHANGED <<apps, groups>>
    BY DEF Arrive
  <2>2. Told(q) /\ Managed(q)
    BY DEF Told, Managed
  <2> HIDE DEF q
  <2> QED
    BY <2>1, <2>2, RequestHistory
<1>4. CASE \E r \in Requests, u \in Users, g \in Groups : ArriveAttach(r, u, a, g)
  <2> PICK r \in Requests, u \in Users, g \in Groups : Arrive(r, "attach", u, a, g, "manager")
    BY <1>4 DEF ArriveAttach
  <2> DEFINE q == [pc |-> "manager", kind |-> "attach", user |-> u, app |-> a, group |-> g,
                   sponsored |-> FALSE,
                   wasDev |-> ("attach" = "deploy" /\ apps[a].env = "development")]
  <2>1. req' = [req EXCEPT ![r] = q] /\ UNCHANGED <<apps, groups>>
    BY DEF Arrive
  <2>2. Told(q) /\ Managed(q)
    BY DEF Told, Managed
  <2> HIDE DEF q
  <2> QED
    BY <2>1, <2>2, RequestHistory
<1> QED
  BY <1>1, <1>2, <1>3, <1>4 DEF Console

LEMMA SubmitHistory ==
  ASSUME HistoryInv, Inv', NEW r \in Requests, NEW g \in Groups,
         NEW origin \in {"sponsored", "selfPaid"}, Submit(r, g, origin)
  PROVE  HistoryInv'
<1> DEFINE h == [Unborn EXCEPT !.state = "pending", !.origin = origin, !.maker = req[r].user]
<1>0. TypeOK /\ Inv /\ groups[g].state = "none" /\ UNCHANGED apps
  BY DEF HistoryInv, Inv, Submit
<1>1. h.state = "pending" /\ h.maker = req[r].user
  BY DEF Unborn
<1>2. groups' = [groups EXCEPT ![g] = h]
  BY DEF Submit
<1> HIDE DEF h
<1>3. \A k \in Groups : groups'[k] = IF k = g THEN h ELSE groups[k]
  BY <1>0, <1>2 DEF TypeOK
<1>4. PICK q \in Request :
        /\ req' = [req EXCEPT ![r] = q]
        /\ q.pc = "wait" /\ q.group = g /\ q.user = req[r].user /\ ~q.sponsored
  BY <1>0, CarryType DEF Submit
<1>5. \A s \in Requests : req'[s] = IF s = r THEN q ELSE req[s]
  BY <1>0, <1>4 DEF TypeOK
<1>6. ASSUME NEW s \in Requests
      PROVE  Told(req[s])' /\ Managed(req[s])'
  <2>1. CASE s = r
    BY <1>1, <1>3, <1>4, <1>5, <2>1 DEF Told, Managed
  <2>2. CASE s # r
    <3>1. /\ Told(req[s]) /\ Managed(req[s]) /\ req'[s] = req[s]
          /\ req[s].pc \in {"wait", "link"} => req[s].group \in Groups
          /\ req[s].pc = "link" => groups[req[s].group].state = "live"
      BY <1>5, <2>2 DEF HistoryInv, Inv, GroupsHeld
    <3>2. Told(req[s])'
      BY <1>0, <3>1 DEF Told
    <3>3. Managed(req[s])'
      BY <1>0, <1>3, <3>1 DEF Managed
    <3> QED
      BY <3>2, <3>3
  <2> QED
    BY <2>1, <2>2
<1>7. PastKept'
  BY <1>1, <1>3 DEF HistoryInv, PastKept
<1> QED
  BY <1>6, <1>7 DEF HistoryInv

LEMMA AttachHistory ==
  ASSUME HistoryInv, Inv', NEW r \in Requests, AttachGroup(r)
  PROVE  HistoryInv'
<1>0. TypeOK /\ Inv
  BY DEF HistoryInv, Inv
<1>1. UNCHANGED groups /\ \A s \in Requests : req'[s] = IF s = r THEN Idle ELSE req[s]
  BY <1>0 DEF AttachGroup, Finish, TypeOK
<1>2. \A b \in Apps : apps'[b].env = apps[b].env
  BY <1>0 DEF AttachGroup, TypeOK, App
<1>3. ASSUME NEW s \in Requests
      PROVE  Told(req[s])' /\ Managed(req[s])'
  <2>1. CASE s = r
    BY <1>1, <2>1 DEF Told, Managed, Idle
  <2>2. CASE s # r
    <3>1. /\ Told(req[s]) /\ Managed(req[s]) /\ req'[s] = req[s]
          /\ req[s].pc # "idle" => req[s].app \in Apps
      BY <1>0, <1>1, <2>2 DEF HistoryInv, Inv, RequestsNamed
    <3> QED
      BY <1>1, <1>2, <3>1 DEF Told, Managed
  <2> QED
    BY <2>1, <2>2
<1> QED
  BY <1>1, <1>3 DEF HistoryInv, PastKept

LEMMA ServeHistory ==
  ASSUME HistoryInv, Inv', NEW r \in Requests, Serve(r) \/ Abandon(r)
  PROVE  HistoryInv'
<1>0. /\ TypeOK /\ Inv /\ req[r] \in Request /\ PastKept
      /\ Told(req[r]) /\ Managed(req[r])
  BY DEF HistoryInv, Inv, TypeOK
<1>1. CASE req' = Finish(r) /\ UNCHANGED <<apps, groups>>
  BY <1>1, FinishHistory
<1>2. CASE ReadApp(r) /\ req' # Finish(r)
  <2> DEFINE dev == apps[req[r].app].env = "development"
             step == IF dev THEN "count" ELSE "submit"
             q == [req[r] EXCEPT !.pc = step, !.sponsored = dev]
  <2>1. req' = [req EXCEPT ![r] = q] /\ UNCHANGED <<apps, groups>> /\ req[r].pc = "read"
    BY <1>2 DEF ReadApp
  <2>2. q.pc \in {"count", "submit"} /\ q.sponsored = dev /\ q.wasDev = req[r].wasDev
    BY <1>0 DEF Request
  <2> HIDE DEF q
  <2>3. Told(q) /\ Managed(q)
    BY <1>0, <2>1, <2>2 DEF Told, Managed
  <2> QED
    BY <2>1, <2>3, RequestHistory
<1>3. CASE \/ CountSponsored(r) /\ req' # Finish(r)
           \/ Receipt(r)
           \/ ReadManager(r) /\ req' # Finish(r)
  <2> DEFINE step == IF CountSponsored(r) THEN "submit" ELSE "link"
             q == [req[r] EXCEPT !.pc = step]
  <2>1. req' = [req EXCEPT ![r] = q] /\ UNCHANGED <<apps, groups>>
    BY <1>3 DEF CountSponsored, Receipt, ReadManager, Goto
  <2>2. /\ q.pc = step /\ q.sponsored = req[r].sponsored /\ q.wasDev = req[r].wasDev
        /\ q.user = req[r].user /\ q.group = req[r].group
    BY <1>0 DEF Request
  <2>3. step \in {"submit", "link"}
    OBVIOUS
  <2> HIDE DEF q
  <2>4. Told(q)
    BY <1>0, <2>2, <2>3 DEF Told
  <2>5. step = "link" => req[r].user \in groups[req[r].group].past
    <3>1. CASE Receipt(r)
      BY <1>0, <3>1 DEF Receipt, Managed
    <3>2. CASE ReadManager(r) /\ req' # Finish(r)
      <4>1. /\ groups[req[r].group].state = "live" /\ groups[req[r].group].manager = req[r].user
            /\ req[r].group \in Groups
        BY <1>0, <3>2 DEF ReadManager, Inv, GroupsHeld
      <4> QED
        BY <1>0, <4>1 DEF PastKept
    <3> QED
      BY <1>3, <3>1, <3>2
  <2>6. Managed(q)
    BY <2>2, <2>3, <2>5 DEF Managed
  <2> QED
    BY <2>1, <2>4, <2>6, RequestHistory
<1>4. CASE \E g \in Groups : ConfirmTransaction(r, g)
  <2> PICK g \in Groups : ConfirmTransaction(r, g)
    BY <1>4
  <2>1. PICK q \in Request :
          /\ req' = [req EXCEPT ![r] = q]
          /\ q.pc = "link" /\ q.group = g /\ q.user = req[r].user /\ ~q.sponsored
    BY <1>0, CarryType DEF ConfirmTransaction
  <2>2. req[r].user \in groups[g].past /\ UNCHANGED <<apps, groups>>
    BY <1>0 DEF ConfirmTransaction, PastKept
  <2>3. Told(q) /\ Managed(q)
    BY <2>1, <2>2 DEF Told, Managed
  <2> QED
    BY <2>1, <2>2, <2>3, RequestHistory
<1> QED
  BY <1>1, <1>2, <1>3, <1>4, SubmitHistory, AttachHistory
  DEF Serve, Abandon, ReadApp, CountSponsored, ReadManager

LEMMA HistoryNext == HistoryInv /\ [Next]_vars => HistoryInv'
<1> SUFFICES ASSUME HistoryInv, [Next]_vars
             PROVE  HistoryInv'
  OBVIOUS
<1>0. Inv'
  BY NextInv DEF HistoryInv
<1>1. CASE Next
  BY <1>0, <1>1, ServeHistory, ChainHistory, ConsoleHistory DEF Next
<1>2. CASE UNCHANGED vars
  BY <1>0, <1>2 DEF vars, HistoryInv, PastKept, Told, Managed
<1> QED
  BY <1>1, <1>2

\* A group becomes the platform's to pay for only in a submission.
LEMMA StepSponsored ==
  ASSUME HistoryInv, [Next]_vars, NEW g \in Groups,
         groups[g].origin # "sponsored", groups'[g].origin = "sponsored"
  PROVE  \E r \in Requests : /\ req[r].pc = "submit" /\ req'[r].pc = "wait"
                             /\ req'[r].group = g /\ req[r].wasDev
<1>0. groups \in [Groups -> Group] /\ Inv /\ TypeOK
  BY DEF HistoryInv, Inv, TypeOK
<1>1. ASSUME NEW k \in Groups, Chain(k)
      PROVE  FALSE
  <2>1. CASE Include(k)
    <3>1. groups'[g].origin = groups[g].origin
      BY <1>0, <2>1 DEF Include, Group
    <3> QED
      BY <3>1
  <2>3. CASE \E u \in Users : TransferManager(k, u)
    <3> PICK u \in Users : TransferManager(k, u)
      BY <2>3
    <3>1. groups'[g].origin = groups[g].origin
      BY <1>0 DEF TransferManager, Group
    <3> QED
      BY <3>1
  <2>2. CASE Lose(k) \/ \E u \in Users : CreateByWallet(u, k)
    BY <1>0, <2>2 DEF Lose, CreateByWallet, Unborn
  <2> QED
    BY <1>1, <2>1, <2>2, <2>3 DEF Chain
<1>2. PICK r \in Requests, k \in Groups, origin \in {"sponsored", "selfPaid"} :
        Submit(r, k, origin)
  BY <1>1 DEF Next, vars, Console, CreateApp, ChangeEnvironment, ArchiveApp, ArriveDeploy,
              ArriveAttach, Arrive, Serve, Abandon, ReadApp, CountSponsored, Receipt,
              ReadManager, AttachGroup, ConfirmTransaction
<1>3. k = g /\ origin = "sponsored"
  BY <1>0, <1>2 DEF Submit, Unborn
<1>4. req[r].pc = "submit" /\ req[r].sponsored
  BY <1>2, <1>3 DEF Submit
<1>5. req[r].wasDev
  BY <1>4 DEF HistoryInv, Told
<1>6. PICK q \in Request : req' = [req EXCEPT ![r] = q] /\ q.pc = "wait" /\ q.group = g
  BY <1>0, <1>2, <1>3, CarryType DEF Submit
<1> QED
  BY <1>0, <1>4, <1>5, <1>6 DEF TypeOK

\* The platform pays to create a group only for an app that was in development
\* at some time since its deploy arrived (handleDeployGroup reads it once).
THEOREM Sponsored == Spec => SponsoredWhileDevelopment
<1>1. HistoryInv /\ [Next]_vars =>
        [\A g \in Groups :
            (groups[g].origin # "sponsored" /\ groups'[g].origin = "sponsored")
               => \E r \in Requests : /\ req[r].pc = "submit" /\ req'[r].pc = "wait"
                                      /\ req'[r].group = g /\ req[r].wasDev]_vars
  BY StepSponsored
<1> QED
  BY HistoryInit, HistoryNext, <1>1, PTL DEF Spec, SponsoredWhileDevelopment

LEMMA StepLinked ==
  ASSUME HistoryInv, [Next]_vars, NEW a \in Apps, apps'[a].group # apps[a].group
  PROVE  \E r \in Requests : /\ req[r].pc = "link" /\ req'[r].pc = "idle"
                             /\ req[r].app = a
                             /\ req[r].user \in groups[apps'[a].group].past
<1>0. Inv /\ TypeOK
  BY DEF HistoryInv, Inv
<1>1. ASSUME NEW b \in Apps, Console(b)
      PROVE  FALSE
  BY <1>0, <1>1 DEF Console, CreateApp, ChangeEnvironment, ArchiveApp, ArriveDeploy,
                    ArriveAttach, Arrive, Inv, RowsSound, TypeOK, App
<1>2. PICK r \in Requests : AttachGroup(r)
  BY <1>1 DEF Next, vars, Chain, Include, Lose, CreateByWallet, TransferManager, Serve,
              Abandon, ReadApp, CountSponsored, Submit, Receipt, ReadManager,
              ConfirmTransaction
<1>3. req[r].app = a /\ apps'[a].group = req[r].group /\ req[r].pc = "link"
  BY <1>0, <1>2 DEF AttachGroup, TypeOK, App
<1>4. req[r].user \in groups[req[r].group].past
  BY <1>3 DEF HistoryInv, Managed
<1>5. req'[r].pc = "idle"
  BY <1>0, <1>2 DEF AttachGroup, Finish, Idle, TypeOK
<1> QED
  BY <1>3, <1>4, <1>5

\* Nobody links a group they have never managed: attach reads the manager, and a
\* deploy waits for its own operation or quotes its caller's own transaction.
THEOREM Linked == Spec => LinkedByAManager
<1>1. HistoryInv /\ [Next]_vars =>
        [\A a \in Apps :
            apps'[a].group # apps[a].group
               => \E r \in Requests : /\ req[r].pc = "link" /\ req'[r].pc = "idle"
                                      /\ req[r].app = a
                                      /\ req[r].user \in groups[apps'[a].group].past]_vars
  BY StepLinked
<1> QED
  BY HistoryInit, HistoryNext, <1>1, PTL DEF Spec, LinkedByAManager
=============================================================================
