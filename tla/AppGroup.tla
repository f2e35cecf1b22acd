------------------------------ MODULE AppGroup ------------------------------
(***************************************************************************)
(* Apps and the signing groups behind them: the apps table, the bundler and*)
(* the factory contract, and the requests that create, deploy, attach and  *)
(* archive (backend/internal/api/handlers_group.go, handlers_onchain.go,   *)
(* handlers_apps.go, backend/internal/store/apps.go).                      *)
(*                                                                         *)
(* A deploy reads the app, waits up to 90 seconds on the bundler and only  *)
(* then writes: everything it decided on may have changed meanwhile.  The  *)
(* refusals that depend on the operators of a group or on a caller's role  *)
(* are AppPromotion's and OrgMembership's; here a request may simply end.  *)
(* The sync that follows a binding is AppPromotion's and TrustMirror's.    *)
(***************************************************************************)
EXTENDS Naturals, FiniteSets

CONSTANTS Users,        \* developers, each with the accounts they control
          Apps,         \* rows the apps table may come to hold
          Groups,       \* addresses createGroup may deploy to
          Requests,     \* slots for requests being served at the same time
          Nobody,       \* no user
          NoApp,        \* no app
          NoGroup,      \* group_address IS NULL
          MaxSponsored  \* MaxSponsoredGroupsPerSubject

ASSUME NoneAssumption == Nobody \notin Users /\ NoGroup \notin Groups /\ NoApp \notin Apps
ASSUME MaxSponsoredAssumption == MaxSponsored \in Nat \ {0}

VARIABLES
    apps,     \* the apps table
    groups,   \* what the chain, and the bundler's mempool, know of each address
    req       \* the handler's local state, one record per request slot

vars == <<apps, groups, req>>

Environment == {"development", "production"}

App == [status : {"absent", "provisioning", "live", "archived"}, env : Environment,
        creator : Users \cup {Nobody}, group : Groups \cup {NoGroup}]

\* A group is the createGroup call that makes it: accepted by the bundler,
\* included, or lost (dropped or reverted).  "past" is who has ever managed it.
Group == [state : {"none", "pending", "live", "lost"},
          origin : {"none", "sponsored", "selfPaid", "wallet"},
          maker : Users \cup {Nobody}, manager : Users \cup {Nobody}, past : SUBSET Users]

Request == [pc : {"idle", "read", "count", "submit", "wait", "confirm", "manager", "link"},
            kind : {"none", "deploy", "attach"}, user : Users \cup {Nobody},
            app : Apps \cup {NoApp}, group : Groups \cup {NoGroup},
            sponsored : BOOLEAN,   \* what the app's environment was read to say
            wasDev : BOOLEAN]      \* history: the app has been in development

Idle == [pc |-> "idle", kind |-> "none", user |-> Nobody, app |-> NoApp,
         group |-> NoGroup, sponsored |-> FALSE, wasDev |-> FALSE]

NoApps == [status |-> "absent", env |-> "development", creator |-> Nobody, group |-> NoGroup]
Unborn == [state |-> "none", origin |-> "none", maker |-> Nobody, manager |-> Nobody,
           past |-> {}]

TypeOK ==
    /\ apps \in [Apps -> App]
    /\ groups \in [Groups -> Group]
    /\ req \in [Requests -> Request]

Init ==
    /\ apps = [a \in Apps |-> NoApps]
    /\ groups = [g \in Groups |-> Unborn]
    /\ req = [r \in Requests |-> Idle]

Finish(r) == [req EXCEPT ![r] = Idle]
Goto(r, step) == [req EXCEPT ![r].pc = step]
\* From here on the group is all the request still needs.
Carry(r, step, g) ==
    [req EXCEPT ![r] = [@ EXCEPT !.pc = step, !.group = g, !.sponsored = FALSE, !.wasDev = FALSE]]

Open(a) == apps[a].status \in {"provisioning", "live"}     \* archived_at IS NULL

----------------------------------------------------------------------------
(* Apps                                                                    *)

\* An INSERT that leaves the environment to a default the schema does not give.
CreateUnplaced(u, a, env) ==
    /\ apps[a].status = "absent"
    /\ apps' = [apps EXCEPT ![a] = [status |-> "provisioning", env |-> "", creator |-> u,
                                    group |-> NoGroup]]
    /\ UNCHANGED <<groups, req>>

CreateApp(u, a, env) ==
    /\ apps[a].status = "absent"
    /\ apps' = [apps EXCEPT ![a] = [status |-> "provisioning", env |-> env,
                                    creator |-> u, group |-> NoGroup]]
    /\ UNCHANGED <<groups, req>>

\* handleUpdateApp: what CheckEnvironment may refuse is AppPromotion's.  A
\* deploy in flight has seen the app in development if it is or becomes so.
ChangeEnvironment(a, env) ==
    /\ Open(a) /\ apps[a].env # env
    /\ apps' = [apps EXCEPT ![a].env = env]
    /\ req' = [r \in Requests |->
                 IF req[r].app = a /\ req[r].pc \in {"read", "count", "submit"}
                 THEN [req[r] EXCEPT !.wasDev = @ \/ env = "development"] ELSE req[r]]
    /\ UNCHANGED groups

\* handleArchiveApp: the group, and its address in the row, stay.
ArchiveApp(a) ==
    /\ Open(a)
    /\ apps' = [apps EXCEPT ![a].status = "archived"]
    /\ UNCHANGED <<groups, req>>

----------------------------------------------------------------------------
(* The chain and the bundler                                               *)

\* createGroup makes msg.sender the manager in the transaction that creates it.
CreateByWallet(u, g) ==
    /\ groups[g].state = "none"
    /\ groups' = [groups EXCEPT ![g] = [state |-> "live", origin |-> "wallet",
                                        maker |-> u, manager |-> u, past |-> {u}]]
    /\ UNCHANGED <<apps, req>>

Include(g) ==
    /\ groups[g].state = "pending"
    /\ groups' = [groups EXCEPT ![g].state = "live", ![g].manager = groups[g].maker,
                                ![g].past = {groups[g].maker}]
    /\ UNCHANGED <<apps, req>>

Lose(g) ==
    /\ groups[g].state = "pending"
    /\ groups' = [groups EXCEPT ![g] = [Unborn EXCEPT !.state = "lost"]]
    /\ UNCHANGED <<apps, req>>

TransferManager(g, u) ==
    /\ groups[g].state = "live" /\ groups[g].manager # u
    /\ groups' = [groups EXCEPT ![g].manager = u, ![g].past = @ \cup {u}]
    /\ UNCHANGED <<apps, req>>

----------------------------------------------------------------------------
(* handleDeployGroup                                                       *)

Arrive(r, kind, u, a, g, step) ==
    /\ req[r].pc = "idle" /\ Open(a)                    \* the guard
    /\ req' = [req EXCEPT ![r] = [pc |-> step, kind |-> kind, user |-> u, app |-> a,
                                  group |-> g, sponsored |-> FALSE,
                                  wasDev |-> (kind = "deploy" /\ apps[a].env = "development")]]
    /\ UNCHANGED <<apps, groups>>

ArriveDeploy(r, u, a) == Arrive(r, "deploy", u, a, NoGroup, "read")
ArriveAttach(r, u, a, g) == Arrive(r, "attach", u, a, g, "manager")

\* The sponsorship decision, taken once on the row as it is now.
ReadApp(r) ==
    LET q == req[r] dev == apps[q.app].env = "development" IN
    /\ q.pc = "read"
    /\ req' = IF apps[q.app].group # NoGroup THEN Finish(r)
              ELSE [req EXCEPT ![r].pc = IF dev THEN "count" ELSE "submit",
                               ![r].sponsored = dev]
    /\ UNCHANGED <<apps, groups>>

\* SponsoredGroupCount: by the app's creator, archived or not.
SponsoredGroups(u) ==
    {a \in Apps : apps[a].creator = u /\ apps[a].group # NoGroup
                     /\ apps[a].env = "development"}

CountSponsored(r) ==
    /\ req[r].pc = "count"
    /\ req' = IF Cardinality(SponsoredGroups(req[r].user)) >= MaxSponsored
              THEN Finish(r) ELSE Goto(r, "submit")
    /\ UNCHANGED <<apps, groups>>

\* An operation sent without looking at its paymaster fields.
SubmitUnguarded(r, g, origin) ==
    LET q == req[r] IN
    /\ q.pc = "submit" /\ groups[g].state = "none"
    /\ groups' = [groups EXCEPT ![g] = [Unborn EXCEPT !.state = "pending", !.origin = origin,
                                                     !.maker = q.user]]
    /\ req' = Carry(r, "wait", g)
    /\ UNCHANGED apps

\* submitUserOp: the sender is the caller's own wallet, and paymaster data is
\* refused unless this request was granted sponsorship.
Submit(r, g, origin) ==
    LET q == req[r] IN
    /\ q.pc = "submit" /\ groups[g].state = "none"
    /\ origin = "sponsored" => q.sponsored
    /\ groups' = [groups EXCEPT ![g] = [Unborn EXCEPT !.state = "pending", !.origin = origin,
                                                     !.maker = q.user]]
    /\ req' = Carry(r, "wait", g)
    /\ UNCHANGED apps

\* A hash taken on its own, whoever sent the transaction.
ConfirmAnyHash(r, g) ==
    /\ req[r].pc = "submit"
    /\ groups[g].state = "live" /\ groups[g].origin = "wallet"
    /\ req' = Carry(r, "link", g)
    /\ UNCHANGED <<apps, groups>>

\* confirmTransaction: mined, successful, and sent by the caller, at any time in
\* the past; GroupCreatedIn then reads the address from the factory's event.
ConfirmTransaction(r, g) ==
    /\ req[r].pc = "submit"
    /\ groups[g].state = "live" /\ groups[g].origin = "wallet"
    /\ groups[g].maker = req[r].user
    /\ req' = Carry(r, "link", g)
    /\ UNCHANGED <<apps, groups>>

\* Success reported as soon as the bundler accepts the operation.
AssumeIncluded(r) ==
    /\ req[r].pc = "wait"
    /\ req' = Goto(r, "link")
    /\ UNCHANGED <<apps, groups>>

\* Send's poll finds the receipt, and GroupCreatedIn the address.
Receipt(r) ==
    /\ req[r].pc = "wait" /\ groups[req[r].group].state = "live"
    /\ req' = Goto(r, "link")
    /\ UNCHANGED <<apps, groups>>

----------------------------------------------------------------------------
(* handleAttachGroup and the binding itself                                *)

ReadManager(r) ==
    /\ req[r].pc = "manager"
    /\ req' = IF groups[req[r].group].state = "live"
                    /\ groups[req[r].group].manager = req[r].user
              THEN Goto(r, "link") ELSE Finish(r)
    /\ UNCHANGED <<apps, groups>>

\* The UPDATE without the unique index on group_address.
LinkWithoutIndex(r) ==
    LET q == req[r] IN
    /\ q.pc = "link"
    /\ IF Open(q.app)
       THEN apps' = [apps EXCEPT ![q.app].status = "live", ![q.app].group = q.group]
       ELSE UNCHANGED apps
    /\ req' = Finish(r)
    /\ UNCHANGED groups

\* AttachGroup: one UPDATE, guarded by archived_at and by the unique index.  It
\* overwrites whatever group the app has by now.
AttachGroup(r) ==
    LET q == req[r] IN
    /\ q.pc = "link"
    /\ IF Open(q.app) /\ \A b \in Apps \ {q.app} : apps[b].group # q.group
       THEN apps' = [apps EXCEPT ![q.app].status = "live", ![q.app].group = q.group]
       ELSE UNCHANGED apps
    /\ req' = Finish(r)
    /\ UNCHANGED groups

\* A refusal that is not modelled here, a failed chain or database call, the
\* 90-second timeout, a crash: the request ends, the operation it sent does not.
Abandon(r) ==
    /\ req[r].pc # "idle"
    /\ req' = Finish(r)
    /\ UNCHANGED <<apps, groups>>

----------------------------------------------------------------------------

Serve(r) ==
    \/ ReadApp(r) \/ CountSponsored(r) \/ Receipt(r) \/ ReadManager(r) \/ AttachGroup(r)
    \/ \E g \in Groups, origin \in {"sponsored", "selfPaid"} : Submit(r, g, origin)
    \/ \E g \in Groups : ConfirmTransaction(r, g)

Chain(g) ==
    \/ Include(g) \/ Lose(g)
    \/ \E u \in Users : CreateByWallet(u, g) \/ TransferManager(g, u)

Console(a) ==
    \/ \E u \in Users, env \in Environment : CreateApp(u, a, env)
    \/ \E env \in Environment : ChangeEnvironment(a, env)
    \/ ArchiveApp(a)
    \/ \E r \in Requests, u \in Users : ArriveDeploy(r, u, a)
    \/ \E r \in Requests, u \in Users, g \in Groups : ArriveAttach(r, u, a, g)

Next ==
    \/ \E r \in Requests : Serve(r) \/ Abandon(r)
    \/ \E g \in Groups : Chain(g)
    \/ \E a \in Apps : Console(a)

Spec == Init /\ [][Next]_vars

----------------------------------------------------------------------------
(* Properties                                                              *)

\* One group backs one app at most, archived apps included: an address pasted
\* or created twice cannot hijack another app's group (AttachGroup).
OneAppPerGroup ==
    \A a, b \in Apps : (apps[a].group = apps[b].group /\ apps[a].group # NoGroup) => a = b

\* The handlers implement the life of an app as the platform describes it:
\* bound to a group that exists, live while bound, final once archived, whatever
\* deploys and attaches were in flight.
Lifecycle ==
    INSTANCE AppLifecycle WITH
        status <- [a \in Apps |-> apps[a].status],
        binding <- [a \in Apps |-> apps[a].group],
        onChain <- {g \in Groups : groups[g].state = "live"}
LifecycleSpec == Lifecycle!Spec

\* The platform pays to create a group only for an app that was in development at
\* some time since its deploy arrived, whatever was promoted meanwhile.
SponsoredWhileDevelopment ==
    [][\A g \in Groups :
          (groups[g].origin # "sponsored" /\ groups'[g].origin = "sponsored")
             => \E r \in Requests : /\ req[r].pc = "submit" /\ req'[r].pc = "wait"
                                    /\ req'[r].group = g /\ req[r].wasDev]_vars

\* Nobody links a group they have never managed: not by pasting its address, not
\* by quoting the hash of somebody else's transaction.
LinkedByAManager ==
    [][\A a \in Apps :
          apps'[a].group # apps[a].group
             => \E r \in Requests : /\ req[r].pc = "link" /\ req'[r].pc = "idle"
                                    /\ req[r].app = a
                                    /\ req[r].user \in groups[apps'[a].group].past]_vars

\* The ceiling on sponsored groups per person (config.go).
SponsorCeiling ==
    \A u \in Users :
        Cardinality({g \in Groups : /\ groups[g].state = "live" /\ groups[g].maker = u
                                    /\ groups[g].origin = "sponsored"}) <= MaxSponsored
=============================================================================
