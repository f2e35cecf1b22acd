---------------------------- MODULE AppPromotion ----------------------------
(***************************************************************************)
(* One app, the operators of the group behind it and the environment it is *)
(* in: the chain, the cached membership (app_nodes and the summary in apps)*)
(* that syncGroup copies from it, and the promotion that is decided on the *)
(* cache (backend/internal/api/handlers_group.go, handlers_apps.go,        *)
(* backend/internal/store/nodes.go, backend/internal/policy/policy.go).    *)
(*                                                                         *)
(* syncGroup reads the chain one call at a time and writes one table after *)
(* the other; a timer, sync requests, attaches, deploys and promotions all *)
(* run it, each with the group address it read when it began.  Which group *)
(* may be linked to which app is AppGroup's; issuers and authorization keys*)
(* are TrustMirror's.                                                      *)
(***************************************************************************)
EXTENDS Naturals, FiniteSets

CONSTANTS Groups,       \* signing groups the app may come to be linked to
          Nodes,        \* operators outside O'Leary Labs; the others never matter
          Requests,     \* slots for requests being served at the same time
          Timer,        \* the goroutine running SyncAllGroups
          NoGroup,      \* group_address IS NULL
          MinExternal   \* MinExternalOperatorsForProduction

ASSUME SlotAssumption == NoGroup \notin Groups /\ Timer \notin Requests
ASSUME NodesAssumption == IsFiniteSet(Nodes) /\ MinExternal \in Nat \ {0}

VARIABLES
    app,       \* the row in apps: environment, group_address, node_count
    rows,      \* app_nodes: the cached status of each operator
    members,   \* the chain: the active operators of each group ...
    queued,    \* ... and those of them whose removal is queued
    paid,      \* PlanIsPaid(organizations.plan)
    req,       \* the local state of each request, and of the timer
    met,       \* history: the groups that have had MinExternal operators
    served,    \* history: the operators that have been in any group
    mixed      \* history: the cache holds rows of several syncs

history == <<met, served, mixed>>
vars == <<app, rows, members, queued, paid, req, history>>

Slots == Requests \cup {Timer}
Environment == {"development", "production"}
Enough(ns) == Cardinality(ns) >= MinExternal

Sync == {"active", "removals", "replace", "insert", "summary"}
Step == {"idle", "count", "environment", "operators", "link", "reload"} \cup Sync
            \cup {"plan", "composition", "update"}

\* newer: the operators with a row that others have committed since its DELETE ran.
\* fresh: the cache holds what this request wrote and no more, nobody having
\* written since.  wasMet: its group has had MinExternal operators since the request
\* began.  onMixed: it was let through on rows of several syncs.
Request == [pc : Step, kind : {"none", "sync", "attach", "deploy", "promote"},
            group : Groups \cup {NoGroup}, active : SUBSET Nodes, leaving : SUBSET Nodes,
            newer : SUBSET Nodes, fresh : BOOLEAN, wasMet : BOOLEAN, onMixed : BOOLEAN]

Idle == [pc |-> "idle", kind |-> "none", group |-> NoGroup, active |-> {}, leaving |-> {},
         newer |-> {}, fresh |-> FALSE, wasMet |-> FALSE, onMixed |-> FALSE]

TypeOK ==
    /\ app \in [env : Environment, group : Groups \cup {NoGroup}, count : 0..Cardinality(Nodes)]
    /\ rows \in [Nodes -> {"none", "active", "removing"}]
    /\ members \in [Groups -> SUBSET Nodes]
    /\ queued \in [Groups -> SUBSET Nodes] /\ \A g \in Groups : queued[g] \subseteq members[g]
    /\ paid \in BOOLEAN
    /\ req \in [Slots -> Request]
    /\ met \subseteq Groups /\ served \subseteq Nodes /\ mixed \in BOOLEAN

\* handleCreateApp takes either environment; groups may exist before they are
\* linked, with any operators; the plan is whatever the organization's is.
Init ==
    /\ app \in [env : Environment, group : {NoGroup}, count : {0}]
    /\ rows = [n \in Nodes |-> "none"]
    /\ members \in [Groups -> SUBSET Nodes]
    /\ queued = [g \in Groups |-> {}]
    /\ paid \in BOOLEAN
    /\ req = [r \in Slots |-> Idle]
    /\ met = {g \in Groups : Enough(members[g])}
    /\ served = UNION {members[g] : g \in Groups} /\ mixed = FALSE

Finish(r) == [req EXCEPT ![r] = Idle]
Goto(r, step) == [req EXCEPT ![r].pc = step]

----------------------------------------------------------------------------
(* The chain, and the plan                                                 *)

\* The operators of g become ns: every request about g witnesses it.
Compose(g, ns) ==
    /\ members' = [members EXCEPT ![g] = ns]
    /\ met' = IF Enough(ns) THEN met \cup {g} ELSE met
    /\ served' = served \cup ns /\ UNCHANGED mixed
    /\ req' = [r \in Slots |-> IF req[r].group = g /\ req[r].kind = "promote"
                               THEN [req[r] EXCEPT !.wasMet = @ \/ Enough(ns)] ELSE req[r]]

Join(g, n) ==
    /\ n \notin members[g]
    /\ Compose(g, members[g] \cup {n})
    /\ UNCHANGED <<app, rows, queued, paid>>

QueueRemoval(g, n) ==
    /\ n \in members[g] \ queued[g]
    /\ queued' = [queued EXCEPT ![g] = @ \cup {n}]
    /\ UNCHANGED <<app, rows, members, paid, req, history>>

CancelRemoval(g, n) ==
    /\ n \in queued[g]
    /\ queued' = [queued EXCEPT ![g] = @ \ {n}]
    /\ UNCHANGED <<app, rows, members, paid, req, history>>

ExecuteRemoval(g, n) ==
    /\ n \in queued[g]
    /\ Compose(g, members[g] \ {n})
    /\ queued' = [queued EXCEPT ![g] = @ \ {n}]
    /\ UNCHANGED <<app, rows, paid>>

\* No handler writes organizations.plan; whoever bills does.
ChangePlan ==
    /\ paid' = ~paid
    /\ UNCHANGED <<app, rows, members, queued, req, history>>

----------------------------------------------------------------------------
(* syncGroup                                                               *)

\* The request, or the timer, loads the app and keeps the address it read.
Begin(r, kind, step, g, ns) ==
    /\ req[r].pc = "idle"
    /\ req' = [req EXCEPT ![r] =
                [Idle EXCEPT !.pc = step, !.kind = kind, !.group = g, !.active = ns,
                             !.wasMet = (kind = "promote" /\ g # NoGroup /\ Enough(members[g]))]]
    /\ UNCHANGED <<app, rows, members, queued, paid, history>>

\* handleSyncGroup, and each app SyncAllGroups finds with a group.
StartSync(r) ==
    /\ app.group # NoGroup
    /\ Begin(r, "sync", "active", app.group, {})

\* GroupState: the active operators first, the queued removals in a later call.
ReadActive(r) ==
    /\ req[r].pc = "active"
    /\ req' = [req EXCEPT ![r].pc = "removals", ![r].active = members[req[r].group]]
    /\ UNCHANGED <<app, rows, members, queued, paid, history>>

ReadRemovals(r) ==
    /\ req[r].pc = "removals"
    /\ req' = [req EXCEPT ![r].pc = "replace",
                          ![r].leaving = queued[req[r].group] \cap req[r].active]
    /\ UNCHANGED <<app, rows, members, queued, paid, history>>

\* ReplaceGroupNodes is one transaction at READ COMMITTED: its DELETE takes the rows
\* committed when it starts, and waits for none that another has yet to commit.
DeleteGroupNodes(r) ==
    /\ req[r].pc = "replace"
    /\ req' = [req EXCEPT ![r].pc = "insert"]
    /\ UNCHANGED <<app, rows, members, queued, paid, history>>

\* The snapshot committed beside the rows of ns.  Another that has run its DELETE sees
\* none of the snapshot, and no more of the rows beside it than it has.
Commit(r, ns) ==
    LET q == req[r] IN
    /\ q.pc = "insert"
    /\ rows' = [n \in Nodes |-> IF n \in q.active
                                THEN IF n \in q.leaving THEN "removing" ELSE "active"
                                ELSE IF n \in ns THEN rows[n] ELSE "none"]
    /\ mixed' = (q.newer # {})
    /\ req' = [s \in Slots |->
                 CASE s = r -> [q EXCEPT !.pc = "summary", !.leaving = {}, !.newer = {},
                                         !.fresh = (q.kind = "promote" /\ q.newer = {})]
                   [] s # r /\ req[s].pc = "insert" ->
                         [req[s] EXCEPT !.newer = q.active \cup (@ \cap q.newer), !.fresh = FALSE]
                   [] OTHER -> [req[s] EXCEPT !.fresh = FALSE]]
    /\ UNCHANGED <<app, members, queued, paid, met, served>>

\* Merged into the rows that are there, which nothing then deletes.
MergeGroupNodes(r) == Commit(r, Nodes)

\* One row an operator: a row that another has committed is in the way.
InsertGroupNodes(r) ==
    /\ req[r].active \cap req[r].newer = {}
    /\ Commit(r, req[r].newer)

\* A promotion goes on to the checks, whatever became of its sync.
AfterSync(r) ==
    IF req[r].kind = "promote"
    THEN [req EXCEPT ![r].pc = "plan", ![r].active = {}, ![r].leaving = {}, ![r].newer = {}]
    ELSE Finish(r)

\* SyncGroupState, with the number of active operators in the same snapshot.
SyncGroupState(r) ==
    /\ req[r].pc = "summary"
    /\ app' = [app EXCEPT !.count = Cardinality(req[r].active)]
    /\ req' = AfterSync(r)
    /\ UNCHANGED <<rows, members, queued, paid, history>>

\* What has been committed stays.
EndSync(r) ==
    /\ req' = AfterSync(r)
    /\ UNCHANGED <<app, rows, members, queued, paid, history>>

\* The primary key of app_nodes: the transaction rolls back.
Conflict(r) ==
    /\ req[r].pc = "insert" /\ req[r].active \cap req[r].newer # {}
    /\ EndSync(r)

\* A chain read fails, or Postgres ends one of two writers that wait for each other.
FailSync(r) ==
    /\ req[r].pc \in Sync
    /\ EndSync(r)

----------------------------------------------------------------------------
(* Linking a group                                                         *)

ArriveAttach(r, g) == Begin(r, "attach", "count", g, {})

ReadNodeCount(r) ==
    /\ req[r].pc = "count"
    /\ req' = [req EXCEPT ![r].pc = "environment", ![r].active = members[req[r].group]]
    /\ UNCHANGED <<app, rows, members, queued, paid, history>>

\* The check is for development apps; a failed read of the app skips it.
ReadEnvironment(r) ==
    /\ req[r].pc = "environment"
    /\ \E loaded \in BOOLEAN :
          req' = Goto(r, IF loaded /\ app.env = "development" THEN "operators" ELSE "link")
    /\ UNCHANGED <<app, rows, members, queued, paid, history>>

\* developmentOperatorRefusal, on a second reading of the chain.
CheckOperators(r) ==
    /\ req[r].pc = "operators"
    /\ req' = IF members[req[r].group] = {} THEN Goto(r, "link") ELSE Finish(r)
    /\ UNCHANGED <<app, rows, members, queued, paid, history>>

\* handleDeployGroup once GroupCreatedIn has named the group: the operators it
\* counts are those the request listed, not those in the calldata.
ArriveDeploy(r, g, listed) ==
    /\ app.group = NoGroup
    /\ app.env = "development" => listed = {}
    /\ Begin(r, "deploy", "link", g, listed)

\* AttachGroup; an attach goes on to sync the row this UPDATE returned, and a
\* deploy loads the app once more.
AttachGroup(r) ==
    LET q == req[r] IN
    /\ q.pc = "link"
    /\ app' = [app EXCEPT !.group = q.group, !.count = Cardinality(q.active)]
    /\ req' = [req EXCEPT ![r] = IF q.kind = "deploy"
                                 THEN [q EXCEPT !.pc = "reload", !.active = {}]
                                 ELSE [Idle EXCEPT !.pc = "active", !.kind = "sync", !.group = q.group]]
    /\ UNCHANGED <<rows, members, queued, paid, history>>

Reload(r) ==
    /\ req[r].pc = "reload"
    /\ req' = [req EXCEPT ![r] = [Idle EXCEPT !.pc = "active", !.kind = "sync", !.group = app.group]]
    /\ UNCHANGED <<app, rows, members, queued, paid, history>>

----------------------------------------------------------------------------
(* handleUpdateApp                                                         *)

\* checkEnvironmentChange loads the app and syncs the group it names.
ArrivePromote(r) ==
    Begin(r, "promote", IF app.group = NoGroup THEN "plan" ELSE "active", app.group, {})

ReadPlan(r) ==
    /\ req[r].pc = "plan"
    /\ req' = IF paid THEN Goto(r, "composition") ELSE Finish(r)
    /\ UNCHANGED <<app, rows, members, queued, paid, history>>

\* One of our own operators counted in with the others.
CountEveryOperator(r) ==
    /\ req[r].pc = "composition"
    /\ req' = IF /\ req[r].group # NoGroup
                 /\ Cardinality({n \in Nodes : rows[n] = "active"}) + 1 >= MinExternal
              THEN [req EXCEPT ![r].pc = "update", ![r].onMixed = mixed] ELSE Finish(r)
    /\ UNCHANGED <<app, rows, members, queued, paid, history>>

\* GroupComposition and CheckEnvironment: the cache, and an operator whose
\* removal is queued does not count.
ReadComposition(r) ==
    /\ req[r].pc = "composition"
    /\ req' = IF req[r].group # NoGroup /\ Enough({n \in Nodes : rows[n] = "active"})
              THEN [req EXCEPT ![r].pc = "update", ![r].onMixed = mixed] ELSE Finish(r)
    /\ UNCHANGED <<app, rows, members, queued, paid, history>>

UpdateApp(r) ==
    /\ req[r].pc = "update"
    /\ app' = [app EXCEPT !.env = "production"]
    /\ req' = Finish(r)
    /\ UNCHANGED <<rows, members, queued, paid, history>>

\* Only the move to production is gated.
Demote ==
    /\ app.env = "production"
    /\ app' = [app EXCEPT !.env = "development"]
    /\ UNCHANGED <<rows, members, queued, paid, req, history>>

\* A failed read outside a sync, the deadline, a restart.
Abandon(r) ==
    /\ req[r].pc # "idle"
    /\ req' = Finish(r)
    /\ UNCHANGED <<app, rows, members, queued, paid, history>>

----------------------------------------------------------------------------

Run(r) ==
    \/ ReadActive(r) \/ ReadRemovals(r)
    \/ DeleteGroupNodes(r) \/ InsertGroupNodes(r) \/ Conflict(r) \/ SyncGroupState(r)
    \/ ReadNodeCount(r) \/ ReadEnvironment(r) \/ CheckOperators(r)
    \/ AttachGroup(r) \/ Reload(r)
    \/ ReadPlan(r) \/ ReadComposition(r) \/ UpdateApp(r)

Chain ==
    \E g \in Groups, n \in Nodes :
        Join(g, n) \/ QueueRemoval(g, n) \/ CancelRemoval(g, n) \/ ExecuteRemoval(g, n)

\* What the platform does of itself, and what can keep the mirror from settling.
Work ==
    \/ \E r \in Slots : StartSync(r) \/ Run(r)
    \/ \E r \in Requests : ArrivePromote(r)
    \/ Demote

Disturb ==
    \/ Chain
    \/ \E r \in Slots : FailSync(r) \/ Abandon(r)
    \/ \E r \in Requests, g \in Groups :
          ArriveAttach(r, g) \/ \E listed \in SUBSET Nodes : ArriveDeploy(r, g, listed)

Next == Work \/ ChangePlan \/ Disturb

Spec == Init /\ [][Next]_vars

----------------------------------------------------------------------------
(* Properties                                                              *)

\* A request that moves the app to production.
Promotes(r) ==
    /\ app.env = "development" /\ app'.env = "production"
    /\ req[r].pc = "update" /\ req'[r].pc = "idle"

\* An app moves to production only on operators that were really there: if the
\* cache still held what the promotion itself had read, its group had enough
\* operators while the request was being served; if another sync had written in
\* between, or its own had failed, then some group has had enough at some time; and
\* if the cache mixed what overlapping syncs had read, then at least each of the
\* operators counted has been in some group.
PromotedOnComposition ==
    [][(app.env = "development" /\ app'.env = "production")
         => \E r \in Requests :
               /\ Promotes(r)
               /\ req[r].fresh => req[r].wasMet
               /\ ~req[r].onMixed => met # {}
               /\ Enough(served)]_vars

\* nodes.go on the cached membership that a promotion is decided on: "callers that
\* gate on it (promoting an app to production) sync first, so the answer reflects the
\* group as it actually stands".  At the least, a group has had so many operators.
PromotedOnOneGroup ==
    [][(app.env = "development" /\ app'.env = "production") => met # {}]_vars

\* policy.go: "how many operators outside O'Leary Labs a group must have before
\* the platform will run production traffic on it".  A group that has never had
\* them is not behind an app in production.
ProductionWasQualified ==
    (app.env = "production" /\ app.group # NoGroup) => app.group \in met
=============================================================================
