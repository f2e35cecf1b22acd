---------------------------- MODULE MCStatements ----------------------------
(* The requests whose statements interleave in the database, for TLC, one set of     *)
(* tables in each behaviour: an organization's roster, the cached membership that an *)
(* app is promoted on, or the usage recorded for all apps.                           *)
EXTENDS MCOrgMembership, UsageRollup, FiniteSets

CONSTANTS q1, Groups, Nodes, Timer, NoGroup, MinExternal

\* AppPromotion's, of the one request.
ASSUME PromotionAssumption ==
    /\ NoGroup \notin Groups /\ Timer \notin {q1}
    /\ IsFiniteSet(Nodes) /\ MinExternal \in Nat \ {0}

VARIABLES
    tables,
    app, rows, members, queued, paid, promotionReq, met, served, mixed

Promotion == INSTANCE AppPromotion WITH Requests <- {q1}, req <- promotionReq

promotion == <<app, rows, members, queued, paid, promotionReq, met, served, mixed>>

\* Tables that are not followed rest in one state.
RosterShut == Init /\ \A u \in Users \ {Founder} : roles[u] = "none"
PromotionShut ==
    /\ Promotion!Init
    /\ app.env = "development" /\ ~paid /\ members = [g \in Groups |-> {}]

StatementsInit ==
    /\ UsageInit
    /\ \/ tables = "roster" /\ Init /\ PromotionShut
       \/ tables = "promotion" /\ RosterShut /\ Promotion!Init
       \/ tables = "usage" /\ RosterShut /\ PromotionShut

StatementsNext ==
    /\ UNCHANGED tables
    /\ \/ tables = "roster" /\ Next /\ UNCHANGED <<promotion, usage>>
       \/ tables = "promotion" /\ app.env = "development" /\ Promotion!Next /\ UNCHANGED <<vars, usage>>
       \/ tables = "usage" /\ UsageNext /\ UNCHANGED <<vars, promotion>>

StatementsSpec ==
    StatementsInit /\ [][StatementsNext]_<<tables, vars, promotion, usage>>

Alike == Permutations(Requests) \cup Permutations(Nodes)

----------------------------------------------------------------------------
(* Properties of several modules, by the names the configurations use.       *)

StatementsTypeOK == TypeOK /\ Promotion!TypeOK /\ UsageTypeOK
PromotedOnComposition == Promotion!PromotedOnComposition
=============================================================================
