------------------------- MODULE AppPromotionProofs -------------------------
(***************************************************************************)
(* Proofs about AppPromotion, for any groups, operators and requests, and  *)
(* any number of operators that production asks for.                       *)
(***************************************************************************)
EXTENDS AppPromotion, FiniteSetTheorems, TLAPS

Linking == {"count", "environment", "operators", "link", "reload"}
Promoting == {"plan", "composition", "update"}
HasRead == {"removals", "replace", "insert", "summary"}

ActiveRows == {n \in Nodes : rows[n] = "active"}

\* What a request knows.  A promotion's witness is up whenever its group has
\* enough operators now, had them in the snapshot it holds, or has them in the
\* cache it filled and nobody has written since.
Good(r, q) ==
    /\ q.pc \in Sync \cup Linking => q.group \in Groups
    /\ q.pc \in Promoting => q.kind = "promote"
    /\ q.pc = "reload" => q.kind = "deploy" /\ app.group # NoGroup
    /\ r = Timer => q.kind \in {"none", "sync"}
    /\ (q.kind = "promote" /\ q.group # NoGroup /\ Enough(members[q.group])) => q.wasMet
    /\ q.pc \in HasRead => q.active \subseteq served
    /\ (q.pc \in HasRead /\ Enough(q.active)) => met # {} /\ (q.kind = "promote" => q.wasMet)
    /\ (q.fresh /\ Enough(ActiveRows)) => q.wasMet
    /\ q.pc = "update" => /\ Enough(served) /\ (~q.onMixed => met # {})
                          /\ (q.fresh => q.wasMet)

Witnessed ==
    /\ \A g \in Groups : members[g] \subseteq served /\ (Enough(members[g]) => g \in met)
    /\ ActiveRows \subseteq served
    /\ (~mixed /\ Enough(ActiveRows)) => met # {}

USE DEF history

Inv == TypeOK /\ Witnessed /\ \A r \in Slots : Good(r, req[r])

----------------------------------------------------------------------------
(* Cardinality                                                             *)

LEMMA Counts ==
  /\ ~Enough({})
  /\ \A S \in SUBSET Nodes : Cardinality(S) \in 0..Cardinality(Nodes)
  /\ \A S, T \in SUBSET Nodes : S \subseteq T /\ Enough(S) => Enough(T)
<1>1. Cardinality({}) = 0
  BY FS_EmptySet
<1>2. ASSUME NEW S \in SUBSET Nodes, NEW T \in SUBSET S
      PROVE  Cardinality(S) \in Nat /\ Cardinality(T) \in Nat /\ Cardinality(T) <= Cardinality(S)
  <2>1. IsFiniteSet(S)
    BY FS_Subset, NodesAssumption
  <2>2. IsFiniteSet(T) /\ Cardinality(T) <= Cardinality(S)
    BY <2>1, FS_Subset
  <2> QED
    BY <2>1, <2>2, FS_CardinalityType
<1>3. \A S \in SUBSET Nodes : Cardinality(S) \in 0..Cardinality(Nodes)
  BY <1>2
<1>4. \A S, T \in SUBSET Nodes : S \subseteq T /\ Enough(S) => Enough(T)
  BY <1>2, NodesAssumption DEF Enough
<1> QED
  BY <1>1, <1>3, <1>4, NodesAssumption DEF Enough

LEMMA IdleGood == Idle \in Request /\ \A r : Good(r, Idle)
  BY DEF Idle, Request, Step, Sync, Good, Linking, Promoting, HasRead

LEMMA InitInv == Init => Inv
<1> SUFFICES ASSUME Init PROVE Inv
  OBVIOUS
<1>1. TypeOK
  <2>1. 0 \in 0..Cardinality(Nodes)
    BY Counts
  <2>2. app \in [env : Environment, group : Groups \cup {NoGroup}, count : 0..Cardinality(Nodes)]
    BY <2>1 DEF Init
  <2>3. \A g \in Groups : queued[g] = {}
    BY DEF Init
  <2>4. queued \in [Groups -> SUBSET Nodes]
    BY DEF Init
  <2>5. req \in [Slots -> Request]
    BY IdleGood DEF Init
  <2>6. served \subseteq Nodes /\ met \subseteq Groups /\ mixed \in BOOLEAN
    BY DEF Init
  <2> QED
    BY <2>2, <2>3, <2>4, <2>5, <2>6 DEF Init, TypeOK
<1>2. ActiveRows = {}
  BY DEF Init, ActiveRows
<1>3. Witnessed
  BY <1>2, Counts DEF Init, Witnessed
<1>4. \A r \in Slots : Good(r, req[r])
  BY IdleGood DEF Init
<1> QED
  BY <1>1, <1>3, <1>4 DEF Inv

----------------------------------------------------------------------------
(* Steps of one request that leave the chain and the cached rows alone     *)

LEMMA RequestStep ==
  ASSUME Inv, NEW r \in Slots, NEW q \in Request,
         UNCHANGED <<rows, members, queued, history>>, paid' \in BOOLEAN,
         app' \in [env : Environment, group : Groups \cup {NoGroup}, count : 0..Cardinality(Nodes)],
         app.group # NoGroup => app'.group # NoGroup,
         Good(r, q)', req' = [req EXCEPT ![r] = q]
  PROVE  Inv'
<1>1. TypeOK'
  BY DEF Inv, TypeOK
<1>2. Witnessed'
  BY DEF Inv, Witnessed, Enough, ActiveRows
<1>3. \A s \in Slots : req'[s] = IF s = r THEN q ELSE req[s]
  BY DEF Inv, TypeOK
<1>4. ASSUME NEW s \in Slots PROVE Good(s, req[s])'
  <2>1. CASE s = r
    BY <1>3, <2>1 DEF Good, Enough, ActiveRows
  <2>2. CASE s # r
    BY <1>3, <2>2 DEF Inv, Good, Enough, ActiveRows
  <2> QED
    BY <2>1, <2>2
<1> QED
  BY <1>1, <1>2, <1>4 DEF Inv

\* The same for a step of the request alone.
LEMMA LocalStep ==
  ASSUME Inv, NEW r \in Slots, NEW q \in Request, Good(r, q),
         UNCHANGED <<app, rows, members, queued, paid, history>>, req' = [req EXCEPT ![r] = q]
  PROVE  Inv'
<1>1. Good(r, q)'
  BY DEF Good, Enough, ActiveRows
<1> QED
  BY <1>1, RequestStep DEF Inv, TypeOK

LEMMA EndStep ==
  ASSUME Inv, NEW r \in Slots, req' = Finish(r),
         UNCHANGED <<app, rows, members, queued, paid, history>>
  PROVE  Inv'
  BY IdleGood, LocalStep DEF Finish

LEMMA BeginStep ==
  ASSUME Inv, NEW r \in Slots, NEW kind \in {"sync", "attach", "deploy", "promote"},
         NEW step \in {"active", "plan", "count", "link"},
         NEW g \in Groups \cup {NoGroup}, NEW ns \in SUBSET Nodes,
         step # "plan" => g \in Groups, step = "plan" => kind = "promote",
         r = Timer => kind = "sync", Begin(r, kind, step, g, ns)
  PROVE  Inv'
<1> DEFINE w == kind = "promote" /\ g # NoGroup /\ Enough(members[g])
           q == [Idle EXCEPT !.pc = step, !.kind = kind, !.group = g, !.active = ns, !.wasMet = w]
<1>1. /\ q.pc = step /\ q.kind = kind /\ q.group = g /\ q.active = ns /\ q.leaving = {}
      /\ q.fresh = FALSE /\ q.wasMet = w /\ w \in BOOLEAN
  BY DEF Idle
<1>2. q \in Request
  BY <1>1 DEF Idle, Request, Step, Sync
<1>3. Begin(r, kind, step, g, ns) => req' = [req EXCEPT ![r] = q]
  BY DEF Begin
<1> HIDE DEF q
<1>4. Good(r, q)
  BY <1>1 DEF Good, Linking, Promoting, HasRead, Sync
<1> QED
  BY <1>2, <1>3, <1>4, LocalStep DEF Begin

----------------------------------------------------------------------------
(* The chain                                                               *)

LEMMA ComposeStep ==
  ASSUME Inv, NEW g \in Groups, NEW ns \in SUBSET Nodes, Compose(g, ns),
         queued' \in [Groups -> SUBSET Nodes], queued'[g] \subseteq ns,
         \A h \in Groups \ {g} : queued'[h] = queued[h], UNCHANGED <<app, rows, paid>>
  PROVE  Inv'
<1>1. /\ members' \in [Groups -> SUBSET Nodes]
      /\ \A h \in Groups : members'[h] = IF h = g THEN ns ELSE members[h]
  BY DEF Compose, Inv, TypeOK
<1>2. /\ met' \subseteq Groups /\ met \subseteq met' /\ (Enough(ns) => g \in met')
      /\ served' \subseteq Nodes /\ served' = served \cup ns /\ UNCHANGED mixed
  BY DEF Compose, Inv, TypeOK
<1>3. ASSUME NEW s \in Slots
      PROVE  /\ req'[s] \in Request
             /\ req'[s] = [req[s] EXCEPT !.wasMet = req'[s].wasMet]
             /\ req[s].wasMet => req'[s].wasMet
             /\ req[s].kind = "promote" /\ req[s].group = g /\ Enough(ns) => req'[s].wasMet
  <2>1. req[s] \in Request
    BY DEF Inv, TypeOK
  <2>2. PICK v \in BOOLEAN : v <=> req[s].wasMet \/ Enough(ns)
    BY Zenon
  <2>3. CASE req[s].group = g /\ req[s].kind = "promote"
    <3>1. req'[s] = [req[s] EXCEPT !.wasMet = v]
      BY <2>1, <2>2, <2>3 DEF Compose, Request
    <3>2. req'[s] \in Request /\ req'[s].wasMet = v
      BY <2>1, <3>1 DEF Request
    <3> QED
      BY <2>2, <3>1, <3>2
  <2>4. CASE ~(req[s].group = g /\ req[s].kind = "promote")
    <3>1. req'[s] = req[s]
      BY <2>4 DEF Compose
    <3> QED
      BY <2>1, <2>4, <3>1 DEF Request
  <2> QED
    BY <2>3, <2>4
<1>4. req' \in [Slots -> Request]
  <2>1. req' = [s \in Slots |-> req'[s]]
    BY DEF Compose
  <2> QED
    BY <1>3, <2>1
<1>5. TypeOK'
  BY <1>1, <1>2, <1>4 DEF Inv, TypeOK
<1>6. Witnessed'
  BY <1>1, <1>2 DEF Inv, Witnessed, Enough, ActiveRows
<1>7. ASSUME NEW s \in Slots PROVE Good(s, req[s])'
  <2>1. /\ req'[s].pc = req[s].pc /\ req'[s].kind = req[s].kind /\ req'[s].group = req[s].group
        /\ req'[s].active = req[s].active /\ req'[s].fresh = req[s].fresh
        /\ req'[s].onMixed = req[s].onMixed /\ req[s] \in Request
    BY <1>3 DEF Inv, TypeOK, Request
  <2>2. (req'[s].kind = "promote" /\ req'[s].group # NoGroup /\ Enough(members'[req'[s].group]))
           => req'[s].wasMet
    <3>1. req[s].group \in Groups \cup {NoGroup} /\ Good(s, req[s])
      BY <2>1 DEF Inv, Request
    <3>2. CASE req[s].group = g
      BY <1>1, <1>3, <2>1, <3>2
    <3>3. CASE req[s].group \in Groups \ {g}
      BY <1>1, <1>3, <2>1, <3>1, <3>3 DEF Good
    <3> QED
      BY <2>1, <3>1, <3>2, <3>3
  <2>3. Good(s, req[s]) /\ UNCHANGED app /\ ActiveRows' = ActiveRows
    BY DEF Inv, ActiveRows
  <2>4. Enough(served) => Enough(served')
    BY <1>2, Counts DEF Inv, TypeOK
  <2>5. req'[s].pc = "update" => /\ Enough(served') /\ (~req'[s].onMixed => met' # {})
                                 /\ (req'[s].fresh => req'[s].wasMet)
    BY <1>2, <1>3, <2>1, <2>3, <2>4 DEF Good
  <2>6. Good(s, req[s])' <=>
          /\ req[s].pc \in Sync \cup Linking => req[s].group \in Groups
          /\ req[s].pc \in Promoting => req[s].kind = "promote"
          /\ req[s].pc = "reload" => req[s].kind = "deploy" /\ app.group # NoGroup
          /\ s = Timer => req[s].kind \in {"none", "sync"}
          /\ (req'[s].kind = "promote" /\ req'[s].group # NoGroup
                /\ Enough(members'[req'[s].group])) => req'[s].wasMet
          /\ req[s].pc \in HasRead => req[s].active \subseteq served'
          /\ (req[s].pc \in HasRead /\ Enough(req[s].active))
               => met' # {} /\ (req[s].kind = "promote" => req'[s].wasMet)
          /\ (req[s].fresh /\ Enough(ActiveRows)) => req'[s].wasMet
          /\ req'[s].pc = "update" => /\ Enough(served') /\ (~req'[s].onMixed => met' # {})
                                      /\ (req'[s].fresh => req'[s].wasMet)
    BY <2>1, <2>3 DEF Good, Enough
  <2> QED
    BY <1>2, <1>3, <2>1, <2>2, <2>3, <2>5, <2>6 DEF Good
<1> QED
  BY <1>5, <1>6, <1>7 DEF Inv

LEMMA QueueStep ==
  ASSUME Inv, NEW g \in Groups, NEW n \in Nodes, QueueRemoval(g, n) \/ CancelRemoval(g, n)
  PROVE  Inv'
<1>1. UNCHANGED <<app, rows, members, paid, req, history>>
  BY DEF QueueRemoval, CancelRemoval
<1>2. PICK S \in SUBSET members[g] : queued' = [queued EXCEPT ![g] = S]
  BY DEF QueueRemoval, CancelRemoval, Inv, TypeOK
<1>3. queued' \in [Groups -> SUBSET Nodes] /\ \A h \in Groups : queued'[h] \subseteq members[h]
  BY <1>2 DEF Inv, TypeOK
<1>4. TypeOK'
  BY <1>1, <1>3 DEF Inv, TypeOK
<1>5. Witnessed' /\ \A s \in Slots : Good(s, req[s])'
  BY <1>1 DEF Inv, Witnessed, Good, Enough, ActiveRows
<1> QED
  BY <1>4, <1>5 DEF Inv

LEMMA ChainStep == Inv /\ Chain => Inv'
<1> SUFFICES ASSUME Inv, NEW g \in Groups, NEW n \in Nodes,
                    Join(g, n) \/ QueueRemoval(g, n) \/ CancelRemoval(g, n) \/ ExecuteRemoval(g, n)
             PROVE  Inv'
  BY DEF Chain
<1>1. /\ members[g] \in SUBSET Nodes /\ queued \in [Groups -> SUBSET Nodes]
      /\ queued[g] \subseteq members[g]
  BY DEF Inv, TypeOK
<1>2. CASE Join(g, n)
  <2>1. PICK ns \in SUBSET Nodes : ns = members[g] \cup {n}
    BY <1>1
  <2> QED
    BY <1>1, <1>2, <2>1, ComposeStep DEF Join
<1>3. CASE ExecuteRemoval(g, n)
  <2>1. PICK ns \in SUBSET Nodes : ns = members[g] \ {n}
    BY <1>1
  <2>2. queued' = [queued EXCEPT ![g] = queued[g] \ {n}] /\ UNCHANGED <<app, rows, paid>>
    BY <1>3 DEF ExecuteRemoval
  <2>3. /\ queued' \in [Groups -> SUBSET Nodes] /\ queued'[g] \subseteq ns
        /\ \A h \in Groups \ {g} : queued'[h] = queued[h]
    BY <1>1, <2>1, <2>2
  <2> QED
    BY <1>3, <2>1, <2>2, <2>3, ComposeStep DEF ExecuteRemoval
<1>4. CASE QueueRemoval(g, n) \/ CancelRemoval(g, n)
  BY <1>4, QueueStep
<1> QED
  BY <1>2, <1>3, <1>4

----------------------------------------------------------------------------
(* syncGroup                                                               *)

LEMMA ReadStep ==
  ASSUME Inv, NEW r \in Slots, ReadActive(r) \/ ReadRemovals(r)
  PROVE  Inv'
<1>1. req[r] \in Request /\ Good(r, req[r]) /\ req[r].group \in Groups
  BY DEF Inv, TypeOK, ReadActive, ReadRemovals, Good, Sync
<1>2. members[req[r].group] \in SUBSET Nodes /\ queued[req[r].group] \in SUBSET Nodes
      /\ req[r].group # NoGroup
  BY <1>1, SlotAssumption DEF Inv, TypeOK
<1>3. UNCHANGED <<app, rows, members, queued, paid, history>>
  BY DEF ReadActive, ReadRemovals
<1>4. CASE ReadActive(r)
  <2> DEFINE q == [req[r] EXCEPT !.pc = "removals", !.active = members[req[r].group]]
  <2>1. q \in Request
    BY <1>1, <1>2 DEF Request, Step, Sync
  <2>2. /\ q.pc = "removals" /\ q.active = members[req[r].group] /\ q.kind = req[r].kind
        /\ q.group = req[r].group /\ q.fresh = req[r].fresh /\ q.wasMet = req[r].wasMet
    BY <1>1 DEF Request
  <2>3. req' = [req EXCEPT ![r] = q]
    BY <1>4 DEF ReadActive
  <2> HIDE DEF q
  <2>4. /\ q.active \subseteq served
        /\ Enough(q.active) => met # {} /\ (q.kind = "promote" => q.wasMet)
    BY <1>1, <1>2, <2>2 DEF Good, Inv, Witnessed
  <2>5. Good(r, q)
    BY <1>1, <1>2, <2>2, <2>4 DEF Good, Linking, Promoting
  <2> QED
    BY <1>3, <2>1, <2>3, <2>5, LocalStep
<1>5. CASE ReadRemovals(r)
  <2> DEFINE q == [req[r] EXCEPT !.pc = "replace", !.leaving = queued[req[r].group] \cap req[r].active]
  <2>1. q \in Request
    BY <1>1, <1>2 DEF Request, Step, Sync
  <2>2. /\ q.pc = "replace" /\ q.active = req[r].active /\ q.kind = req[r].kind
        /\ q.group = req[r].group /\ q.fresh = req[r].fresh /\ q.wasMet = req[r].wasMet
    BY <1>1 DEF Request
  <2>3. req' = [req EXCEPT ![r] = q] /\ req[r].pc = "removals"
    BY <1>5 DEF ReadRemovals
  <2> HIDE DEF q
  <2>4. Good(r, q)
    BY <1>1, <1>2, <2>2, <2>3 DEF Good, Linking, Promoting, HasRead
  <2> QED
    BY <1>3, <2>1, <2>3, <2>4, LocalStep
<1> QED
  BY <1>4, <1>5

LEMMA DeleteStep ==
  ASSUME Inv, NEW r \in Slots, DeleteGroupNodes(r)
  PROVE  Inv'
<1>1. req[r] \in Request /\ Good(r, req[r]) /\ req[r].pc = "replace"
  BY DEF Inv, TypeOK, DeleteGroupNodes
<1> DEFINE q == [req[r] EXCEPT !.pc = "insert"]
<1>2. /\ q \in Request
      /\ q.pc = "insert" /\ q.active = req[r].active /\ q.kind = req[r].kind
      /\ q.group = req[r].group /\ q.fresh = req[r].fresh /\ q.wasMet = req[r].wasMet
  BY <1>1 DEF Request, Step, Sync
<1>3. req' = [req EXCEPT ![r] = q]
  BY DEF DeleteGroupNodes
<1> HIDE DEF q
<1>4. Good(r, q)
  BY <1>1, <1>2 DEF Good, Sync, Linking, Promoting, HasRead
<1> QED
  BY <1>2, <1>3, <1>4, LocalStep DEF DeleteGroupNodes

\* The rows written are the snapshot's, and those of others beside it: if there
\* are none of others and enough of them, the snapshot was.
LEMMA InsertStep ==
  ASSUME Inv, NEW r \in Slots, InsertGroupNodes(r)
  PROVE  Inv'
<1>1. req[r] \in Request /\ Good(r, req[r]) /\ req[r].pc = "insert"
  BY DEF Inv, TypeOK, InsertGroupNodes, Commit
<1>2. /\ rows' \in [Nodes -> {"none", "active", "removing"}]
      /\ {n \in Nodes : rows'[n] = "active"}
            \subseteq req[r].active \cup {n \in req[r].newer : rows[n] = "active"}
  BY DEF InsertGroupNodes, Commit, Inv, TypeOK
<1>3. req[r].newer = {} => (Enough(ActiveRows)' => Enough(req[r].active))
  <2>1. req[r].active \in SUBSET Nodes
    BY <1>1 DEF Request
  <2>2. req[r].newer = {}
           => (Enough({n \in Nodes : rows'[n] = "active"}) => Enough(req[r].active))
    BY <1>2, <2>1, Counts
  <2> QED
    BY <2>2 DEF Enough, ActiveRows
<1>4. mixed' = (req[r].newer # {}) /\ UNCHANGED <<app, members, queued, paid, met, served>>
  BY DEF InsertGroupNodes, Commit
<1> DEFINE f == req[r].kind = "promote" /\ req[r].newer = {}
           q == [req[r] EXCEPT !.pc = "summary", !.leaving = {}, !.newer = {}, !.fresh = f]
           p(s) == IF req[s].pc = "insert"
                   THEN [req[s] EXCEPT !.newer = req[r].active \cup (@ \cap req[r].newer),
                                       !.fresh = FALSE]
                   ELSE [req[s] EXCEPT !.fresh = FALSE]
<1>5. /\ q \in Request
      /\ q.pc = "summary" /\ q.active = req[r].active /\ q.kind = req[r].kind
      /\ q.group = req[r].group /\ q.wasMet = req[r].wasMet /\ q.fresh = f
  BY <1>1 DEF Request, Step, Sync
<1>6. ASSUME NEW s \in Slots
      PROVE  /\ p(s) \in Request
             /\ p(s).pc = req[s].pc /\ p(s).kind = req[s].kind /\ p(s).group = req[s].group
             /\ p(s).active = req[s].active /\ p(s).wasMet = req[s].wasMet
             /\ p(s).onMixed = req[s].onMixed /\ p(s).fresh = FALSE
  <2>1. req[s] \in Request /\ req[r].active \in SUBSET Nodes
    BY <1>1 DEF Inv, TypeOK, Request
  <2> QED
    BY <2>1 DEF Request
<1>7. req' = [s \in Slots |-> IF s = r THEN q ELSE p(s)]
  BY DEF InsertGroupNodes, Commit
<1> HIDE DEF q, p
<1>8. TypeOK'
  <2>1. req' \in [Slots -> Request]
    BY <1>5, <1>6, <1>7
  <2> QED
    BY <1>2, <1>4, <2>1 DEF Inv, TypeOK
<1>9. Witnessed'
  BY <1>1, <1>2, <1>3, <1>4 DEF Inv, Witnessed, Good, HasRead, Enough, ActiveRows
<1>10. ASSUME NEW s \in Slots PROVE Good(s, req[s])'
  <2>1. CASE s = r
    <3>1. req'[s] = q
      BY <1>7, <2>1
    <3>2. req[r].group \in Groups /\ req[r].pc \in HasRead
      BY <1>1 DEF Good, Sync, HasRead
    <3>3. (q.fresh /\ Enough(ActiveRows)') => q.wasMet
      BY <1>1, <1>3, <1>5, <3>2 DEF Good
    <3> QED
      BY <1>1, <1>4, <1>5, <2>1, <3>1, <3>2, <3>3
         DEF Good, Linking, Promoting, HasRead, Enough
  <2>2. CASE s # r
    <3>1. Good(s, req[s]) /\ req'[s] = p(s)
      BY <1>7, <2>2 DEF Inv
    <3>2. Good(s, req'[s])
      <4>1. PICK q2 \in Request, q1 \in Request :
               /\ q2 = p(s) /\ q1 = req[s]
        BY <1>6 DEF Inv, TypeOK
      <4>2. Good(s, q1)
        BY <3>1, <4>1
      <4>3. /\ q2.pc = q1.pc /\ q2.kind = q1.kind /\ q2.group = q1.group
            /\ q2.active = q1.active /\ q2.wasMet = q1.wasMet
            /\ q2.onMixed = q1.onMixed /\ q2.fresh = FALSE
        BY <1>6, <4>1
      <4>4. Good(s, q2)
        BY <4>2, <4>3 DEF Good
      <4> QED
        BY <3>1, <4>1, <4>4
    <3> QED
      BY <1>4, <1>6, <3>1, <3>2 DEF Good, Enough
  <2> QED
    BY <2>1, <2>2
<1> QED
  BY <1>8, <1>9, <1>10 DEF Inv

LEMMA AfterSyncStep ==
  ASSUME Inv, NEW r \in Slots, req[r].pc \in Sync,
         UNCHANGED <<rows, members, queued, paid, history>>,
         app' \in [env : Environment, group : Groups \cup {NoGroup}, count : 0..Cardinality(Nodes)],
         app'.group = app.group,
         req' = AfterSync(r)
  PROVE  Inv'
<1>1. req[r] \in Request /\ Good(r, req[r]) /\ req \in [Slots -> Request] /\ paid \in BOOLEAN
  BY DEF Inv, TypeOK
<1>2. CASE req[r].kind = "promote"
  <2>1. PICK q \in Request :
           /\ req' = [req EXCEPT ![r] = q]
           /\ q.pc = "plan" /\ q.active = {} /\ q.kind = req[r].kind /\ q.group = req[r].group
           /\ q.fresh = req[r].fresh /\ q.wasMet = req[r].wasMet
    <3> DEFINE q == [req[r] EXCEPT !.pc = "plan", !.active = {}, !.leaving = {}, !.newer = {}]
    <3>1. /\ q \in Request
          /\ q.pc = "plan" /\ q.active = {} /\ q.kind = req[r].kind /\ q.group = req[r].group
          /\ q.fresh = req[r].fresh /\ q.wasMet = req[r].wasMet
      BY <1>1 DEF Request, Step
    <3>2. AfterSync(r) = [req EXCEPT ![r] = q]
      BY <1>1, <1>2 DEF AfterSync
    <3> HIDE DEF q
    <3> QED
      BY <3>1, <3>2
  <2>3. Good(r, q)'
    BY <1>1, <1>2, <2>1 DEF Good, Sync, Linking, Promoting, HasRead, Enough, ActiveRows
  <2> QED
    BY <1>1, <2>1, <2>3, RequestStep
<1>3. CASE req[r].kind # "promote"
  <2>1. AfterSync(r) = [req EXCEPT ![r] = Idle]
    BY <1>3 DEF AfterSync, Finish
  <2>2. Good(r, Idle)'
    BY DEF Idle, Good, Sync, Linking, Promoting, HasRead
  <2> QED
    BY <1>1, <2>1, <2>2, IdleGood, RequestStep
<1> QED
  BY <1>2, <1>3

LEMMA SummaryStep ==
  ASSUME Inv, NEW r \in Slots, SyncGroupState(r) \/ Conflict(r) \/ FailSync(r)
  PROVE  Inv'
<1>1. req[r] \in Request /\ req[r].pc \in Sync /\ UNCHANGED <<rows, members, queued, paid, history>>
  BY DEF Inv, TypeOK, SyncGroupState, Conflict, FailSync, EndSync, Sync
<1>2. Cardinality(req[r].active) \in 0..Cardinality(Nodes)
  BY <1>1, Counts DEF Request
<1>3. /\ app' \in [env : Environment, group : Groups \cup {NoGroup}, count : 0..Cardinality(Nodes)]
      /\ app'.group = app.group
  BY <1>2 DEF SyncGroupState, Conflict, FailSync, EndSync, Inv, TypeOK
<1> QED
  BY <1>1, <1>3, AfterSyncStep DEF SyncGroupState, Conflict, FailSync, EndSync

----------------------------------------------------------------------------
(* Linking a group                                                         *)

\* A request that goes on to another step, knowing what it knew.
LEMMA GotoStep ==
  ASSUME Inv, NEW r \in Slots, NEW step \in {"environment", "operators", "link", "composition"},
         req[r].pc \in Linking \cup Promoting, step # "composition" => req[r].pc \in Linking,
         step = "composition" => req[r].pc \in Promoting,
         NEW ns \in SUBSET Nodes, req' = [req EXCEPT ![r].pc = step, ![r].active = ns],
         UNCHANGED <<app, rows, members, queued, paid, history>>
  PROVE  Inv'
<1>1. req[r] \in Request /\ Good(r, req[r]) /\ req \in [Slots -> Request]
  BY DEF Inv, TypeOK
<1> DEFINE q == [req[r] EXCEPT !.pc = step, !.active = ns]
<1>2. q \in Request
  BY <1>1 DEF Request, Step
<1>3. /\ q.pc = step /\ q.kind = req[r].kind /\ q.group = req[r].group
      /\ q.fresh = req[r].fresh /\ q.wasMet = req[r].wasMet
  BY <1>1 DEF Request
<1>4. req' = [req EXCEPT ![r] = q]
  BY <1>1
<1> HIDE DEF q
<1>5. Good(r, q)
  BY <1>1, <1>3 DEF Good, Sync, Linking, Promoting, HasRead
<1> QED
  BY <1>2, <1>4, <1>5, LocalStep

LEMMA GotoSame ==
  ASSUME Inv, NEW r \in Slots, NEW step, req' = Goto(r, step)
  PROVE  req[r].active \in SUBSET Nodes
         /\ req' = [req EXCEPT ![r].pc = step, ![r].active = req[r].active]
<1>1. req[r] \in Request /\ req \in [Slots -> Request]
  BY DEF Inv, TypeOK
<1>2. [req[r] EXCEPT !.pc = step] = [req[r] EXCEPT !.pc = step, !.active = req[r].active]
  BY <1>1 DEF Request
<1> QED
  BY <1>1, <1>2 DEF Goto, Request

LEMMA CheckStep ==
  ASSUME Inv, NEW r \in Slots, ReadNodeCount(r) \/ ReadEnvironment(r) \/ CheckOperators(r)
  PROVE  Inv'
<1>1. UNCHANGED <<app, rows, members, queued, paid, history>> /\ req[r].pc \in Linking
  BY DEF ReadNodeCount, ReadEnvironment, CheckOperators, Linking
<1>2. CASE ReadNodeCount(r)
  <2>1. PICK ns \in SUBSET Nodes : ns = members[req[r].group]
    BY <1>1 DEF Inv, TypeOK, Good
  <2> QED
    BY <1>1, <1>2, <2>1, GotoStep DEF ReadNodeCount
<1>3. CASE ReadEnvironment(r) \/ CheckOperators(r)
  <2>1. CASE req' = Finish(r)
    BY <1>1, <2>1, EndStep
  <2>2. ASSUME NEW step \in {"operators", "link"}, req' = Goto(r, step) PROVE Inv'
    <3>1. PICK ns \in SUBSET Nodes : ns = req[r].active
      BY <2>2, GotoSame
    <3> QED
      BY <1>1, <2>2, <3>1, GotoSame, GotoStep
  <2> QED
    BY <1>3, <2>1, <2>2 DEF ReadEnvironment, CheckOperators
<1> QED
  BY <1>2, <1>3

LEMMA LinkStep ==
  ASSUME Inv, NEW r \in Slots, AttachGroup(r) \/ Reload(r)
  PROVE  Inv'
<1>1. /\ req[r] \in Request /\ Good(r, req[r]) /\ req \in [Slots -> Request]
      /\ app \in [env : Environment, group : Groups \cup {NoGroup}, count : 0..Cardinality(Nodes)]
  BY DEF Inv, TypeOK
<1>2. UNCHANGED <<rows, members, queued, paid, history>> /\ paid \in BOOLEAN
  BY DEF AttachGroup, Reload, Inv, TypeOK
<1>3. CASE AttachGroup(r)
  <2>1. req[r].group \in Groups
    BY <1>1, <1>3 DEF AttachGroup, Good, Linking
  <2>2. PICK q \in Request :
           /\ req' = [req EXCEPT ![r] = q]
           /\ \/ /\ q.pc = "reload" /\ q.kind = "deploy" /\ req[r].kind = "deploy"
                 /\ q.fresh = req[r].fresh /\ q.wasMet = req[r].wasMet
              \/ q.pc = "active" /\ q.kind = "sync" /\ ~q.fresh
           /\ q.group = req[r].group
    <3>1. CASE req[r].kind = "deploy"
      <4> DEFINE q == [req[r] EXCEPT !.pc = "reload", !.active = {}]
      <4>1. /\ q \in Request /\ q.pc = "reload" /\ q.kind = "deploy" /\ q.group = req[r].group
            /\ q.fresh = req[r].fresh /\ q.wasMet = req[r].wasMet
        BY <1>1, <3>1 DEF Request, Step, Sync
      <4>2. req' = [req EXCEPT ![r] = q]
        BY <1>1, <1>3, <3>1 DEF AttachGroup
      <4> HIDE DEF q
      <4> QED
        BY <3>1, <4>1, <4>2
    <3>2. CASE req[r].kind # "deploy"
      <4> DEFINE q == [Idle EXCEPT !.pc = "active", !.kind = "sync", !.group = req[r].group]
      <4>1. /\ q \in Request /\ q.pc = "active" /\ q.kind = "sync" /\ q.group = req[r].group
            /\ q.fresh = FALSE
        BY <2>1 DEF Idle, Request, Step, Sync
      <4>2. req' = [req EXCEPT ![r] = q]
        BY <1>1, <1>3, <3>2 DEF AttachGroup
      <4> HIDE DEF q
      <4> QED
        BY <4>1, <4>2
    <3> QED
      BY <3>1, <3>2
  <2>4. Cardinality(req[r].active) \in 0..Cardinality(Nodes)
    BY <1>1, Counts DEF Request
  <2>5. /\ app' \in [env : Environment, group : Groups \cup {NoGroup}, count : 0..Cardinality(Nodes)]
        /\ app'.group # NoGroup
    BY <1>1, <1>3, <2>1, <2>4, SlotAssumption DEF AttachGroup
  <2>6. Good(r, q)'
    BY <1>1, <1>2, <2>1, <2>2, <2>5
       DEF Good, Sync, Linking, Promoting, HasRead, Enough, ActiveRows
  <2> QED
    BY <1>2, <2>2, <2>5, <2>6, RequestStep
<1>4. CASE Reload(r)
  <2> DEFINE q == [Idle EXCEPT !.pc = "active", !.kind = "sync", !.group = app.group]
  <2>1. req[r].kind = "deploy" /\ app.group \in Groups
    BY <1>1, <1>4 DEF Reload, Good
  <2>2. q \in Request
    BY <1>1, <2>1 DEF Idle, Request, Step, Sync
  <2>3. q.pc = "active" /\ q.kind = "sync" /\ q.group = app.group /\ q.fresh = FALSE
    BY <1>1, <2>1 DEF Idle, Request
  <2>4. req' = [req EXCEPT ![r] = q]
    BY <1>1, <1>4 DEF Reload
  <2> HIDE DEF q
  <2>5. Good(r, q)
    BY <1>1, <2>1, <2>3 DEF Good, Linking, Promoting, HasRead
  <2> QED
    BY <1>4, <2>2, <2>4, <2>5, LocalStep DEF Reload
<1> QED
  BY <1>3, <1>4

----------------------------------------------------------------------------
(* Arrivals                                                                *)

LEMMA SyncArrives ==
  ASSUME Inv, NEW r \in Slots, StartSync(r)
  PROVE  Inv'
<1>1. PICK g \in Groups : g = app.group
  BY DEF StartSync, Inv, TypeOK
<1> QED
  BY <1>1, BeginStep DEF StartSync

LEMMA RequestArrives ==
  ASSUME Inv, NEW r \in Requests,
         \/ ArrivePromote(r)
         \/ \E g \in Groups : ArriveAttach(r, g) \/ \E listed \in SUBSET Nodes : ArriveDeploy(r, g, listed)
  PROVE  Inv'
<1>1. r \in Slots /\ r # Timer
  BY SlotAssumption DEF Slots
<1>2. CASE ArrivePromote(r)
  <2>1. PICK g \in Groups \cup {NoGroup} : g = app.group
    BY DEF Inv, TypeOK
  <2>2. CASE g = NoGroup
    <3>1. Begin(r, "promote", "plan", g, {})
      BY <1>2, <2>1, <2>2 DEF ArrivePromote
    <3> QED
      BY <1>1, <3>1, BeginStep
  <2>3. CASE g \in Groups
    <3>1. Begin(r, "promote", "active", g, {})
      BY <1>2, <2>1, <2>3, SlotAssumption DEF ArrivePromote
    <3> QED
      BY <1>1, <2>3, <3>1, BeginStep
  <2> QED
    BY <2>2, <2>3
<1>3. ASSUME NEW g \in Groups, ArriveAttach(r, g) PROVE Inv'
  BY <1>1, <1>3, BeginStep DEF ArriveAttach
<1>4. ASSUME NEW g \in Groups, NEW listed \in SUBSET Nodes, ArriveDeploy(r, g, listed) PROVE Inv'
  BY <1>1, <1>4, BeginStep DEF ArriveDeploy
<1> QED
  BY <1>2, <1>3, <1>4

----------------------------------------------------------------------------
(* The promotion                                                           *)

LEMMA PlanStep ==
  ASSUME Inv, NEW r \in Slots, ReadPlan(r)
  PROVE  Inv'
<1>1. CASE req' = Finish(r)
  BY <1>1, EndStep DEF ReadPlan
<1>2. CASE req' = Goto(r, "composition")
  <2>1. PICK ns \in SUBSET Nodes : ns = req[r].active
    BY <1>2, GotoSame
  <2> QED
    BY <1>2, <2>1, GotoSame, GotoStep DEF ReadPlan, Promoting
<1> QED
  BY <1>1, <1>2 DEF ReadPlan

\* The decision: the cache has enough operators, who have all been in some group;
\* unless the rows are of several syncs, some group has had them all, and if the
\* cache is still the request's own, the request's group has.
LEMMA CompositionStep ==
  ASSUME Inv, NEW r \in Slots, ReadComposition(r)
  PROVE  Inv'
<1>1. CASE req' = Finish(r)
  BY <1>1, EndStep DEF ReadComposition
<1>2. CASE Enough(ActiveRows) /\ req' = [req EXCEPT ![r].pc = "update", ![r].onMixed = mixed]
  <2>1. /\ req[r] \in Request /\ Good(r, req[r]) /\ req \in [Slots -> Request]
        /\ req[r].pc = "composition" /\ UNCHANGED <<app, rows, members, queued, paid, history>>
    BY DEF Inv, TypeOK, ReadComposition
  <2> DEFINE q == [req[r] EXCEPT !.pc = "update", !.onMixed = mixed]
  <2>2. q \in Request
    BY <2>1 DEF Request, Step, Inv, TypeOK
  <2>3. /\ q.pc = "update" /\ q.kind = req[r].kind /\ q.group = req[r].group
        /\ q.onMixed = mixed
        /\ q.fresh = req[r].fresh /\ q.wasMet = req[r].wasMet
    BY <2>1 DEF Request
  <2>4. req' = [req EXCEPT ![r] = q]
    BY <1>2, <2>1 DEF Goto
  <2> HIDE DEF q
  <2>5. Enough(served) /\ (~mixed => met # {}) /\ (req[r].fresh => req[r].wasMet)
    BY <1>2, <2>1, Counts DEF Inv, TypeOK, Witnessed, Good
  <2>6. Good(r, q)
    BY <2>1, <2>3, <2>5 DEF Good, Sync, Linking, Promoting, HasRead
  <2> QED
    BY <2>1, <2>2, <2>4, <2>6, LocalStep
<1> QED
  BY <1>1, <1>2 DEF ReadComposition, ActiveRows

LEMMA UpdateStep ==
  ASSUME Inv, NEW r \in Slots, UpdateApp(r)
  PROVE  Inv'
<1>1. /\ app' \in [env : Environment, group : Groups \cup {NoGroup}, count : 0..Cardinality(Nodes)]
      /\ app'.group = app.group /\ paid' \in BOOLEAN
  BY DEF UpdateApp, Inv, TypeOK, Environment
<1>2. Good(r, Idle)'
  BY DEF Idle, Good, Sync, Linking, Promoting, HasRead
<1> QED
  BY <1>1, <1>2, IdleGood, RequestStep DEF UpdateApp, Finish

LEMMA AbandonStep ==
  ASSUME Inv, NEW r \in Slots, Abandon(r)
  PROVE  Inv'
  BY EndStep DEF Abandon

LEMMA OutsideStep ==
  ASSUME Inv, Demote \/ ChangePlan \/ UNCHANGED vars
  PROVE  Inv'
<1>1. /\ app' \in [env : Environment, group : Groups \cup {NoGroup}, count : 0..Cardinality(Nodes)]
      /\ app'.group = app.group /\ paid' \in BOOLEAN
      /\ UNCHANGED <<rows, members, queued, req, history>>
  BY DEF Demote, ChangePlan, vars, Inv, TypeOK, Environment
<1>2. TypeOK'
  BY <1>1 DEF Inv, TypeOK
<1>3. Witnessed' /\ \A s \in Slots : Good(s, req[s])'
  BY <1>1 DEF Inv, Witnessed, Good, Enough, ActiveRows
<1> QED
  BY <1>2, <1>3 DEF Inv

----------------------------------------------------------------------------

LEMMA RunStep ==
  ASSUME Inv, NEW r \in Slots, Run(r)
  PROVE  Inv'
<1>1. CASE ReadActive(r) \/ ReadRemovals(r)
  BY <1>1, ReadStep
<1>2. CASE DeleteGroupNodes(r) \/ InsertGroupNodes(r)
  BY <1>2, DeleteStep, InsertStep
<1>3. CASE SyncGroupState(r) \/ Conflict(r)
  BY <1>3, SummaryStep
<1>4. CASE ReadNodeCount(r) \/ ReadEnvironment(r) \/ CheckOperators(r)
  BY <1>4, CheckStep
<1>5. CASE AttachGroup(r) \/ Reload(r)
  BY <1>5, LinkStep
<1>6. CASE ReadPlan(r)
  BY <1>6, PlanStep
<1>7. CASE ReadComposition(r)
  BY <1>7, CompositionStep
<1>8. CASE UpdateApp(r)
  BY <1>8, UpdateStep
<1> QED
  BY <1>1, <1>2, <1>3, <1>4, <1>5, <1>6, <1>7, <1>8 DEF Run

LEMMA InvStep == Inv /\ [Next]_vars => Inv'
<1> SUFFICES ASSUME Inv, [Next]_vars PROVE Inv'
  OBVIOUS
<1>1. ASSUME NEW r \in Slots, StartSync(r) \/ Run(r) PROVE Inv'
  BY <1>1, SyncArrives, RunStep
<1>2. ASSUME NEW r \in Requests, ArrivePromote(r) PROVE Inv'
  BY <1>2, RequestArrives
<1>3. CASE Demote \/ ChangePlan \/ UNCHANGED vars
  BY <1>3, OutsideStep
<1>4. CASE Chain
  BY <1>4, ChainStep
<1>5. ASSUME NEW r \in Slots, FailSync(r) \/ Abandon(r) PROVE Inv'
  BY <1>5, SummaryStep, AbandonStep
<1>6. ASSUME NEW r \in Requests, NEW g \in Groups,
             ArriveAttach(r, g) \/ \E listed \in SUBSET Nodes : ArriveDeploy(r, g, listed)
      PROVE  Inv'
  BY <1>6, RequestArrives
<1> QED
  BY <1>1, <1>2, <1>3, <1>4, <1>5, <1>6 DEF Next, Work, Disturb

LEMMA Invariance == Spec => []Inv
<1> QED
  BY InitInv, InvStep, PTL DEF Spec

\* The app's row, the cached membership and every request in flight have their
\* types; in particular the node count never exceeds the operators there are.
THEOREM TypeCorrect == Spec => []TypeOK
<1>1. Inv => TypeOK
  BY DEF Inv
<1> QED
  BY <1>1, Invariance, PTL

\* Only a promotion request moves an app to production, and only on operators that
\* were there: together in its own group if the cache is still the one it filled,
\* together in some group unless the cache mixes what several syncs have read
\* (ReplaceGroupNodes), and each in some group even then.
THEOREM Promotion == Spec => PromotedOnComposition
<1> DEFINE Allowed == (app.env = "development" /\ app'.env = "production")
                        => \E r \in Requests : /\ Promotes(r)
                                               /\ req[r].fresh => req[r].wasMet
                                               /\ ~req[r].onMixed => met # {}
                                               /\ Enough(served)
<1>1. Inv /\ [Next]_vars => [Allowed]_vars
  <2> SUFFICES ASSUME Inv, Next, app.env = "development", app'.env = "production"
               PROVE  \E r \in Requests : /\ Promotes(r)
                                          /\ req[r].fresh => req[r].wasMet
                                          /\ ~req[r].onMixed => met # {}
                                          /\ Enough(served)
    OBVIOUS
  <2>1. PICK r \in Slots : UpdateApp(r)
    <3>1. app'.env # app.env
      OBVIOUS
    <3>2. app' # app
      BY <3>1
    <3>3. \A r \in Slots : ~(AttachGroup(r) \/ SyncGroupState(r))
      BY <3>1 DEF AttachGroup, SyncGroupState, Inv, TypeOK
    <3>4. ~Demote
      BY DEF Demote
    <3>5. \A g \in Groups, n \in Nodes :
             ~(Join(g, n) \/ QueueRemoval(g, n) \/ CancelRemoval(g, n) \/ ExecuteRemoval(g, n))
      BY <3>2 DEF Join, QueueRemoval, CancelRemoval, ExecuteRemoval
    <3>6. \A r \in Slots : ~(StartSync(r) \/ FailSync(r) \/ Abandon(r))
      BY <3>2 DEF StartSync, Begin, FailSync, EndSync, Abandon
    <3>7. \A r \in Requests : ~ArrivePromote(r)
      BY <3>2 DEF ArrivePromote, Begin
    <3>8. ~ChangePlan
      BY <3>2 DEF ChangePlan
    <3>9. \A r \in Requests, g \in Groups : ~ArriveAttach(r, g)
             /\ \A listed \in SUBSET Nodes : ~ArriveDeploy(r, g, listed)
      BY <3>2 DEF ArriveAttach, ArriveDeploy, Begin
    <3>10. PICK r \in Slots : Run(r)
      BY <3>4, <3>5, <3>6, <3>7, <3>8, <3>9 DEF Next, Work, Disturb, Chain
    <3>11. UpdateApp(r)
      BY <3>2, <3>3, <3>10
         DEF Run, ReadActive, ReadRemovals, DeleteGroupNodes, InsertGroupNodes,
             Commit, Conflict, EndSync, ReadNodeCount, ReadEnvironment,
             CheckOperators, Reload, ReadPlan, ReadComposition
    <3> QED
      BY <3>11
  <2>2. req[r].pc = "update" /\ Good(r, req[r]) /\ req \in [Slots -> Request]
    BY <2>1 DEF UpdateApp, Inv, TypeOK
  <2>3. r \in Requests
    BY <2>2 DEF Good, Promoting, Slots
  <2>4. req'[r].pc = "idle"
    BY <2>1, <2>2 DEF UpdateApp, Finish, Idle
  <2> QED
    BY <2>2, <2>3, <2>4 DEF Good, Promotes
<1> QED
  BY <1>1, Invariance, PTL DEF Spec, PromotedOnComposition
=============================================================================
