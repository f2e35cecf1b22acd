-------------------------- MODULE StatementsProofs --------------------------
(***************************************************************************)
(* What the requests whose statements interleave promise, for any users,   *)
(* operators, days and number of requests: the usage of UsageRollup, and   *)
(* the three sets of tables together, as MCStatements composes them        *)
(* (OrgMembershipProofs has the roster, AppPromotionProofs the cached      *)
(* membership).                                                            *)
(***************************************************************************)
EXTENDS MCStatements, OrgMembershipProofs, FiniteSets

----------------------------------------------------------------------------
(* Usage.  The invariant says what a transaction knows: every rollup it    *)
(* has computed is of events that are committed or its own, and is of all  *)
(* of them unless it has been overtaken; and every day it touches has been *)
(* computed, or is still to be.                                            *)

\* A rollup of day d that transaction q holds, when S is committed.
Sound(S, q, d, rollup) ==
    /\ rollup \subseteq On(S \cup q.rows, d)
    /\ d \notin q.overtaken => rollup = On(S \cup q.rows, d)

BatchOK(S, q) ==
    /\ q.pc = "idle" => q = NoBatch
    /\ q.pc = "upsert" => q.day \in Days \ q.affected /\ Sound(S, q, q.day, q.excluded)
    /\ \A d \in q.held : d \notin q.affected /\ Sound(S, q, d, q.written[d])
    /\ \A d \in DaysOf(q.rows) : d \in q.affected \cup q.held \/ (q.pc = "upsert" /\ d = q.day)

BatchesOK == \A b \in Batches : BatchOK(events, batch[b])

RollupInv == UsageTypeOK /\ NeverOvercounts /\ BatchesOK

----------------------------------------------------------------------------

LEMMA NoBatchTyped == NoBatch \in Batch
  BY DEF NoBatch, Batch, NoRollups

LEMMA NoBatchOK == ASSUME NEW S PROVE BatchOK(S, NoBatch)
  BY DEF BatchOK, NoBatch, DaysOf

LEMMA DaysTyped == ASSUME NEW S \in SUBSET Events PROVE DaysOf(S) \in SUBSET Days
  BY DEF DaysOf, Events

LEMMA OnTyped == ASSUME NEW S \in SUBSET Events, NEW d PROVE On(S, d) \in SUBSET Events
  BY DEF On

LEMMA RollupInit == UsageInit => RollupInv
  BY NoBatchTyped, NoBatchOK DEF UsageInit, RollupInv, UsageTypeOK, NeverOvercounts, BatchesOK, NoRollups, On

\* A step of one transaction that commits nothing.
LEMMA OneBatch ==
  ASSUME RollupInv, NEW b \in Batches, NEW q \in Batch, BatchOK(events, q),
         batch' = [batch EXCEPT ![b] = q], UNCHANGED <<events, daily>>
  PROVE  RollupInv'
  BY DEF RollupInv, UsageTypeOK, NeverOvercounts, BatchesOK

LEMMA RecordInv ==
  ASSUME RollupInv, NEW b \in Batches, NEW evs \in SUBSET Events, RecordUsage(b, evs)
  PROVE  RollupInv'
<1> DEFINE q == [NoBatch EXCEPT !.pc = "rollup", !.rows = evs, !.affected = DaysOf(evs)]
<1>1. q \in Batch
  BY DaysTyped DEF NoBatch, Batch, NoRollups
<1>2. /\ q.pc = "rollup" /\ q.rows = evs /\ q.affected = DaysOf(evs) /\ q.held = {}
  BY DEF NoBatch
<1>3. batch' = [batch EXCEPT ![b] = q] /\ UNCHANGED <<events, daily>>
  BY DEF RecordUsage
<1> HIDE DEF q
<1>4. BatchOK(events, q)
  BY <1>2 DEF BatchOK
<1> QED
  BY <1>1, <1>3, <1>4, OneBatch

LEMMA ComputeInv ==
  ASSUME RollupInv, NEW b \in Batches, NEW d \in Days, rollupDay(b, d)
  PROVE  RollupInv'
<1> DEFINE p == batch[b]
           q == [p EXCEPT !.pc = "upsert", !.affected = @ \ {d}, !.day = d,
                          !.excluded = On(events \cup p.rows, d)]
<1>1. p \in Batch /\ BatchOK(events, p) /\ p.pc = "rollup" /\ events \in SUBSET Events
  BY DEF RollupInv, UsageTypeOK, BatchesOK, rollupDay
<1>2. batch' = [batch EXCEPT ![b] = q] /\ UNCHANGED <<events, daily>>
  BY DEF rollupDay
<1> HIDE DEF p
<1>3. On(events \cup p.rows, d) \in SUBSET Events
  BY <1>1, OnTyped DEF Batch
<1>4. q \in Batch
  BY <1>1, <1>3 DEF Batch
<1>5. /\ q.pc = "upsert" /\ q.day = d /\ q.affected = p.affected \ {d}
      /\ q.excluded = On(events \cup p.rows, d)
      /\ q.rows = p.rows /\ q.held = p.held /\ q.written = p.written
      /\ q.overtaken = p.overtaken
  BY <1>1 DEF Batch
<1> HIDE DEF q
<1>6. BatchOK(events, q)
  BY <1>1, <1>5 DEF BatchOK, Sound
<1> QED
  BY <1>2, <1>4, <1>6, OneBatch

LEMMA UpsertInv ==
  ASSUME RollupInv, NEW b \in Batches, Upsert(b)
  PROVE  RollupInv'
<1> DEFINE p == batch[b]
           q == [p EXCEPT !.pc = "rollup", !.day = NoDay, !.excluded = {},
                          !.held = p.held \cup {p.day}, !.written[p.day] = p.excluded]
<1>1. p \in Batch /\ BatchOK(events, p) /\ p.pc = "upsert"
  BY DEF RollupInv, UsageTypeOK, BatchesOK, Upsert
<1>2. batch' = [batch EXCEPT ![b] = q] /\ UNCHANGED <<events, daily>>
  BY DEF Upsert
<1> HIDE DEF p
<1>3. p.day \in Days \ p.affected /\ Sound(events, p, p.day, p.excluded)
  BY <1>1 DEF BatchOK
<1>4. q \in Batch
  BY <1>1, <1>3 DEF Batch
<1>5. /\ q.pc = "rollup" /\ q.held = p.held \cup {p.day}
      /\ q.written = [p.written EXCEPT ![p.day] = p.excluded]
      /\ q.rows = p.rows /\ q.affected = p.affected /\ q.overtaken = p.overtaken
  BY <1>1 DEF Batch
<1> HIDE DEF q
<1>6. ASSUME NEW d \in q.held
      PROVE  d \notin q.affected /\ Sound(events, q, d, q.written[d])
  <2>1. d \in Days /\ p.written \in [Days -> SUBSET Events]
    BY <1>1, <1>3, <1>5 DEF Batch
  <2>2. CASE d = p.day
    BY <1>3, <1>5, <2>1, <2>2 DEF Sound
  <2>3. CASE d # p.day
    BY <1>1, <1>5, <2>1, <2>3 DEF BatchOK, Sound
  <2> QED
    BY <2>2, <2>3
<1>7. \A d \in DaysOf(q.rows) : d \in q.affected \cup q.held
  BY <1>1, <1>5 DEF BatchOK
<1>8. BatchOK(events, q)
  BY <1>5, <1>6, <1>7 DEF BatchOK
<1> QED
  BY <1>2, <1>4, <1>8, OneBatch

\* What another transaction knows when one commits events.
LEMMA CommitOther ==
  ASSUME NEW S \in SUBSET Events, NEW evs \in SUBSET Events, NEW p \in Batch,
         BatchOK(S, p), p.pc # "idle"
  PROVE  LET q == [p EXCEPT !.overtaken = @ \cup (DaysOf(evs) \ p.affected)]
         IN  q \in Batch /\ BatchOK(S \cup evs, q)
<1> DEFINE q == [p EXCEPT !.overtaken = @ \cup (DaysOf(evs) \ p.affected)]
<1>1. q \in Batch
  BY DaysTyped DEF Batch
<1>2. /\ q.pc = p.pc /\ q.day = p.day /\ q.affected = p.affected /\ q.excluded = p.excluded
      /\ q.rows = p.rows /\ q.held = p.held /\ q.written = p.written
      /\ q.overtaken = p.overtaken \cup (DaysOf(evs) \ p.affected)
  BY DEF Batch
<1> HIDE DEF q
<1>3. ASSUME NEW d, NEW rollup, d \notin p.affected, Sound(S, p, d, rollup)
      PROVE  Sound(S \cup evs, q, d, rollup)
  <2>1. d \notin DaysOf(evs) => On(evs, d) = {}
    BY DEF DaysOf, On
  <2>2. On((S \cup evs) \cup p.rows, d) = On(S \cup p.rows, d) \cup On(evs, d)
    BY DEF On
  <2> QED
    BY <1>2, <1>3, <2>1, <2>2 DEF Sound
<1>4. BatchOK(S \cup evs, q)
  BY <1>2, <1>3 DEF BatchOK
<1> QED
  BY <1>1, <1>4 DEF q

\* A commit finds every day of its events computed, and equal unless overtaken.
LEMMA CommitDays ==
  ASSUME RollupInv, NEW b \in Batches, Commit(b)
  PROVE  /\ DaysOf(batch[b].rows) \subseteq batch[b].held
         /\ \A d \in batch[b].held : Sound(events, batch[b], d, batch[b].written[d])
  BY DEF RollupInv, BatchesOK, BatchOK, Commit

LEMMA CommitInv ==
  ASSUME RollupInv, NEW b \in Batches, Commit(b)
  PROVE  RollupInv'
<1> USE DEF RollupInv, UsageTypeOK
<1>1. batch[b] \in Batch /\ batch[b].rows \in SUBSET Events
  BY DEF Batch
<1>2. events' \in SUBSET Events
  BY <1>1 DEF Commit
<1>3. daily' \in [Days -> SUBSET Events]
  BY <1>1 DEF Commit, Batch
<1>4. ASSUME NEW c \in Batches
      PROVE  batch'[c] \in Batch /\ BatchOK(events', batch'[c])
  <2>1. CASE c = b \/ batch[c].pc = "idle"
    <3>1. batch'[c] = NoBatch
      BY <2>1 DEF Commit
    <3> QED
      BY <3>1, NoBatchTyped, NoBatchOK
  <2>2. CASE ~(c = b \/ batch[c].pc = "idle")
    <3>1. batch'[c] = [batch[c] EXCEPT !.overtaken = @ \cup
                                       (DaysOf(batch[b].rows) \ batch[c].affected)]
      BY <2>2 DEF Commit, Overtaken
    <3>2. batch[c] \in Batch /\ BatchOK(events, batch[c]) /\ events' = events \cup batch[b].rows
      BY DEF BatchesOK, Commit
    <3>3. PICK p \in Batch, S \in SUBSET Events, evs \in SUBSET Events :
             p = batch[c] /\ S = events /\ evs = batch[b].rows
      BY <1>1, <3>2
    <3>4. BatchOK(S, p) /\ p.pc # "idle"
      BY <2>2, <3>2, <3>3
    <3> DEFINE q == [p EXCEPT !.overtaken = @ \cup (DaysOf(evs) \ p.affected)]
    <3>5. q \in Batch /\ BatchOK(S \cup evs, q)
      BY <3>4, CommitOther
    <3>6. batch'[c] = q /\ events' = S \cup evs
      BY <3>1, <3>2, <3>3
    <3> QED
      BY <3>5, <3>6
  <2> QED
    BY <2>1, <2>2
<1>5. batch' \in [Batches -> Batch]
  <2>1. batch' = [c \in Batches |-> batch'[c]]
    BY DEF Commit
  <2> QED
    BY <1>4, <2>1
<1>6. NeverOvercounts'
  <2> SUFFICES ASSUME NEW d \in Days PROVE daily'[d] \subseteq On(events', d)
    BY DEF NeverOvercounts
  <2>1. CASE d \in batch[b].held
    BY <2>1, CommitDays DEF Commit, Sound
  <2>2. CASE d \notin batch[b].held
    <3>1. daily'[d] = daily[d]
      BY <2>2 DEF Commit
    <3> QED
      BY <3>1 DEF NeverOvercounts, Commit, On
  <2> QED
    BY <2>1, <2>2
<1> QED
  BY <1>2, <1>3, <1>4, <1>5, <1>6 DEF BatchesOK

LEMMA RollbackInv ==
  ASSUME RollupInv, NEW b \in Batches, Rollback(b)
  PROVE  RollupInv'
  BY NoBatchTyped, NoBatchOK, OneBatch DEF Rollback

LEMMA RollupNext == RollupInv /\ [UsageNext]_usage => RollupInv'
<1> SUFFICES ASSUME RollupInv, [UsageNext]_usage PROVE RollupInv'
  OBVIOUS
<1>1. ASSUME NEW b \in Batches, NEW evs \in SUBSET Events, RecordUsage(b, evs)
      PROVE  RollupInv'
  BY <1>1, RecordInv
<1>2. ASSUME NEW b \in Batches, NEW d \in Days, rollupDay(b, d) PROVE RollupInv'
  BY <1>2, ComputeInv
<1>3. ASSUME NEW b \in Batches, Upsert(b) PROVE RollupInv'
  BY <1>3, UpsertInv
<1>4. ASSUME NEW b \in Batches, Commit(b) PROVE RollupInv'
  BY <1>4, CommitInv
<1>5. ASSUME NEW b \in Batches, Rollback(b) PROVE RollupInv'
  BY <1>5, RollbackInv
<1>6. CASE UNCHANGED usage
  BY <1>6 DEF usage, RollupInv, UsageTypeOK, NeverOvercounts, BatchesOK
<1> QED
  BY <1>1, <1>2, <1>3, <1>4, <1>5, <1>6 DEF UsageNext

----------------------------------------------------------------------------

\* Together: types, figures never above the events, and what transactions know.
THEOREM RollupInvariance == UsageSpec => []RollupInv
  BY RollupInit, RollupNext, PTL DEF UsageSpec

\* Events, rollups and every transaction keep their types.
THEOREM UsageTypeCorrect == UsageSpec => []UsageTypeOK
  BY RollupInvariance, PTL DEF RollupInv

\* The analytics screen never counts an event that is not recorded (RecordUsage).
THEOREM NotMore == UsageSpec => []NeverOvercounts
  BY RollupInvariance, PTL DEF RollupInv

\* A batch that nobody overtook leaves its days' rollups equal to their events
\* (rollupDay computes the whole day again).
THEOREM Recomputed == UsageSpec => CatchesUp
<1>1. ASSUME RollupInv, [UsageNext]_usage
      PROVE  [\A b \in Batches : Commit(b) =>
                \A d \in DaysOf(batch[b].rows) \ batch[b].overtaken :
                   daily'[d] = On(events', d)]_usage
  <2>1. ASSUME NEW b \in Batches, Commit(b),
               NEW d \in DaysOf(batch[b].rows) \ batch[b].overtaken
        PROVE  daily'[d] = On(events', d)
    <3>1. d \in Days /\ d \in batch[b].held
      BY <1>1, <2>1, CommitDays, DaysTyped DEF RollupInv, UsageTypeOK, Batch
    <3>2. daily'[d] = batch[b].written[d] /\ events' = events \cup batch[b].rows
      BY <2>1, <3>1 DEF Commit
    <3> QED
      BY <1>1, <2>1, <3>1, <3>2, CommitDays DEF Sound
  <2> QED
    BY <2>1
<1> QED
  BY <1>1, RollupInvariance, PTL DEF UsageSpec, CatchesUp

----------------------------------------------------------------------------
(* The cached membership.  AppPromotion comes to MCStatements under other  *)
(* names; so do its proofs here, about the same variables.                 *)

Checked == INSTANCE AppPromotionProofs WITH Requests <- {q1}, req <- promotionReq

LEMMA SameInit == Promotion!Init => Checked!Init
  BY DEF Promotion!Init, Checked!Init, Promotion!Idle, Checked!Idle, Promotion!Slots,
         Checked!Slots, Promotion!Environment, Checked!Environment, Promotion!Enough,
         Checked!Enough, Promotion!Cardinality, Checked!Cardinality

LEMMA SameTypes == Checked!TypeOK => Promotion!TypeOK
  BY DEF Promotion!TypeOK, Checked!TypeOK, Promotion!Request, Checked!Request, Promotion!Step,
         Checked!Step, Promotion!Sync, Checked!Sync, Promotion!Slots, Checked!Slots,
         Promotion!Environment, Checked!Environment, Promotion!Cardinality, Checked!Cardinality

LEMMA SameChain == Promotion!Chain => Checked!Chain
  BY DEF Promotion!history, Checked!history, Promotion!Chain, Checked!Chain, Promotion!Join, Checked!Join, Promotion!QueueRemoval,
         Checked!QueueRemoval, Promotion!CancelRemoval, Checked!CancelRemoval,
         Promotion!ExecuteRemoval, Checked!ExecuteRemoval, Promotion!Compose, Checked!Compose,
         Promotion!Slots, Checked!Slots, Promotion!Enough, Checked!Enough,
         Promotion!Cardinality, Checked!Cardinality

\* What a request does once it has begun.
LEMMA SameRun == ASSUME NEW r PROVE Promotion!Run(r) => Checked!Run(r)
  BY DEF Promotion!history, Checked!history, Promotion!Run, Checked!Run, Promotion!ReadActive, Checked!ReadActive,
         Promotion!ReadRemovals, Checked!ReadRemovals, Promotion!DeleteGroupNodes,
         Checked!DeleteGroupNodes, Promotion!InsertGroupNodes, Checked!InsertGroupNodes,
         Promotion!Commit, Checked!Commit, Promotion!Conflict, Checked!Conflict,
         Promotion!EndSync, Checked!EndSync, Promotion!SyncGroupState, Checked!SyncGroupState,
         Promotion!AfterSync, Checked!AfterSync, Promotion!ReadNodeCount, Checked!ReadNodeCount,
         Promotion!ReadEnvironment, Checked!ReadEnvironment, Promotion!CheckOperators,
         Checked!CheckOperators, Promotion!AttachGroup, Checked!AttachGroup, Promotion!Reload,
         Checked!Reload, Promotion!ReadPlan, Checked!ReadPlan, Promotion!ReadComposition,
         Checked!ReadComposition, Promotion!UpdateApp, Checked!UpdateApp, Promotion!Goto,
         Checked!Goto, Promotion!Finish, Checked!Finish, Promotion!Idle, Checked!Idle,
         Promotion!Slots, Checked!Slots, Promotion!Enough, Checked!Enough,
         Promotion!Cardinality, Checked!Cardinality

\* How one begins, and how it ends before its time.
LEMMA SameArrival ==
  ASSUME NEW r
  PROVE  /\ Promotion!StartSync(r) => Checked!StartSync(r)
         /\ Promotion!ArrivePromote(r) => Checked!ArrivePromote(r)
         /\ Promotion!FailSync(r) => Checked!FailSync(r)
         /\ Promotion!Abandon(r) => Checked!Abandon(r)
         /\ \A g : Promotion!ArriveAttach(r, g) => Checked!ArriveAttach(r, g)
         /\ \A g, listed : Promotion!ArriveDeploy(r, g, listed) => Checked!ArriveDeploy(r, g, listed)
  BY DEF Promotion!history, Checked!history, Promotion!EndSync, Checked!EndSync,
         Promotion!StartSync, Checked!StartSync, Promotion!ArrivePromote, Checked!ArrivePromote,
         Promotion!ArriveAttach, Checked!ArriveAttach, Promotion!ArriveDeploy,
         Checked!ArriveDeploy, Promotion!Begin, Checked!Begin, Promotion!FailSync,
         Checked!FailSync, Promotion!AfterSync, Checked!AfterSync, Promotion!Abandon,
         Checked!Abandon, Promotion!Sync, Checked!Sync, Promotion!Finish, Checked!Finish,
         Promotion!Idle, Checked!Idle, Promotion!Enough, Checked!Enough,
         Promotion!Cardinality, Checked!Cardinality

LEMMA SameNext == [Promotion!Next]_(Promotion!vars) => [Checked!Next]_(Checked!vars)
<1>1. Promotion!Slots = Checked!Slots /\ Promotion!vars = Checked!vars
  BY DEF Promotion!history, Checked!history, Promotion!Slots, Checked!Slots,
         Promotion!vars, Checked!vars
<1>2. /\ Promotion!ChangePlan => Checked!ChangePlan
      /\ Promotion!Demote => Checked!Demote
  BY DEF Promotion!history, Checked!history, Promotion!ChangePlan, Checked!ChangePlan,
         Promotion!Demote, Checked!Demote
<1>3. Promotion!Work => Checked!Work
  BY <1>1, <1>2, SameRun, SameArrival DEF Promotion!Work, Checked!Work
<1>4. Promotion!Disturb => Checked!Disturb
  BY <1>1, SameChain, SameArrival DEF Promotion!Disturb, Checked!Disturb
<1> QED
  BY <1>1, <1>2, <1>3, <1>4
     DEF Promotion!Next, Checked!Next, Promotion!vars, Checked!vars, Promotion!history,
         Checked!history

----------------------------------------------------------------------------
(* All the tables                                                          *)

\* What a behaviour of the tables is to each set of them: one of its own.
THEOREM EachBehaves == StatementsSpec => Spec /\ Promotion!Spec /\ UsageSpec
<1>1. StatementsInit => Init /\ Promotion!Init /\ UsageInit
  BY DEF StatementsInit, RosterShut, PromotionShut
<1>2. [StatementsNext]_<<tables, vars, promotion, usage>> =>
        [Next]_vars /\ [Promotion!Next]_(Promotion!vars) /\ [UsageNext]_usage
  BY DEF StatementsNext, promotion, Promotion!vars, Promotion!history
<1> QED
  BY <1>1, <1>2, PTL DEF StatementsSpec, Spec, Promotion!Spec, UsageSpec

LEMMA CheckedHere ==
  /\ NoGroup \notin Groups /\ Timer \notin {q1}
  /\ Checked!IsFiniteSet(Nodes) /\ MinExternal \in Nat \ {0}
  BY PromotionAssumption DEF Checked!IsFiniteSet, IsFiniteSet

LEMMA CheckedBehaves == Promotion!Spec => Checked!Spec
  BY SameInit, SameNext, PTL DEF Promotion!Spec, Checked!Spec

\* Whichever tables are followed, all of them keep their types.
THEOREM StatementsTypeCorrect == StatementsSpec => []StatementsTypeOK
<1>1. Checked!Spec => []Checked!TypeOK
  BY CheckedHere, Checked!TypeCorrect
<1>2. Promotion!Spec => []Promotion!TypeOK
  BY <1>1, CheckedBehaves, SameTypes, PTL
<1> QED
  BY <1>2, EachBehaves, TypeCorrect, UsageTypeCorrect, PTL DEF StatementsTypeOK

\* The tables together promise what each set of them promises.
THEOREM StatementsPromise ==
  StatementsSpec =>
    /\ []OwnerKeptUnlessOvertaken /\ []InviteRedeemedOnce
    /\ WritesWereAuthorized /\ JoinsOnlyByInvite
    /\ PromotedOnComposition
    /\ []NeverOvercounts /\ CatchesUp
<1>1. Checked!Spec => Checked!PromotedOnComposition
  BY CheckedHere, Checked!Promotion
<1>2. Checked!PromotedOnComposition => PromotedOnComposition
  BY DEF Checked!PromotedOnComposition, PromotedOnComposition, Promotion!PromotedOnComposition,
         Promotion!Promotes, Checked!Promotes, Promotion!Enough, Checked!Enough,
         Promotion!Cardinality, Checked!Cardinality, Promotion!history, Checked!history,
         Checked!vars, Promotion!vars
<1>3. Promotion!Spec => PromotedOnComposition
  BY <1>1, <1>2, CheckedBehaves, PTL
<1> QED
  BY <1>3, EachBehaves, OwnerKept, InviteOnce, WritesAuthorized, Joins, NotMore, Recomputed, PTL
=============================================================================
