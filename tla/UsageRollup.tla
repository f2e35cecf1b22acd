----------------------------- MODULE UsageRollup -----------------------------
(***************************************************************************)
(* Metering (backend/internal/api/handlers_misc.go, store/usage.go).  The  *)
(* nodes post batches of events; a batch is one transaction that appends   *)
(* them and computes again the rollup of each day they fall on, which is   *)
(* what the analytics screen shows.                                        *)
(*                                                                         *)
(* Postgres runs it at READ COMMITTED: a statement sees what had been      *)
(* committed when it began and its own transaction's writes, and waits for *)
(* a row that another transaction has written - with what it has computed. *)
(*                                                                         *)
(* A rollup stands for the events it was computed from: its figures are    *)
(* functions of them.  Events are rows: posted again, they are others.     *)
(***************************************************************************)
CONSTANTS Days,      \* the days of all apps: the keys of usage_daily
          Rows,      \* usage_events.id, for each day
          Batches,   \* batches being recorded at once
          NoDay

VARIABLES
    events,  \* usage_events, as committed
    daily,   \* usage_daily, as committed: what each rollup was computed from
    batch    \* handleIngestUsage and its transaction

usage == <<events, daily, batch>>

Events == [day : Days, id : Rows]
DaysOf(S) == {e.day : e \in S}
On(S, d) == {e \in S : e.day = d}

\* excluded: the rollup as computed; held: the days whose rollup the transaction has
\* written, and so locked.  overtaken: days of which others have committed events
\* since this transaction computed them (history).
Batch == [pc : {"idle", "rollup", "upsert"}, rows : SUBSET Events, affected : SUBSET Days,
          day : Days \cup {NoDay}, excluded : SUBSET Events,
          held : SUBSET Days, written : [Days -> SUBSET Events], overtaken : SUBSET Days]

NoRollups == [d \in Days |-> {}]
NoBatch == [pc |-> "idle", rows |-> {}, affected |-> {}, day |-> NoDay, excluded |-> {},
         held |-> {}, written |-> NoRollups, overtaken |-> {}]

UsageTypeOK ==
    /\ events \subseteq Events
    /\ daily \in [Days -> SUBSET Events]
    /\ batch \in [Batches -> Batch]

UsageInit ==
    /\ events = {}
    /\ daily = NoRollups
    /\ batch = [b \in Batches |-> NoBatch]

----------------------------------------------------------------------------

Posted == events \cup UNION {batch[b].rows : b \in Batches}

\* The batch is decoded, its unknown apps and kinds dropped, and the rest inserted,
\* which nobody sees yet.
RecordUsage(b, rows) ==
    /\ batch[b].pc = "idle"
    /\ rows # {} /\ rows \cap Posted = {}
    /\ batch' = [batch EXCEPT ![b] = [NoBatch EXCEPT !.pc = "rollup", !.rows = rows,
                                                  !.affected = DaysOf(rows)]]
    /\ UNCHANGED <<events, daily>>

\* The events counted before the batch's own are inserted.
ComputeFirst(b, d) ==
    /\ batch[b].pc = "rollup" /\ d \in batch[b].affected
    /\ batch' = [batch EXCEPT ![b].pc = "upsert", ![b].affected = @ \ {d}, ![b].day = d,
                              ![b].excluded = On(events, d)]
    /\ UNCHANGED <<events, daily>>

\* The SELECT of rollupDay; the days come in the order of a Go map.
rollupDay(b, d) ==
    /\ batch[b].pc = "rollup" /\ d \in batch[b].affected
    /\ batch' = [batch EXCEPT ![b].pc = "upsert", ![b].affected = @ \ {d}, ![b].day = d,
                              ![b].excluded = On(events \cup batch[b].rows, d)]
    /\ UNCHANGED <<events, daily>>

Free(d) == \A b \in Batches : d \notin batch[b].held

\* The rollup written on a connection of its own.
UpsertAtOnce(b) ==
    /\ batch[b].pc = "upsert"
    /\ Free(batch[b].day)
    /\ daily' = [daily EXCEPT ![batch[b].day] = batch[b].excluded]
    /\ batch' = [batch EXCEPT ![b].pc = "rollup", ![b].day = NoDay, ![b].excluded = {}]
    /\ UNCHANGED events

\* ON CONFLICT DO UPDATE, once no other transaction holds the row.
Upsert(b) ==
    LET p == batch[b] IN
    /\ p.pc = "upsert" /\ Free(p.day)
    /\ batch' = [batch EXCEPT ![b] =
                   [p EXCEPT !.pc = "rollup", !.day = NoDay, !.excluded = {},
                             !.held = p.held \cup {p.day}, !.written[p.day] = p.excluded]]
    /\ UNCHANGED <<events, daily>>

\* A transaction that has computed a day, and one that commits events of it.
Overtaken(c, b) == DaysOf(batch[b].rows) \ batch[c].affected

Commit(b) ==
    /\ batch[b].pc = "rollup" /\ batch[b].affected = {}
    /\ events' = events \cup batch[b].rows
    /\ daily' = [d \in Days |-> IF d \in batch[b].held THEN batch[b].written[d] ELSE daily[d]]
    /\ batch' = [c \in Batches |->
                   IF c = b \/ batch[c].pc = "idle" THEN NoBatch
                   ELSE [batch[c] EXCEPT !.overtaken = @ \cup Overtaken(c, b)]]

\* A statement fails, the request's time is up, or two transactions wait for each
\* other's rows and Postgres ends one.  The node may post the events again.
Rollback(b) ==
    /\ batch[b].pc # "idle"
    /\ batch' = [batch EXCEPT ![b] = NoBatch]
    /\ UNCHANGED <<events, daily>>

UsageNext ==
    \E b \in Batches :
        \/ \E rows \in SUBSET Events : RecordUsage(b, rows)
        \/ \E d \in Days : rollupDay(b, d)
        \/ Upsert(b) \/ Commit(b) \/ Rollback(b)

UsageSpec == UsageInit /\ [][UsageNext]_usage

----------------------------------------------------------------------------
(* Properties                                                              *)

\* The analytics screen never counts an event that is not recorded, although
\* batches fail half-way and deadlock on the days they share.
NeverOvercounts == \A d \in Days : daily[d] \subseteq On(events, d)

\* A batch leaves the rollup of each of its days equal to the day's events, however
\* far it had fallen behind, unless another batch committed events of that day
\* after this one had computed it.
CatchesUp ==
    [][\A b \in Batches : Commit(b) =>
          \A d \in DaysOf(batch[b].rows) \ batch[b].overtaken : daily'[d] = On(events', d)]_usage

\* What store/usage.go says of the one transaction: the analytics screen never
\* shows a day whose rollup lags its own raw events.
RollupNeverLags == \A d \in Days : daily[d] = On(events, d)
=============================================================================
