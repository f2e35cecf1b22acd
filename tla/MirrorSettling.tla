--------------------------- MODULE MirrorSettling ---------------------------
(***************************************************************************)
(* AppPromotion from the moment the disturbances stop: operators no longer *)
(* join or leave, nobody links another group, and reads succeed.  "calm"   *)
(* is that moment, which no part of the system can see; whatever stale,    *)
(* torn or half-written snapshots are in flight by then still land.        *)
(* The plan, which only promotions look at, stays as it is.                *)
(***************************************************************************)
EXTENDS AppPromotion

VARIABLE calm

CalmInit == Init /\ calm = FALSE

CalmDown == calm = FALSE /\ calm' = TRUE /\ UNCHANGED vars

CalmNext ==
    \/ CalmDown
    \/ Work /\ UNCHANGED calm
    \/ ~calm /\ Disturb /\ UNCHANGED calm

\* Requests and the timer's job run on until they end (all have a deadline), and
\* the timer starts its job again and again (loop in cmd/server/main.go).
Fairness ==
    /\ \A r \in Slots : WF_<<vars, calm>>(Run(r) /\ UNCHANGED calm)
    /\ WF_<<vars, calm>>(StartSync(Timer) /\ UNCHANGED calm)

CalmSpec == CalmInit /\ [][CalmNext]_<<vars, calm>> /\ Fairness

Mirrored ==
    /\ app.count = Cardinality(members[app.group])
    /\ \A n \in Nodes : rows[n] = IF n \notin members[app.group] THEN "none"
                                  ELSE IF n \in queued[app.group] THEN "removing" ELSE "active"

\* Once disturbances stop, the console comes to show the group as it is and goes
\* on showing it: no overlapping or interrupted sync leaves a wrong membership
\* or a summary that disagrees with it for good (syncGroup, SyncAllGroups).
MirrorSettles == <>[]((calm /\ app.group # NoGroup) => Mirrored)
=============================================================================
