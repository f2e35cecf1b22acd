---------------------------- MODULE KeyInventory ----------------------------
(***************************************************************************)
(* An app's cached key inventory: the wallets screen                       *)
(* (web/app/(console)/apps/[appId]/wallets/page.tsx), the handlers and     *)
(* store/keys.go.  The nodes own the keys; each developer's screen changes *)
(* a key on the nodes and then on the platform, or fetches what the nodes  *)
(* hold, or is given a list of it, and posts that to the platform, which   *)
(* counts the keys of each end user for the users screen.                  *)
(*                                                                         *)
(* The platform's sync is a transaction at READ COMMITTED: each statement  *)
(* sees what others have committed by then and what it wrote itself, and   *)
(* what it wrote is locked until it ends.                                  *)
(***************************************************************************)
EXTENDS Integers, FiniteSets

CONSTANTS Keys,
          Subjects,
          Owner,     \* the end user of each key, from its id
          Screens,   \* wallets screens that are open
          NoKey

VARIABLES
    node,      \* what the nodes hold
    row,       \* app_keys.status
    count,     \* app_users.key_count
    shown,     \* what each screen last read: rows, or nothing yet
    job,       \* setStatus, or the sync dialog, of each screen
    drifted    \* history: end users whose number nothing has put right since a deleted
               \* key of theirs was enabled again, their last key went, or a sync
               \* counted their keys before another had committed

vars == <<node, row, count, shown, job, drifted>>

OnNodes == {"absent", "enabled", "disabled"}
Row == {"none", "enabled", "disabled", "deleted"}
Live(status) == status \in {"enabled", "disabled"}
NotRead == <<>>

\* What a list says of a key: a pasted one may call it deleted.
Listed == OnNodes \cup {"deleted"}

\* A screen at work with both its dialogs is two screens here: each takes what the
\* screen shows as it begins.
Job == [pc : {"idle", "node", "record", "fetch", "check", "post", "upserted", "mark",
              "count", "commit", "refresh"},
        key : Keys \cup {NoKey}, to : OnNodes,
        keys : [Keys -> Listed], total : 0..Cardinality(Keys), confirmed : BOOLEAN,
        marked : SUBSET Keys, counts : [Subjects -> 0..Cardinality(Keys)],
        stale : BOOLEAN,           \* history: the nodes' keys changed after they answered
        wrong : SUBSET Keys,       \* history: the list never said what the nodes held
        overtaken : SUBSET Subjects]   \* history: keys came or went after the count

NoKeys == [k \in Keys |-> "absent"]
Nobody == [s \in Subjects |-> 0]
Idle == [pc |-> "idle", key |-> NoKey, to |-> "absent",
         keys |-> NoKeys, total |-> 0, confirmed |-> FALSE, marked |-> {}, counts |-> Nobody,
         stale |-> FALSE, wrong |-> {}, overtaken |-> {}]
Done == [Idle EXCEPT !.pc = "refresh"]

TypeOK ==
    /\ node \in [Keys -> OnNodes]
    /\ row \in [Keys -> Row]
    /\ count \in [Subjects -> 0..Cardinality(Keys)]
    /\ shown \in [Screens -> [Keys -> Row] \cup {NotRead}]
    /\ job \in [Screens -> Job]
    /\ drifted \subseteq Subjects

\* Of the keys the nodes hold, none has been synced.
Init ==
    /\ node \in [Keys -> {"absent", "enabled"}]
    /\ row = [k \in Keys |-> "none"]
    /\ count = Nobody
    /\ shown = [d \in Screens |-> NotRead]
    /\ job = [d \in Screens |-> Idle]
    /\ drifted = {}

----------------------------------------------------------------------------
(* The nodes                                                               *)

Told == {"record", "check", "post", "upserted", "mark", "count", "commit"}
platform == <<row, count, drifted>>

\* Every screen that has an answer of the nodes in hand is behind, but the one whose
\* request this is.
Nodes(k, status, jobs) ==
    /\ node' = [node EXCEPT ![k] = status]
    /\ job' = [d \in Screens |->
                 IF job[d].pc \in Told /\ status # node[k]
                 THEN [jobs[d] EXCEPT !.stale = TRUE] ELSE jobs[d]]

\* The app's users and its backend create, disable, enable and delete keys.
ChangeOutside(k, status) ==
    /\ node[k] # status
    /\ Nodes(k, status, job)
    /\ UNCHANGED <<platform, shown>>

----------------------------------------------------------------------------
(* Enabling and disabling a key                                            *)

Goto(d, step) == job' = [job EXCEPT ![d].pc = step]
\* The dialog offers the opposite of what the row said when it was opened.
Press(d, k) ==
    /\ job[d].pc = "idle"
    /\ shown[d] # NotRead /\ shown[d][k] # "none"
    /\ job' = [job EXCEPT ![d].pc = "node", ![d].key = k,
                          ![d].to = IF shown[d][k] = "enabled" THEN "disabled" ELSE "enabled"]
    /\ UNCHANGED <<node, platform, shown>>

\* Nothing is asked of the nodes.
SkipNodes(d) ==
    /\ job[d].pc = "node"
    /\ Goto(d, "record")
    /\ UNCHANGED <<node, platform, shown>>

\* nodeProxy, first: a deleted key is refused.
AskNodes(d) ==
    /\ job[d].pc = "node" /\ node[job[d].key] # "absent"
    /\ Nodes(job[d].key, job[d].to, [job EXCEPT ![d].pc = "record"])
    /\ UNCHANGED <<platform, shown>>

\* What a sync has written stays locked until it ends.
Locked(d) ==
    LET upserts == {k \in Keys : job[d].keys[k] # "absent"}
    IN CASE job[d].pc \in {"upserted", "mark"} -> upserts
         [] job[d].pc \in {"count", "commit"} -> upserts \cup job[d].marked
         [] OTHER -> {}
Free(d, keys) == \A e \in Screens \ {d} : Locked(e) \cap keys = {}

\* Requests that have counted keys which come or go now: all of these subjects'.
Overtake(d, subjects) ==
    [e \in Screens |-> IF e # d /\ job[e].pc = "commit"
                      THEN [job[e] EXCEPT !.overtaken = job[e].overtaken \cup subjects]
                      ELSE job[e]]

\* updateKey, of a row in whatever state.
SetKeyStatus(d) ==
    LET k == job[d].key
        revived == IF row[k] = "deleted" THEN {Owner[k]} ELSE {}
    IN /\ job[d].pc = "record" /\ Free(d, {k})
       /\ row' = [row EXCEPT ![k] = job[d].to]
       /\ drifted' = drifted \cup revived
       /\ job' = [Overtake(d, revived) EXCEPT ![d] = Done]
       /\ UNCHANGED <<node, count, shown>>

\* keys.refresh ends a change and a sync; a screen reads whenever it opens, or its
\* question changes.
Refresh(d) ==
    /\ job[d].pc \in {"idle", "refresh"}
    /\ shown' = [shown EXCEPT ![d] = row]
    /\ job' = [job EXCEPT ![d] = Idle]
    /\ UNCHANGED <<node, platform>>

\* A screen is left, and another opens.
Open(d) ==
    /\ shown[d] # NotRead
    /\ shown' = [shown EXCEPT ![d] = NotRead]
    /\ job' = [job EXCEPT ![d] = Idle]
    /\ UNCHANGED <<node, platform>>

\* No session or operator to ask, a refusal, a declined confirmation, an inventory
\* that does not parse, or an answer that is lost.
Fail(d) ==
    /\ job[d].pc # "idle"
    /\ job' = [job EXCEPT ![d] = Idle]
    /\ UNCHANGED <<node, platform, shown>>

----------------------------------------------------------------------------
(* Syncing                                                                 *)

\* existingKeyCount is the number the screen shows as the button is pressed, none
\* before it has read.
Total(d) == IF shown[d] = NotRead THEN 0 ELSE Cardinality({k \in Keys : Live(shown[d][k])})

StartSync(d) ==
    /\ job[d].pc = "idle"
    /\ job' = [job EXCEPT ![d] = [Idle EXCEPT !.pc = "fetch", !.total = Total(d)]]
    /\ UNCHANGED <<node, platform, shown>>

\* What the nodes answer, all of it or a part, an answer that is no list of keys, or
\* whatever the developer has pasted, which needs no answer.
Fetch(d) ==
    /\ job[d].pc = "fetch"
    /\ \E keys \in [Keys -> Listed] :
          job' = [job EXCEPT ![d].pc = "check", ![d].keys = keys,
                             ![d].wrong = {k \in Keys : keys[k] # node[k]}]
    /\ UNCHANGED <<node, platform, shown>>

\* Whatever was fetched is posted.
CheckNothing(d) ==
    /\ job[d].pc = "check"
    /\ job' = [job EXCEPT ![d].pc = "post"]
    /\ UNCHANGED <<node, platform, shown>>

\* The developer confirms an empty inventory, if the screen counted any key.
Check(d) ==
    /\ job[d].pc = "check"
    /\ job' = [job EXCEPT ![d].pc = "post",
                            ![d].confirmed = job[d].keys = NoKeys /\ job[d].total > 0]
    /\ UNCHANGED <<node, platform, shown>>

Held(rows, s) == Cardinality({k \in Keys : Owner[k] = s /\ Live(rows[k])})

\* The rows as the sync sees them, and as it leaves them.
After(d) == [k \in Keys |-> IF job[d].keys[k] # "absent" THEN job[d].keys[k]
                           ELSE IF k \in job[d].marked THEN "deleted" ELSE row[k]]

\* SyncKeys: every key of the list first.
UpsertKeys(d) ==
    /\ job[d].pc = "post" /\ Free(d, {k \in Keys : job[d].keys[k] # "absent"})
    /\ Goto(d, "upserted")
    /\ UNCHANGED <<node, platform, shown>>

\* Then the rows that the list leaves out: those that are there as the statement
\* begins, which looks at each of them again when it has waited for it.
SeeKeys(d) ==
    /\ job[d].pc = "upserted"
    /\ job' = [job EXCEPT ![d].pc = "mark",
                          ![d].marked = {k \in Keys : job[d].keys[k] = "absent" /\ Live(row[k])}]
    /\ UNCHANGED <<node, platform, shown>>

MarkDeleted(d) ==
    /\ job[d].pc = "mark" /\ Free(d, job[d].marked)
    /\ job' = [job EXCEPT ![d].pc = "count", ![d].marked = {k \in job[d].marked : Live(row[k])}]
    /\ UNCHANGED <<node, platform, shown>>

\* The keys counted as they stood.
CountBefore(d) ==
    /\ job[d].pc = "count"
    /\ job' = [job EXCEPT ![d].pc = "commit", ![d].counts = [s \in Subjects |-> Held(row, s)]]
    /\ UNCHANGED <<node, platform, shown>>

\* Then the keys of each end user are counted.
CountKeys(d) ==
    /\ job[d].pc = "count"
    /\ job' = [job EXCEPT ![d].pc = "commit", ![d].counts = [s \in Subjects |-> Held(After(d), s)]]
    /\ UNCHANGED <<node, platform, shown>>

\* A subject without a key left is in no group of the counting query: the users
\* screen goes on showing the last number.
Commit(d) ==
    LET counts == job[d].counts
        moved == {s \in Subjects : \E k \in Keys : Owner[k] = s /\ Live(row'[k]) # Live(row[k])}
    IN /\ job[d].pc = "commit"
       /\ row' = After(d)
       /\ count' = [s \in Subjects |-> IF counts[s] = 0 THEN count[s] ELSE counts[s]]
       /\ drifted' = {s \in Subjects : \/ s \in job[d].overtaken
                                       \/ Held(row', s) = 0 /\ s \in drifted \cup moved}
       /\ job' = [Overtake(d, moved) EXCEPT ![d] = Done]
       /\ UNCHANGED <<node, shown>>

----------------------------------------------------------------------------

Do(d) ==
    \/ \E k \in Keys : Press(d, k)
    \/ AskNodes(d) \/ SetKeyStatus(d)
    \/ StartSync(d) \/ Fetch(d) \/ Check(d)
    \/ UpsertKeys(d) \/ SeeKeys(d) \/ MarkDeleted(d) \/ CountKeys(d) \/ Commit(d)
    \/ Refresh(d) \/ Open(d) \/ Fail(d)

Next ==
    \/ \E d \in Screens : Do(d)
    \/ \E k \in Keys, status \in OnNodes : ChangeOutside(k, status)

Spec == Init /\ [][Next]_vars

----------------------------------------------------------------------------
(* Properties                                                              *)

\* The console comes to show a key as disabled that can still sign only when the
\* nodes were told otherwise after they had answered (setStatus), or the list said
\* what they never did.
DisabledOnNodes ==
    [][\A k \in Keys : (row[k] # "disabled" /\ row'[k] = "disabled") =>
          \/ node[k] # "enabled"
          \/ \E d \in Screens :
                /\ job[d].pc \in {"record", "commit"} /\ job'[d].pc = "refresh"
                /\ job[d].stale \/ k \in job[d].wrong]_vars

\* A key that the nodes still hold is marked deleted only by an answer that came
\* before it, by a list that was not empty and left it out or called it deleted, of
\* which nobody is asked, or by an empty one that a developer confirmed or that came
\* to a screen with no key to lose (SyncModal).
NoSilentWipe ==
    [][\A k \in Keys : (Live(row[k]) /\ row'[k] = "deleted" /\ node[k] # "absent") =>
          \E d \in Screens :
             /\ job[d].pc = "commit" /\ job'[d].pc # "commit"
             /\ \/ job[d].stale \/ job[d].confirmed \/ job[d].total = 0
                \/ job[d].keys # NoKeys /\ k \in job[d].wrong]_vars

\* The users screen and the wallets screen agree on how many keys an end user has,
\* until a deleted key is enabled again, the last one goes, or one sync commits
\* between another's count and its commit; and they agree again after the next sync
\* that counts a key of theirs and is not overtaken (SyncKeys).
CountsFollow == \A s \in Subjects \ drifted : count[s] = Held(row, s)
=============================================================================
