------------------------ MODULE OrgMembershipProofs ------------------------
(***************************************************************************)
(* What OrgMembership promises for every set of users, requests and        *)
(* invitations: type correctness, that an invitation is redeemed once, and *)
(* that an organization loses its last owner only to an overtaken check.   *)
(***************************************************************************)
EXTENDS OrgMembership, TLAPS

----------------------------------------------------------------------------
(* Typing of the helpers every action is built from.                       *)

LEMMA IdleType == Idle \in Request
  BY FounderAssumption DEF Idle, Request, Step, Kind, Role

LEMMA FinishType ==
  ASSUME TypeOK, NEW r \in Requests
  PROVE  Finish(r) \in [Requests -> Request]
  BY IdleType DEF TypeOK, Finish

LEMMA GotoType ==
  ASSUME TypeOK, NEW r \in Requests, NEW step \in Step
  PROVE  Goto(r, step) \in [Requests -> Request]
  BY DEF TypeOK, Goto, Request

LEMMA HoldsRankType ==
  ASSUME NEW kind, NEW role, NEW m, NEW a
  PROVE  HoldsRank(kind, role, m, a) \in BOOLEAN
  BY DEF HoldsRank

LEMMA BeginType ==
  ASSUME TypeOK, NEW r \in Requests, NEW kind \in Kind, NEW a \in Users,
         NEW t \in Users, NEW role \in Role, NEW i \in Invites \cup {NoInvite},
         NEW step \in Step, Begin(r, kind, a, t, role, i, step)
  PROVE  req' \in [Requests -> Request]
<1> DEFINE q == [Idle EXCEPT !.pc = step, !.kind = kind, !.actor = a, !.target = t,
                             !.role = role, !.invite = i,
                             !.ranked = HoldsRank(kind, role, roles, a)]
<1>1. q \in Request
  BY IdleType, HoldsRankType DEF Request
<1>2. req' = [req EXCEPT ![r] = q]
  BY DEF Begin
<1> HIDE DEF q
<1> QED
  BY <1>1, <1>2 DEF TypeOK

LEMMA WitnessType ==
  ASSUME TypeOK, NEW rs \in [Requests -> Request], NEW m
  PROVE  Witness(rs, m) \in [Requests -> Request]
<1> SUFFICES ASSUME NEW q \in Requests
             PROVE  Witness(rs, m)[q] \in Request
  BY DEF Witness
<1>1. CASE rs[q].pc = "idle"
  BY <1>1 DEF Witness
<1>2. CASE rs[q].pc # "idle"
  <2> DEFINE ra == rs[q].ranked \/ HoldsRank(rs[q].kind, rs[q].role, m, rs[q].actor)
             st == rs[q].stale \/ (Checking(rs[q]) /\ Owners(m) # Owners(roles))
  <2>1. Witness(rs, m)[q] = [rs[q] EXCEPT !.ranked = ra, !.stale = st]
    BY <1>2 DEF Witness
  <2>2. ra \in BOOLEAN /\ st \in BOOLEAN
    OBVIOUS
  <2> HIDE DEF ra, st
  <2> QED
    BY <2>1, <2>2 DEF Request
<1> QED
  BY <1>1, <1>2

\* Every write to the roster leaves the roster and the requests well typed.
LEMMA WriteType ==
  ASSUME TypeOK, NEW r \in Requests, NEW m \in [Users -> Role \cup {"none"}], Write(r, m)
  PROVE  TypeOK'
<1>1. req' \in [Requests -> Request]
  BY FinishType, WitnessType DEF Write
<1>2. staleWrite' \in BOOLEAN
  BY DEF Write, TypeOK, Request
<1> QED
  BY <1>1, <1>2 DEF Write, TypeOK

LEMMA InviteStateType ==
  ASSUME TypeOK, NEW i, NEW st \in InviteState
  PROVE  [invites EXCEPT ![i].state = st] \in [Invites -> Invite]
  BY DEF TypeOK, Invite

----------------------------------------------------------------------------
(* Type correctness.                                                       *)

LEMMA InitType == Init => TypeOK
<1> SUFFICES ASSUME Init
             PROVE  TypeOK
  OBVIOUS
<1>1. [state |-> "absent", role |-> "member"] \in Invite
  BY DEF Invite, InviteState, InviteRole, Role
<1>2. invites \in [Invites -> Invite]
  BY <1>1 DEF Init
<1>3. req \in [Requests -> Request]
  BY IdleType DEF Init
<1> QED
  BY <1>2, <1>3 DEF Init, TypeOK

LEMMA ArriveType ==
  ASSUME TypeOK, NEW r \in Requests, Arrive(r)
  PROVE  TypeOK'
<1>1. UNCHANGED <<roles, invites, redeemed, staleWrite>>
  BY DEF Arrive, ArriveUpdate, ArriveRemove, ArriveInvite, ArriveRevoke, ClaimInvite
<1>2. req' \in [Requests -> Request]
  <2> PICK a \in Users :
        \/ \E t \in Users, role \in Role : ArriveUpdate(r, a, t, role)
        \/ \E t \in Users : ArriveRemove(r, a, t)
        \/ \E i \in Invites, role \in Role : ArriveInvite(r, a, role, i)
        \/ \E i \in Invites : ArriveRevoke(r, a, i)
        \/ \E i \in Invites : ClaimInvite(r, a, i)
    BY DEF Arrive
  <2>1. CASE \E t \in Users, role \in Role : ArriveUpdate(r, a, t, role)
    BY <2>1, BeginType DEF ArriveUpdate, Kind, Step
  <2>2. CASE \E t \in Users : ArriveRemove(r, a, t)
    BY <2>2, BeginType DEF ArriveRemove, Kind, Step, Role
  <2>3. CASE \E i \in Invites, role \in Role : ArriveInvite(r, a, role, i)
    BY <2>3, BeginType, FounderAssumption DEF ArriveInvite, Kind, Step
  <2>4. CASE \E i \in Invites : ArriveRevoke(r, a, i)
    BY <2>4, BeginType, FounderAssumption DEF ArriveRevoke, Kind, Step, Role
  <2>5. CASE \E i \in Invites : ClaimInvite(r, a, i)
    BY <2>5, BeginType, FounderAssumption DEF ClaimInvite, Kind, Step, Role
  <2> QED
    BY <2>1, <2>2, <2>3, <2>4, <2>5
<1> QED
  BY <1>1, <1>2 DEF TypeOK

\* An accepted invitation was claimed by a request that names it.
ClaimedInvite ==
    \A r \in Requests : req[r].pc = "claimed" =>
        /\ req[r].invite \in Invites
        /\ invites[req[r].invite].state \in {"open", "expired"}

\* No request is on its way to inviting an owner.
NoOwnerInvited ==
    \A r \in Requests : req[r].kind = "invite" => req[r].role # "owner"

LEMMA ServeType ==
  ASSUME TypeOK, ClaimedInvite, NoOwnerInvited, NEW r \in Requests, Serve(r)
  PROVE  TypeOK'
<1> DEFINE q == req[r]
<1>0. q \in Request
  BY DEF TypeOK
<1>1. CASE Guard(r)
  BY <1>1, <1>0, GotoType, FinishType DEF Guard, AfterGuard, Step, TypeOK
<1>2. CASE GuardOwner(r)
  BY <1>2, GotoType, FinishType DEF GuardOwner, Step, TypeOK
<1>3. CASE CountOwnersForUpdate(r)
  <2>1. SeveralOwners(roles) \in BOOLEAN /\ "target" \in Step
    BY DEF SeveralOwners, Step
  <2>2. [q EXCEPT !.pc = "target", !.several = SeveralOwners(roles)] \in Request
    BY <1>0, <2>1 DEF Request
  <2> QED
    BY <1>3, <2>2 DEF CountOwnersForUpdate, TypeOK
<1>4. CASE ReadTargetForUpdate(r)
  <2>1. "write" \in Step
    BY DEF Step
  <2>2. [q EXCEPT !.pc = "write", !.several = FALSE] \in Request
    BY <1>0, <2>1 DEF Request
  <2>3. [req EXCEPT ![r].pc = "write", ![r].several = FALSE] \in [Requests -> Request]
    BY <2>2 DEF TypeOK
  <2> QED
    BY <1>4, <2>3, FinishType DEF ReadTargetForUpdate, TypeOK
<1>5. CASE WriteRole(r)
  <2>1. PICK m \in [Users -> Role \cup {"none"}] : Write(r, m)
    BY <1>5, <1>0 DEF WriteRole, TypeOK, Request
  <2> QED
    BY <2>1, WriteType
<1>6. CASE ReadTargetForRemove(r)
  BY <1>6, GotoType, FinishType DEF ReadTargetForRemove, Step, TypeOK
<1>7. CASE CountOwnersForRemove(r)
  BY <1>7, GotoType, FinishType DEF CountOwnersForRemove, Step, TypeOK
<1>8. CASE DeleteMember(r)
  <2>1. [roles EXCEPT ![req[r].target] = "none"] \in [Users -> Role \cup {"none"}]
    BY DEF TypeOK
  <2> QED
    BY <1>8, <2>1, WriteType DEF DeleteMember
<1>9. CASE CreateInvite(r)
  <2>1. q.role \in InviteRole /\ "open" \in InviteState
    BY <1>9, <1>0 DEF CreateInvite, NoOwnerInvited, InviteRole, Request, InviteState
  <2>2. [invites EXCEPT ![q.invite] = [state |-> "open", role |-> q.role]]
          \in [Invites -> Invite]
    BY <2>1 DEF TypeOK, Invite
  <2> QED
    BY <1>9, <2>2, FinishType DEF CreateInvite, TypeOK
<1>10. CASE RevokeInvite(r)
  <2>1. invites' = invites \/ invites' = [invites EXCEPT ![q.invite].state = "revoked"]
    BY <1>10 DEF RevokeInvite
  <2>2. [invites EXCEPT ![q.invite].state = "revoked"] \in [Invites -> Invite]
    BY InviteStateType DEF InviteState
  <2> QED
    BY <1>10, <2>1, <2>2, FinishType DEF RevokeInvite, TypeOK
<1>11. CASE CommitAccept(r)
  <2> DEFINE m == IF roles[q.actor] = "none"
                  THEN [roles EXCEPT ![q.actor] = invites[q.invite].role] ELSE roles
  <2>1. q.invite \in Invites /\ q.actor \in Users
    BY <1>11, <1>0 DEF CommitAccept, ClaimedInvite, Request
  <2>2. m \in [Users -> Role \cup {"none"}]
    BY <2>1 DEF TypeOK, Invite, InviteRole
  <2>3. req' \in [Requests -> Request]
    BY <1>11, FinishType, WitnessType DEF CommitAccept
  <2>4. redeemed' \in [Invites -> SUBSET Users]
    BY <1>11, <2>1 DEF CommitAccept, TypeOK
  <2>5. invites' \in [Invites -> Invite]
    BY <1>11, InviteStateType DEF CommitAccept, InviteState
  <2> QED
    BY <1>11, <2>2, <2>3, <2>4, <2>5 DEF CommitAccept, TypeOK
<1> QED
  BY <1>1, <1>2, <1>3, <1>4, <1>5, <1>6, <1>7, <1>8, <1>9, <1>10, <1>11 DEF Serve

LEMMA ExpireType ==
  ASSUME TypeOK, NEW i \in Invites, Expire(i)
  PROVE  TypeOK'
  BY InviteStateType DEF Expire, TypeOK, InviteState

LEMMA AbandonType ==
  ASSUME TypeOK, NEW r \in Requests, Abandon(r)
  PROVE  TypeOK'
  BY FinishType DEF Abandon, TypeOK

LEMMA NextType ==
  ASSUME TypeOK, ClaimedInvite, NoOwnerInvited, Next
  PROVE  TypeOK'
  BY ArriveType, ServeType, AbandonType, ExpireType DEF Next

----------------------------------------------------------------------------
(* How a step changes one request: at most one slot is begun, advanced or  *)
(* ended, and the others only gain history.                                *)

\* The fields that decide what a request does are those of the other record.
SameWork(p, q) ==
    /\ p.pc = q.pc /\ p.kind = q.kind /\ p.target = q.target /\ p.role = q.role
    /\ p.invite = q.invite /\ p.actor = q.actor /\ p.several = q.several

LEMMA WitnessSameWork ==
  ASSUME NEW rs \in [Requests -> Request], NEW m, NEW q \in Requests
  PROVE  /\ SameWork(Witness(rs, m)[q], rs[q])
         /\ rs[q].pc = "idle" => Witness(rs, m)[q] = rs[q]
         /\ rs[q].pc # "idle" =>
              Witness(rs, m)[q].stale = (rs[q].stale \/ (Checking(rs[q]) /\ Owners(m) # Owners(roles)))
<1> DEFINE ra == rs[q].ranked \/ HoldsRank(rs[q].kind, rs[q].role, m, rs[q].actor)
           st == rs[q].stale \/ (Checking(rs[q]) /\ Owners(m) # Owners(roles))
<1>1. Witness(rs, m)[q] = IF rs[q].pc = "idle" THEN rs[q]
                          ELSE [rs[q] EXCEPT !.ranked = ra, !.stale = st]
  BY DEF Witness
<1>2. rs[q] \in Request
  OBVIOUS
<1> HIDE DEF ra, st
<1>3. /\ SameWork(Witness(rs, m)[q], rs[q])
      /\ rs[q].pc = "idle" => Witness(rs, m)[q] = rs[q]
      /\ rs[q].pc # "idle" => Witness(rs, m)[q].stale = st
  BY <1>1, <1>2 DEF Request, SameWork
<1> QED
  BY <1>3 DEF st

LEMMA WitnessRanked ==
  ASSUME NEW rs \in [Requests -> Request], NEW m, NEW q \in Requests, rs[q].pc # "idle"
  PROVE  Witness(rs, m)[q].ranked =
           (rs[q].ranked \/ HoldsRank(rs[q].kind, rs[q].role, m, rs[q].actor))
<1> DEFINE ra == rs[q].ranked \/ HoldsRank(rs[q].kind, rs[q].role, m, rs[q].actor)
           st == rs[q].stale \/ (Checking(rs[q]) /\ Owners(m) # Owners(roles))
<1>1. Witness(rs, m)[q] = [rs[q] EXCEPT !.ranked = ra, !.stale = st]
  BY DEF Witness
<1>2. rs[q] \in Request
  OBVIOUS
<1> HIDE DEF ra, st
<1>3. Witness(rs, m)[q].ranked = ra
  BY <1>1, <1>2 DEF Request
<1> QED
  BY <1>3 DEF ra

LEMMA FinishOthers ==
  ASSUME TypeOK, NEW r \in Requests, NEW q \in Requests
  PROVE  Finish(r)[q] = IF q = r THEN Idle ELSE req[q]
  BY DEF Finish, TypeOK

\* What a served step may make of a request: it has ended, or it still does the
\* same work and has not become a claim.
Onward(p, q) ==
    \/ p = Idle
    \/ /\ p.kind = q.kind /\ p.role = q.role /\ p.invite = q.invite /\ p.target = q.target
       /\ p.pc = "claimed" => q.pc = "claimed"

LEMMA GotoOnward ==
  ASSUME TypeOK, NEW r \in Requests, NEW step \in Step \ {"claimed"}, req' = Goto(r, step)
  PROVE  \A q \in Requests : Onward(req'[q], req[q])
  BY DEF TypeOK, Request, Goto, Onward

LEMMA FinishOnward ==
  ASSUME TypeOK, NEW r \in Requests, req' = Finish(r)
  PROVE  \A q \in Requests : Onward(req'[q], req[q])
  BY FinishOthers DEF Onward

LEMMA WitnessOnward ==
  ASSUME TypeOK, NEW r \in Requests, NEW m, req' = Witness(Finish(r), m)
  PROVE  \A q \in Requests : Onward(req'[q], req[q])
<1> SUFFICES ASSUME NEW q \in Requests
             PROVE  Onward(req'[q], req[q])
  OBVIOUS
<1>1. Finish(r)[q] = IF q = r THEN Idle ELSE req[q]
  BY FinishOthers
<1>2. /\ SameWork(req'[q], Finish(r)[q])
      /\ Finish(r)[q].pc = "idle" => req'[q] = Finish(r)[q]
  BY FinishType, WitnessSameWork
<1> QED
  BY <1>1, <1>2 DEF Onward, SameWork, Idle

LEMMA ServeOnward ==
  ASSUME TypeOK, NEW r \in Requests, Serve(r) \/ Abandon(r)
  PROVE  \A q \in Requests : Onward(req'[q], req[q])
<1>0. \A step \in {"guard", "ownerGuard", "count", "target", "write"} : step \in Step \ {"claimed"}
  BY DEF Step
<1>1. CASE Guard(r)
  BY <1>1, <1>0, GotoOnward, FinishOnward DEF Guard, AfterGuard
<1>2. CASE GuardOwner(r)
  BY <1>2, <1>0, GotoOnward, FinishOnward DEF GuardOwner
<1>3. CASE CountOwnersForUpdate(r)
  BY <1>3 DEF CountOwnersForUpdate, TypeOK, Request, Onward
<1>4. CASE ReadTargetForUpdate(r)
  <2>1. CASE req' = Finish(r)
    BY <2>1, FinishOnward
  <2>2. CASE req' = [req EXCEPT ![r].pc = "write", ![r].several = FALSE]
    BY <2>2 DEF TypeOK, Request, Onward
  <2> QED
    BY <1>4, <2>1, <2>2 DEF ReadTargetForUpdate
<1>5. CASE ReadTargetForRemove(r) \/ CountOwnersForRemove(r)
  BY <1>5, <1>0, GotoOnward, FinishOnward DEF ReadTargetForRemove, CountOwnersForRemove
<1>6. CASE WriteRole(r) \/ DeleteMember(r) \/ CommitAccept(r)
  BY <1>6, WitnessOnward DEF WriteRole, DeleteMember, CommitAccept, Write
<1>7. CASE CreateInvite(r) \/ RevokeInvite(r) \/ Abandon(r)
  BY <1>7, FinishOnward DEF CreateInvite, RevokeInvite, Abandon
<1> QED
  BY <1>1, <1>2, <1>3, <1>4, <1>5, <1>6, <1>7 DEF Serve

----------------------------------------------------------------------------
(* An invitation is redeemed once.  The inductive invariant adds what the  *)
(* row lock gives: a claim is alone on its invitation, which is not spent. *)

ClaimedAlone ==
    \A r, s \in Requests :
        (req[r].pc = "claimed" /\ req[s].pc = "claimed" /\ req[r].invite = req[s].invite)
            => r = s

InviteInv ==
    /\ TypeOK
    /\ NoOwnerInvited
    /\ ClaimedInvite
    /\ ClaimedAlone
    /\ InviteRedeemedOnce

LEMMA InviteInit == Init => InviteInv
<1> SUFFICES ASSUME Init
             PROVE  InviteInv
  OBVIOUS
<1>1. TypeOK
  BY InitType
<1>2. NoOwnerInvited /\ ClaimedInvite /\ ClaimedAlone
  BY DEF Init, Idle, NoOwnerInvited, ClaimedInvite, ClaimedAlone
<1>3. InviteRedeemedOnce
  BY DEF Init, InviteRedeemedOnce
<1> QED
  BY <1>1, <1>2, <1>3 DEF InviteInv

LEMMA ArriveEffect ==
  ASSUME TypeOK, NEW r \in Requests, Arrive(r),
         ~\E a \in Users, i \in Invites : ClaimInvite(r, a, i)
  PROVE  /\ \A q \in Requests \ {r} : req'[q] = req[q]
         /\ req'[r].pc = "guard" /\ req'[r].stale = FALSE
         /\ req'[r].kind = "invite" => req'[r].role # "owner"
<1> PICK a \in Users :
      \/ \E t \in Users, role \in Role : ArriveUpdate(r, a, t, role)
      \/ \E t \in Users : ArriveRemove(r, a, t)
      \/ \E i \in Invites, role \in Role : ArriveInvite(r, a, role, i)
      \/ \E i \in Invites : ArriveRevoke(r, a, i)
  BY DEF Arrive
<1>1. CASE \E t \in Users, role \in Role : ArriveUpdate(r, a, t, role)
  <2> PICK t \in Users, role \in Role : Begin(r, "update", a, t, role, NoInvite, "guard")
    BY <1>1 DEF ArriveUpdate
  <2> QED
    BY DEF Begin, TypeOK, Idle
<1>2. CASE \E t \in Users : ArriveRemove(r, a, t)
  <2> PICK t \in Users : Begin(r, "remove", a, t, "member", NoInvite, "guard")
    BY <1>2 DEF ArriveRemove
  <2> QED
    BY DEF Begin, TypeOK, Idle
<1>3. CASE \E i \in Invites, role \in Role : ArriveInvite(r, a, role, i)
  <2> PICK i \in Invites, role \in Role \ {"owner"} : Begin(r, "invite", a, Founder, role, i, "guard")
    BY <1>3 DEF ArriveInvite
  <2> QED
    BY DEF Begin, TypeOK, Idle
<1>4. CASE \E i \in Invites : ArriveRevoke(r, a, i)
  <2> PICK i \in Invites : Begin(r, "revoke", a, Founder, "member", i, "guard")
    BY <1>4 DEF ArriveRevoke
  <2> QED
    BY DEF Begin, TypeOK, Idle
<1> QED
  BY <1>1, <1>2, <1>3, <1>4

LEMMA InviteArrive ==
  ASSUME InviteInv, NEW r \in Requests, Arrive(r)
  PROVE  InviteInv'
<1>0. TypeOK /\ TypeOK'
  BY ArriveType DEF InviteInv
<1>1. UNCHANGED <<roles, invites, redeemed, staleWrite>>
  BY DEF Arrive, ArriveUpdate, ArriveRemove, ArriveInvite, ArriveRevoke, ClaimInvite
<1>2. InviteRedeemedOnce'
  BY <1>1 DEF InviteInv, InviteRedeemedOnce
<1>3. CASE \E a \in Users, i \in Invites : ClaimInvite(r, a, i)
  <2> PICK a \in Users, i \in Invites : ClaimInvite(r, a, i)
    BY <1>3
  <2>1. invites[i].state = "open" /\ ~Claimed(i)
    BY DEF ClaimInvite
  <2>2. Begin(r, "accept", a, Founder, "member", i, "claimed")
    BY DEF ClaimInvite
  <2>3. /\ \A q \in Requests \ {r} : req'[q] = req[q]
        /\ req'[r].pc = "claimed" /\ req'[r].kind = "accept" /\ req'[r].invite = i
    BY <1>0, <2>2 DEF Begin, TypeOK, Idle
  <2>4. NoOwnerInvited' /\ ClaimedInvite'
    BY <1>1, <2>1, <2>3 DEF InviteInv, NoOwnerInvited, ClaimedInvite
  <2>5. ClaimedAlone'
    BY <2>1, <2>3 DEF InviteInv, ClaimedAlone, Claimed
  <2> QED
    BY <1>0, <1>2, <2>4, <2>5 DEF InviteInv
<1>4. CASE ~\E a \in Users, i \in Invites : ClaimInvite(r, a, i)
  <2>1. /\ \A q \in Requests \ {r} : req'[q] = req[q]
        /\ req'[r].pc = "guard"
        /\ req'[r].kind = "invite" => req'[r].role # "owner"
    BY <1>0, <1>4, ArriveEffect
  <2> QED
    BY <1>0, <1>1, <1>2, <2>1 DEF InviteInv, NoOwnerInvited, ClaimedInvite, ClaimedAlone
<1> QED
  BY <1>3, <1>4

LEMMA InviteServe ==
  ASSUME InviteInv, NEW r \in Requests, Serve(r) \/ Abandon(r)
  PROVE  InviteInv'
<1>0. TypeOK /\ TypeOK'
  BY ServeType, AbandonType DEF InviteInv
<1>1. \A q \in Requests : Onward(req'[q], req[q])
  BY <1>0, ServeOnward
<1>2. NoOwnerInvited'
  BY <1>1 DEF NoOwnerInvited, InviteInv, Onward, Idle
<1>3. \A q \in Requests : req'[q].pc = "claimed" =>
        req[q].pc = "claimed" /\ req'[q].invite = req[q].invite
  BY <1>1 DEF Onward, Idle
<1>4. ClaimedAlone'
  BY <1>3 DEF ClaimedAlone, InviteInv
<1>5. ClaimedInvite' /\ InviteRedeemedOnce'
  <2>1. CASE CreateInvite(r)
    <3>1. \A j \in Invites :
            \/ invites'[j] = invites[j]
            \/ invites[j].state = "absent" /\ invites'[j].state = "open"
      BY <2>1, <1>0 DEF CreateInvite, TypeOK, Invite
    <3>2. redeemed' = redeemed
      BY <2>1 DEF CreateInvite
    <3> QED
      BY <3>1, <3>2, <1>3 DEF InviteInv, ClaimedInvite, InviteRedeemedOnce
  <2>2. CASE RevokeInvite(r)
    <3>1. \A j \in Invites :
            \/ invites'[j] = invites[j]
            \/ ~Claimed(j) /\ invites[j].state # "accepted" /\ invites'[j].state = "revoked"
      BY <2>2, <1>0 DEF RevokeInvite, TypeOK, Invite
    <3>2. redeemed' = redeemed
      BY <2>2 DEF RevokeInvite
    <3> QED
      BY <3>1, <3>2, <1>3 DEF InviteInv, ClaimedInvite, InviteRedeemedOnce, Claimed
  <2>3. CASE CommitAccept(r)
    <3> DEFINE i == req[r].invite
    <3>1. /\ i \in Invites /\ req[r].actor \in Users
          /\ invites[i].state \in {"open", "expired"} /\ req[r].pc = "claimed"
      BY <2>3, <1>0 DEF CommitAccept, InviteInv, ClaimedInvite, TypeOK, Request
    <3>2. redeemed[i] = {}
      BY <3>1, <1>0 DEF InviteInv, InviteRedeemedOnce, TypeOK
    <3>3. /\ redeemed' = [redeemed EXCEPT ![i] = {req[r].actor}]
          /\ \A j \in Invites : invites'[j].state = IF j = i THEN "accepted" ELSE invites[j].state
      BY <2>3, <3>2, <1>0 DEF CommitAccept, TypeOK, Invite
    <3>4. InviteRedeemedOnce'
      BY <3>1, <3>3, <1>0 DEF InviteInv, InviteRedeemedOnce, TypeOK
    <3>5. req'[r] = Idle
      <4>1. PICK m : req' = Witness(Finish(r), m)
        BY <2>3 DEF CommitAccept
      <4>2. Finish(r)[r] = Idle /\ Idle.pc = "idle"
        BY <1>0, FinishOthers DEF Idle
      <4> QED
        BY <1>0, <4>1, <4>2, FinishType, WitnessSameWork
    <3>6. ClaimedInvite'
      BY <1>3, <3>1, <3>3, <3>5 DEF InviteInv, ClaimedInvite, ClaimedAlone, Idle
    <3> QED
      BY <3>4, <3>6
  <2>4. CASE UNCHANGED <<invites, redeemed>>
    BY <2>4, <1>3 DEF InviteInv, ClaimedInvite, InviteRedeemedOnce
  <2> QED
    BY <2>1, <2>2, <2>3, <2>4
    DEF Serve, Abandon, Guard, GuardOwner, CountOwnersForUpdate, ReadTargetForUpdate,
        WriteRole, ReadTargetForRemove, CountOwnersForRemove, DeleteMember, Write
<1> QED
  BY <1>0, <1>2, <1>4, <1>5 DEF InviteInv

LEMMA InviteExpire ==
  ASSUME InviteInv, NEW i \in Invites, Expire(i)
  PROVE  InviteInv'
<1>1. TypeOK /\ TypeOK'
  BY ExpireType DEF InviteInv
<1> QED
  BY <1>1 DEF InviteInv, Expire, NoOwnerInvited, ClaimedInvite, ClaimedAlone,
              InviteRedeemedOnce, TypeOK, Invite

LEMMA InviteNext == InviteInv /\ [Next]_vars => InviteInv'
<1> SUFFICES ASSUME InviteInv, [Next]_vars
             PROVE  InviteInv'
  OBVIOUS
<1>1. CASE Next
  BY <1>1, InviteArrive, InviteServe, InviteExpire DEF Next
<1>2. CASE UNCHANGED vars
  BY <1>2 DEF vars, InviteInv, TypeOK, NoOwnerInvited, ClaimedInvite, ClaimedAlone,
              InviteRedeemedOnce
<1> QED
  BY <1>1, <1>2

\* Rows and handler state stay well formed whatever the requests interleave to:
\* in particular no invitation ever offers the owner role (handleCreateInvite).
THEOREM TypeCorrect == Spec => []TypeOK
<1>1. InviteInv => TypeOK
  BY DEF InviteInv
<1> QED
  BY InviteInit, InviteNext, <1>1, PTL DEF Spec

\* An invitation lets in at most one person, and is marked accepted exactly when
\* it has (AcceptInvite's claim and insert commit together).
THEOREM InviteOnce == Spec => []InviteRedeemedOnce
<1>1. InviteInv => InviteRedeemedOnce
  BY DEF InviteInv
<1> QED
  BY InviteInit, InviteNext, <1>1, PTL DEF Spec

----------------------------------------------------------------------------
(* The last owner.  The inductive invariant says what a check in progress  *)
(* still knows: until it is overtaken, a member it may demote or remove is *)
(* not the only owner.                                                     *)

CheckHolds(q) ==
    /\ q.pc = "ownerGuard" => q.kind = "update" /\ q.role = "owner"
    /\ (~q.stale /\ q.kind = "update" /\ q.role # "owner" /\ q.pc = "target" /\ q.several)
          => SeveralOwners(roles)
    /\ (~q.stale /\ Checking(q) /\ q.pc = "write" /\ q.target \in Owners(roles))
          => SeveralOwners(roles)

OwnerInv ==
    /\ InviteInv
    /\ \A r \in Requests : CheckHolds(req[r])
    /\ OwnerKeptUnlessOvertaken

LEMMA IdleCheckHolds == CheckHolds(Idle) /\ CheckHolds(Idle)'
  BY DEF CheckHolds, Idle, Checking

LEMMA OwnerInit == Init => OwnerInv
<1> SUFFICES ASSUME Init
             PROVE  OwnerInv
  OBVIOUS
<1>1. InviteInv
  BY InviteInit
<1>2. \A r \in Requests : req[r] = Idle
  BY DEF Init
<1>3. Founder \in Owners(roles)
  BY FounderAssumption DEF Init, Owners
<1> QED
  BY <1>1, <1>2, <1>3, IdleCheckHolds DEF OwnerInv, OwnerKeptUnlessOvertaken

\* A check survives a change of the roster unless it is marked as overtaken.
LEMMA WitnessCheckHolds ==
  ASSUME TypeOK, \A q \in Requests : CheckHolds(req[q]), NEW r \in Requests,
         roles' \in [Users -> Role \cup {"none"}], req' = Witness(Finish(r), roles')
  PROVE  \A q \in Requests : CheckHolds(req[q])'
<1> SUFFICES ASSUME NEW q \in Requests
             PROVE  CheckHolds(req[q])'
  OBVIOUS
<1>1. Finish(r)[q] = IF q = r THEN Idle ELSE req[q]
  BY FinishOthers
<1>2. /\ SameWork(req'[q], Finish(r)[q])
      /\ Finish(r)[q].pc = "idle" => req'[q] = Finish(r)[q]
      /\ Finish(r)[q].pc # "idle" =>
           req'[q].stale = (Finish(r)[q].stale \/
                              (Checking(Finish(r)[q]) /\ Owners(roles') # Owners(roles)))
  BY FinishType, WitnessSameWork
<1>3. CASE Finish(r)[q].pc = "idle"
  BY <1>1, <1>2, <1>3 DEF CheckHolds, Checking, Idle
<1>4. CASE Finish(r)[q].pc # "idle"
  <2>1. q # r
    BY <1>1, <1>4 DEF Idle
  <2>2. /\ SameWork(req'[q], req[q]) /\ CheckHolds(req[q])
        /\ req'[q].stale = (req[q].stale \/ (Checking(req[q]) /\ Owners(roles') # Owners(roles)))
    BY <2>1, <1>1, <1>2, <1>4
  <2>3. CASE Owners(roles') = Owners(roles)
    <3>1. SeveralOwners(roles') = SeveralOwners(roles)
      BY <2>3 DEF SeveralOwners
    <3> QED
      BY <2>2, <2>3, <3>1 DEF CheckHolds, Checking, SameWork
  <2>4. CASE Owners(roles') # Owners(roles)
    BY <2>2, <2>4 DEF CheckHolds, Checking, SameWork
  <2> QED
    BY <2>3, <2>4
<1> QED
  BY <1>3, <1>4

\* A step that leaves the roster alone keeps every check of the other requests.
LEMMA QuietCheckHolds ==
  ASSUME \A q \in Requests : CheckHolds(req[q]), NEW r \in Requests, UNCHANGED roles,
         \A q \in Requests \ {r} : req'[q] = req[q], CheckHolds(req[r])'
  PROVE  \A q \in Requests : CheckHolds(req[q])'
<1> SUFFICES ASSUME NEW q \in Requests, q # r
             PROVE  CheckHolds(req[q])'
  OBVIOUS
<1> QED
  BY DEF CheckHolds, Checking, SeveralOwners, Owners

\* Ending a request, or moving it on, with the roster left alone.
LEMMA FinishCheckHolds ==
  ASSUME TypeOK, \A q \in Requests : CheckHolds(req[q]), NEW r \in Requests,
         UNCHANGED roles, req' = Finish(r)
  PROVE  \A q \in Requests : CheckHolds(req[q])'
<1>1. req'[r] = Idle /\ \A q \in Requests \ {r} : req'[q] = req[q]
  BY FinishOthers
<1>2. CheckHolds(req[r])'
  BY <1>1 DEF CheckHolds, Checking, Idle
<1> QED
  BY <1>1, <1>2, QuietCheckHolds

LEMMA GotoEffect ==
  ASSUME TypeOK, NEW r \in Requests, NEW step, req' = Goto(r, step)
  PROVE  /\ req'[r] = [req[r] EXCEPT !.pc = step]
         /\ \A q \in Requests \ {r} : req'[q] = req[q]
  BY DEF Goto, TypeOK

LEMMA OwnerArrive ==
  ASSUME OwnerInv, NEW r \in Requests, Arrive(r)
  PROVE  OwnerInv'
<1>0. TypeOK /\ InviteInv'
  BY InviteArrive DEF OwnerInv, InviteInv
<1>1. UNCHANGED <<roles, staleWrite>>
  BY DEF Arrive, ArriveUpdate, ArriveRemove, ArriveInvite, ArriveRevoke, ClaimInvite
<1>2. /\ \A q \in Requests \ {r} : req'[q] = req[q]
      /\ req'[r].pc \in {"guard", "claimed"}
  <2>1. CASE \E a \in Users, i \in Invites : ClaimInvite(r, a, i)
    <3> PICK a \in Users, i \in Invites : ClaimInvite(r, a, i)
      BY <2>1
    <3> QED
      BY <1>0 DEF ClaimInvite, Begin, TypeOK, Idle
  <2>2. CASE ~\E a \in Users, i \in Invites : ClaimInvite(r, a, i)
    BY <1>0, <2>2, ArriveEffect
  <2> QED
    BY <2>1, <2>2
<1>3. CheckHolds(req[r])'
  BY <1>2 DEF CheckHolds, Checking
<1>4. \A q \in Requests : CheckHolds(req[q])'
  BY <1>1, <1>2, <1>3, QuietCheckHolds DEF OwnerInv
<1>5. OwnerKeptUnlessOvertaken'
  BY <1>1 DEF OwnerInv, OwnerKeptUnlessOvertaken, Owners
<1> QED
  BY <1>0, <1>4, <1>5 DEF OwnerInv

\* The reads of a check leave behind what CheckHolds says they saw.
LEMMA OwnerRead ==
  ASSUME OwnerInv, NEW r \in Requests,
         \/ Guard(r) \/ GuardOwner(r) \/ CountOwnersForUpdate(r) \/ ReadTargetForUpdate(r)
         \/ ReadTargetForRemove(r) \/ CountOwnersForRemove(r)
  PROVE  \A q \in Requests : CheckHolds(req[q])'
<1>0. TypeOK /\ CheckHolds(req[r]) /\ req[r] \in Request
  BY DEF OwnerInv, InviteInv, TypeOK
<1>1. UNCHANGED roles
  BY DEF Guard, GuardOwner, CountOwnersForUpdate, ReadTargetForUpdate,
         ReadTargetForRemove, CountOwnersForRemove
<1>2. CASE req' = Finish(r)
  BY <1>0, <1>1, <1>2, FinishCheckHolds DEF OwnerInv
<1>3. CASE req' # Finish(r)
  <2>1. \A q \in Requests \ {r} : req'[q] = req[q]
    BY <1>0, <1>3, GotoEffect
    DEF Guard, GuardOwner, CountOwnersForUpdate, ReadTargetForUpdate,
        ReadTargetForRemove, CountOwnersForRemove, TypeOK
  <2> SUFFICES CheckHolds(req[r])'
    BY <1>1, <2>1, QuietCheckHolds DEF OwnerInv
  <2>2. CASE Guard(r)
    <3>1. req'[r] = [req[r] EXCEPT !.pc = AfterGuard(req[r])]
      BY <1>0, <1>3, <2>2, GotoEffect DEF Guard
    <3> QED
      BY <1>0, <3>1 DEF CheckHolds, Checking, AfterGuard, Request
  <2>3. CASE GuardOwner(r)
    <3>1. req'[r] = [req[r] EXCEPT !.pc = "write"] /\ req[r].pc = "ownerGuard"
      BY <1>0, <1>3, <2>3, GotoEffect DEF GuardOwner
    <3> QED
      BY <1>0, <3>1 DEF CheckHolds, Checking, Request
  <2>4. CASE CountOwnersForUpdate(r)
    <3>1. req'[r] = [req[r] EXCEPT !.pc = "target", !.several = SeveralOwners(roles)]
      BY <1>0, <2>4 DEF CountOwnersForUpdate, TypeOK
    <3> QED
      BY <1>0, <1>1, <3>1 DEF CheckHolds, Checking, SeveralOwners, Owners, Request
  <2>5. CASE ReadTargetForUpdate(r)
    <3>1. /\ req'[r] = [req[r] EXCEPT !.pc = "write", !.several = FALSE]
          /\ req[r].pc = "target" /\ req[r].kind = "update"
          /\ roles[req[r].target] = "owner" => req[r].several
      BY <1>0, <1>3, <2>5 DEF ReadTargetForUpdate, TypeOK
    <3> QED
      BY <1>0, <1>1, <3>1 DEF CheckHolds, Checking, SeveralOwners, Owners, Request
  <2>6. CASE ReadTargetForRemove(r)
    <3>1. /\ req'[r] = [req[r] EXCEPT !.pc = IF roles[req[r].target] = "owner"
                                            THEN "count" ELSE "write"]
          /\ req[r].kind = "remove"
      BY <1>0, <1>3, <2>6, GotoEffect DEF ReadTargetForRemove
    <3> QED
      BY <1>0, <1>1, <3>1 DEF CheckHolds, Checking, Owners, Request
  <2>7. CASE CountOwnersForRemove(r)
    <3>1. /\ req'[r] = [req[r] EXCEPT !.pc = "write"] /\ SeveralOwners(roles)
          /\ req[r].kind = "remove"
      BY <1>0, <1>3, <2>7, GotoEffect DEF CountOwnersForRemove
    <3> QED
      BY <1>0, <1>1, <3>1 DEF CheckHolds, Checking, SeveralOwners, Owners, Request
  <2> QED
    BY <2>2, <2>3, <2>4, <2>5, <2>6, <2>7
<1> QED
  BY <1>2, <1>3

\* The write of a check that was not overtaken leaves an owner.
LEMMA OwnerWrite ==
  ASSUME OwnerInv, NEW r \in Requests, WriteRole(r) \/ DeleteMember(r)
  PROVE  (\A q \in Requests : CheckHolds(req[q])') /\ OwnerKeptUnlessOvertaken'
<1>0. /\ TypeOK /\ TypeOK' /\ CheckHolds(req[r]) /\ req[r] \in Request
      /\ OwnerKeptUnlessOvertaken
  BY InviteServe DEF OwnerInv, InviteInv, TypeOK, Serve
<1>1. /\ req' = Witness(Finish(r), roles')
      /\ staleWrite' = (staleWrite \/ req[r].stale)
  BY DEF WriteRole, DeleteMember, Write
<1>2. \A q \in Requests : CheckHolds(req[q])'
  BY <1>0, <1>1, WitnessCheckHolds DEF OwnerInv, TypeOK
<1>3. ASSUME ~staleWrite, ~req[r].stale
      PROVE  Owners(roles') # {}
  <2>0. PICK o \in Users : o \in Owners(roles)
    BY <1>0, <1>3 DEF OwnerKeptUnlessOvertaken, Owners
  <2>1. CASE WriteRole(r) /\ req[r].role = "owner"
    BY <1>0, <2>0, <2>1 DEF WriteRole, Write, Owners, TypeOK
  <2>2. CASE (WriteRole(r) /\ req[r].role # "owner") \/ DeleteMember(r)
    <3>1. \A u \in Users \ {req[r].target} : roles'[u] = roles[u]
      BY <1>0, <2>2 DEF WriteRole, DeleteMember, Write, TypeOK
    <3>2. req[r].pc = "write" /\ Checking(req[r])
      BY <2>2 DEF WriteRole, DeleteMember, Checking
    <3>3. PICK u \in Owners(roles) : u # req[r].target
      BY <1>0, <1>3, <2>0, <3>2 DEF CheckHolds, SeveralOwners
    <3> QED
      BY <3>1, <3>3 DEF Owners
  <2> QED
    BY <2>1, <2>2
<1> QED
  BY <1>0, <1>1, <1>2, <1>3 DEF OwnerKeptUnlessOvertaken, TypeOK, Request

LEMMA OwnerServe ==
  ASSUME OwnerInv, NEW r \in Requests, Serve(r) \/ Abandon(r)
  PROVE  OwnerInv'
<1>0. TypeOK /\ TypeOK' /\ InviteInv'
  BY InviteServe DEF OwnerInv, InviteInv
<1>1. CASE \/ Guard(r) \/ GuardOwner(r) \/ CountOwnersForUpdate(r)
           \/ ReadTargetForUpdate(r) \/ ReadTargetForRemove(r) \/ CountOwnersForRemove(r)
  <2>1. UNCHANGED <<roles, staleWrite>>
    BY <1>1 DEF Guard, GuardOwner, CountOwnersForUpdate, ReadTargetForUpdate,
                ReadTargetForRemove, CountOwnersForRemove
  <2> QED
    BY <1>0, <1>1, <2>1, OwnerRead DEF OwnerInv, OwnerKeptUnlessOvertaken, Owners
<1>2. CASE WriteRole(r) \/ DeleteMember(r)
  BY <1>0, <1>2, OwnerWrite DEF OwnerInv
<1>3. CASE CreateInvite(r) \/ RevokeInvite(r) \/ Abandon(r)
  <2>1. UNCHANGED <<roles, staleWrite>> /\ req' = Finish(r)
    BY <1>3 DEF CreateInvite, RevokeInvite, Abandon
  <2>2. \A q \in Requests : CheckHolds(req[q])'
    BY <1>0, <2>1, FinishCheckHolds DEF OwnerInv
  <2> QED
    BY <1>0, <2>1, <2>2 DEF OwnerInv, OwnerKeptUnlessOvertaken, Owners
<1>4. CASE CommitAccept(r)
  <2>1. req' = Witness(Finish(r), roles') /\ UNCHANGED staleWrite
    BY <1>4 DEF CommitAccept
  <2>2. \A q \in Requests : CheckHolds(req[q])'
    BY <1>0, <2>1, WitnessCheckHolds DEF OwnerInv, TypeOK
  <2>3. \A u \in Owners(roles) : u \in Owners(roles')
    BY <1>0, <1>4 DEF CommitAccept, Owners, TypeOK
  <2> QED
    BY <1>0, <2>1, <2>2, <2>3 DEF OwnerInv, OwnerKeptUnlessOvertaken
<1> QED
  BY <1>1, <1>2, <1>3, <1>4 DEF Serve

LEMMA OwnerNext == OwnerInv /\ [Next]_vars => OwnerInv'
<1> SUFFICES ASSUME OwnerInv, [Next]_vars
             PROVE  OwnerInv'
  OBVIOUS
<1>1. InviteInv'
  BY InviteNext DEF OwnerInv
<1>2. CASE UNCHANGED <<roles, req, staleWrite>>
  BY <1>1, <1>2 DEF OwnerInv, CheckHolds, Checking, SeveralOwners, Owners,
                    OwnerKeptUnlessOvertaken
<1>3. CASE \E r \in Requests : Arrive(r) \/ Serve(r) \/ Abandon(r)
  BY <1>3, OwnerArrive, OwnerServe
<1> QED
  BY <1>2, <1>3 DEF Next, Expire, vars

\* However many requests overlap, the last owner goes only in a write whose check
\* of the owners was overtaken by another change of owners (SetMemberRole and
\* RemoveMember read and write without a transaction).
THEOREM OwnerKept == Spec => []OwnerKeptUnlessOvertaken
<1>1. OwnerInv => OwnerKeptUnlessOvertaken
  BY DEF OwnerInv
<1> QED
  BY OwnerInit, OwnerNext, <1>1, PTL DEF Spec

----------------------------------------------------------------------------
(* The roster's writes.  The inductive invariant follows a request's right *)
(* to write from the guard to the write: `ranked' records every rank its   *)
(* actor held meanwhile, and past the guards it is set.                    *)

Earned(q) ==
    /\ q.pc = "guard" => q.kind # "accept"
    /\ (q.pc # "idle" /\ HoldsRank(q.kind, q.role, roles, q.actor)) => q.ranked
    /\ q.pc = "ownerGuard" => q.kind = "update" /\ q.role = "owner"
    /\ q.pc \in {"count", "target", "write"} => q.ranked

RankInv ==
    /\ InviteInv
    /\ \A r \in Requests : Earned(req[r])

LEMMA RankInit == Init => RankInv
<1> SUFFICES ASSUME Init
             PROVE  RankInv
  OBVIOUS
<1>1. \A r \in Requests : req[r] = Idle
  BY DEF Init
<1>2. Earned(Idle)
  BY DEF Earned, Idle
<1> QED
  BY <1>1, <1>2, InviteInit DEF RankInv

\* A begun request has recorded the rank its actor holds.
LEMMA BeginEarned ==
  ASSUME TypeOK, NEW r \in Requests, NEW kind, NEW a, NEW t, NEW role, NEW i,
         NEW step \in {"guard", "claimed"}, step = "guard" => kind # "accept",
         UNCHANGED roles, Begin(r, kind, a, t, role, i, step)
  PROVE  Earned(req[r])' /\ \A q \in Requests \ {r} : req'[q] = req[q]
<1> DEFINE held == HoldsRank(kind, role, roles, a)
           q == [Idle EXCEPT !.pc = step, !.kind = kind, !.actor = a, !.target = t,
                             !.role = role, !.invite = i, !.ranked = held]
<1>1. req'[r] = q
  BY DEF Begin, TypeOK
<1>2. /\ q.pc = step /\ q.kind = kind /\ q.role = role /\ q.actor = a /\ q.ranked = held
  BY DEF Idle
<1> HIDE DEF q
<1>3. HoldsRank(req'[r].kind, req'[r].role, roles', req'[r].actor) = held
  BY <1>1, <1>2
<1>4. \A s \in Requests \ {r} : req'[s] = req[s]
  BY DEF Begin, TypeOK
<1> QED
  BY <1>1, <1>2, <1>3, <1>4 DEF Earned

\* A step that leaves the roster alone keeps what the other requests earned.
LEMMA QuietEarned ==
  ASSUME \A q \in Requests : Earned(req[q]), NEW r \in Requests, UNCHANGED roles,
         \A q \in Requests \ {r} : req'[q] = req[q], Earned(req[r])'
  PROVE  \A q \in Requests : Earned(req[q])'
<1> SUFFICES ASSUME NEW q \in Requests, q # r
             PROVE  Earned(req[q])'
  OBVIOUS
<1> QED
  BY DEF Earned, HoldsRank

LEMMA FinishEarned ==
  ASSUME TypeOK, \A q \in Requests : Earned(req[q]), NEW r \in Requests,
         UNCHANGED roles, req' = Finish(r)
  PROVE  \A q \in Requests : Earned(req[q])'
<1>1. req'[r] = Idle /\ \A q \in Requests \ {r} : req'[q] = req[q]
  BY FinishOthers
<1>2. Earned(req[r])'
  BY <1>1 DEF Earned, Idle
<1> QED
  BY <1>1, <1>2, QuietEarned

\* A change of the roster is witnessed by every request in flight.
LEMMA WitnessEarned ==
  ASSUME TypeOK, \A q \in Requests : Earned(req[q]), NEW r \in Requests,
         req' = Witness(Finish(r), roles')
  PROVE  \A q \in Requests : Earned(req[q])'
<1> SUFFICES ASSUME NEW q \in Requests
             PROVE  Earned(req[q])'
  OBVIOUS
<1>1. Finish(r)[q] = IF q = r THEN Idle ELSE req[q]
  BY FinishOthers
<1>2. /\ SameWork(req'[q], Finish(r)[q])
      /\ Finish(r)[q].pc = "idle" => req'[q] = Finish(r)[q]
  BY FinishType, WitnessSameWork
<1>3. CASE Finish(r)[q].pc = "idle"
  BY <1>2, <1>3 DEF Earned
<1>4. CASE Finish(r)[q].pc # "idle"
  <2> DEFINE held == HoldsRank(req[q].kind, req[q].role, roles', req[q].actor)
  <2>1. Finish(r)[q] = req[q]
    BY <1>1, <1>4 DEF Idle
  <2>2. req'[q].ranked = (req[q].ranked \/ held)
    BY <1>4, <2>1, FinishType, WitnessRanked
  <2>3. SameWork(req'[q], req[q])
    BY <1>2, <2>1
  <2>4. HoldsRank(req'[q].kind, req'[q].role, roles', req'[q].actor) = held
    BY <2>3 DEF SameWork
  <2> HIDE DEF held
  <2> QED
    BY <2>2, <2>3, <2>4 DEF Earned, SameWork
<1> QED
  BY <1>3, <1>4

LEMMA RankArrive ==
  ASSUME RankInv, NEW r \in Requests, Arrive(r)
  PROVE  \A q \in Requests : Earned(req[q])'
<1>0. TypeOK
  BY DEF RankInv, InviteInv
<1>1. UNCHANGED roles
  BY DEF Arrive, ArriveUpdate, ArriveRemove, ArriveInvite, ArriveRevoke, ClaimInvite
<1>2. Earned(req[r])' /\ \A q \in Requests \ {r} : req'[q] = req[q]
  <2> PICK a \in Users :
        \/ \E t \in Users, role \in Role : ArriveUpdate(r, a, t, role)
        \/ \E t \in Users : ArriveRemove(r, a, t)
        \/ \E i \in Invites, role \in Role : ArriveInvite(r, a, role, i)
        \/ \E i \in Invites : ArriveRevoke(r, a, i)
        \/ \E i \in Invites : ClaimInvite(r, a, i)
    BY DEF Arrive
  <2>1. CASE \E t \in Users, role \in Role : ArriveUpdate(r, a, t, role)
    BY <1>0, <1>1, <2>1, BeginEarned DEF ArriveUpdate
  <2>2. CASE \E t \in Users : ArriveRemove(r, a, t)
    BY <1>0, <1>1, <2>2, BeginEarned DEF ArriveRemove
  <2>3. CASE \E i \in Invites, role \in Role : ArriveInvite(r, a, role, i)
    BY <1>0, <1>1, <2>3, BeginEarned DEF ArriveInvite
  <2>4. CASE \E i \in Invites : ArriveRevoke(r, a, i)
    BY <1>0, <1>1, <2>4, BeginEarned DEF ArriveRevoke
  <2>5. CASE \E i \in Invites : ClaimInvite(r, a, i)
    BY <1>0, <1>1, <2>5, BeginEarned DEF ClaimInvite
  <2> QED
    BY <2>1, <2>2, <2>3, <2>4, <2>5
<1> QED
  BY <1>1, <1>2, QuietEarned DEF RankInv

\* The guards let a request on only with the rank its write needs.
LEMMA RankRead ==
  ASSUME RankInv, NEW r \in Requests,
         \/ Guard(r) \/ GuardOwner(r) \/ CountOwnersForUpdate(r) \/ ReadTargetForUpdate(r)
         \/ ReadTargetForRemove(r) \/ CountOwnersForRemove(r)
  PROVE  \A q \in Requests : Earned(req[q])'
<1>0. TypeOK /\ Earned(req[r]) /\ req[r] \in Request
  BY DEF RankInv, InviteInv, TypeOK
<1>1. UNCHANGED roles
  BY DEF Guard, GuardOwner, CountOwnersForUpdate, ReadTargetForUpdate,
         ReadTargetForRemove, CountOwnersForRemove
<1>2. CASE req' = Finish(r)
  BY <1>0, <1>1, <1>2, FinishEarned DEF RankInv
<1>3. CASE req' # Finish(r)
  <2>1. \A q \in Requests \ {r} : req'[q] = req[q]
    BY <1>0, <1>3, GotoEffect
    DEF Guard, GuardOwner, CountOwnersForUpdate, ReadTargetForUpdate,
        ReadTargetForRemove, CountOwnersForRemove, TypeOK
  <2> SUFFICES Earned(req[r])'
    BY <1>1, <2>1, QuietEarned DEF RankInv
  <2>2. CASE Guard(r)
    <3>1. /\ req'[r] = [req[r] EXCEPT !.pc = AfterGuard(req[r])]
          /\ req[r].pc = "guard" /\ AtLeast(roles[req[r].actor], "admin")
      BY <1>0, <1>3, <2>2, GotoEffect DEF Guard
    <3> DEFINE q == req[r]
    <3>2. /\ req'[r].kind = q.kind /\ req'[r].role = q.role /\ req'[r].actor = q.actor
          /\ req'[r].ranked = q.ranked /\ req'[r].pc = AfterGuard(q)
      BY <1>0, <3>1 DEF Request
    <3>3. HoldsRank(q.kind, q.role, roles, q.actor) => q.ranked
      BY <1>0, <3>1 DEF Earned
    <3>4. CASE q.kind = "update" /\ q.role = "owner"
      BY <1>1, <3>2, <3>3, <3>4 DEF Earned, AfterGuard
    <3>5. CASE q.kind # "accept" /\ ~(q.kind = "update" /\ q.role = "owner")
      <4>1. q.ranked
        BY <3>1, <3>3, <3>5 DEF HoldsRank
      <4>2. req'[r].pc \notin {"guard", "ownerGuard"}
        BY <3>2, <3>5 DEF AfterGuard
      <4> QED
        BY <3>2, <4>1, <4>2 DEF Earned
    <3>6. q.kind # "accept"
      BY <1>0, <3>1 DEF Earned
    <3> QED
      BY <3>4, <3>5, <3>6
  <2>3. CASE GuardOwner(r)
    <3>1. /\ req'[r] = [req[r] EXCEPT !.pc = "write"] /\ req[r].pc = "ownerGuard"
          /\ roles[req[r].actor] = "owner"
      BY <1>0, <1>3, <2>3, GotoEffect DEF GuardOwner
    <3>2. req[r].kind = "update" /\ req[r].role = "owner"
      BY <1>0, <3>1 DEF Earned
    <3>3. HoldsRank("update", "owner", roles, req[r].actor)
      BY <3>1 DEF HoldsRank, AtLeast, roleRank
    <3>4. req[r].ranked
      BY <1>0, <3>1, <3>2, <3>3 DEF Earned
    <3> QED
      BY <1>0, <3>1, <3>4 DEF Earned, Request
  <2>4. CASE \/ CountOwnersForUpdate(r) \/ ReadTargetForUpdate(r)
             \/ ReadTargetForRemove(r) \/ CountOwnersForRemove(r)
    <3>1. req[r].pc \in {"count", "target"} /\ req[r].kind \in {"update", "remove"}
      BY <2>4 DEF CountOwnersForUpdate, ReadTargetForUpdate, ReadTargetForRemove,
                  CountOwnersForRemove
    <3>2. req[r].ranked
      BY <1>0, <3>1 DEF Earned
    <3>3. req'[r].ranked /\ req'[r].pc \notin {"guard", "ownerGuard"}
      <4>1. CASE CountOwnersForUpdate(r)
        <5>1. req'[r] = [req[r] EXCEPT !.pc = "target", !.several = SeveralOwners(roles)]
          BY <1>0, <4>1 DEF CountOwnersForUpdate, TypeOK
        <5> QED
          BY <1>0, <3>2, <5>1 DEF Request
      <4>2. CASE ReadTargetForUpdate(r)
        <5>1. req'[r] = [req[r] EXCEPT !.pc = "write", !.several = FALSE]
          BY <1>0, <1>3, <4>2 DEF ReadTargetForUpdate, TypeOK
        <5> QED
          BY <1>0, <3>2, <5>1 DEF Request
      <4>3. CASE ReadTargetForRemove(r) \/ CountOwnersForRemove(r)
        <5>1. \E step \in {"count", "write"} : req'[r] = [req[r] EXCEPT !.pc = step]
          BY <1>0, <1>3, <4>3, GotoEffect DEF ReadTargetForRemove, CountOwnersForRemove
        <5> QED
          BY <1>0, <3>2, <5>1 DEF Request
      <4> QED
        BY <2>4, <4>1, <4>2, <4>3
    <3> QED
      BY <3>3 DEF Earned
  <2> QED
    BY <2>2, <2>3, <2>4
<1> QED
  BY <1>2, <1>3

LEMMA RankNext == RankInv /\ [Next]_vars => RankInv'
<1> SUFFICES ASSUME RankInv, [Next]_vars
             PROVE  RankInv'
  OBVIOUS
<1>0. TypeOK /\ InviteInv' /\ \A q \in Requests : Earned(req[q])
  BY InviteNext DEF RankInv, InviteInv
<1>1. CASE UNCHANGED <<roles, req>>
  BY <1>0, <1>1 DEF RankInv, Earned, HoldsRank
<1>2. ASSUME NEW r \in Requests, Arrive(r)
      PROVE  RankInv'
  BY <1>0, <1>2, RankArrive DEF RankInv
<1>3. ASSUME NEW r \in Requests, Serve(r) \/ Abandon(r)
      PROVE  RankInv'
  <2>1. CASE \/ Guard(r) \/ GuardOwner(r) \/ CountOwnersForUpdate(r)
             \/ ReadTargetForUpdate(r) \/ ReadTargetForRemove(r) \/ CountOwnersForRemove(r)
    BY <1>0, <2>1, RankRead DEF RankInv
  <2>2. CASE WriteRole(r) \/ DeleteMember(r) \/ CommitAccept(r)
    <3>1. req' = Witness(Finish(r), roles')
      BY <2>2 DEF WriteRole, DeleteMember, Write, CommitAccept
    <3> QED
      BY <1>0, <3>1, WitnessEarned DEF RankInv
  <2>3. CASE CreateInvite(r) \/ RevokeInvite(r) \/ Abandon(r)
    <3>1. UNCHANGED roles /\ req' = Finish(r)
      BY <2>3 DEF CreateInvite, RevokeInvite, Abandon
    <3> QED
      BY <1>0, <3>1, FinishEarned DEF RankInv
  <2> QED
    BY <1>3, <2>1, <2>2, <2>3 DEF Serve
<1> QED
  BY <1>1, <1>2, <1>3 DEF Next, Expire, vars

\* Only three statements change the roster.
LEMMA RosterWriters ==
  ASSUME [Next]_vars, roles' # roles
  PROVE  \E r \in Requests : WriteRole(r) \/ DeleteMember(r) \/ CommitAccept(r)
  BY DEF Next, Arrive, ArriveUpdate, ArriveRemove, ArriveInvite, ArriveRevoke, ClaimInvite,
         Serve, Guard, GuardOwner, CountOwnersForUpdate, ReadTargetForUpdate,
         ReadTargetForRemove, CountOwnersForRemove, CreateInvite, RevokeInvite, Abandon,
         Expire, vars

\* A role is changed or removed, and an invitation made or revoked, only for an actor
\* who held the needed rank while the request was being served: requireOrg reads the
\* role on every request.
THEOREM WritesAuthorized == Spec => WritesWereAuthorized
<1>1. RankInv => \A r \in Requests : req[r].pc = "write" => req[r].ranked
  BY DEF RankInv, Earned
<1>2. (\A r \in Requests : req[r].pc = "write" => req[r].ranked) /\ [Next]_vars =>
        [\A r \in Requests :
            (req[r].pc = "write" /\ req'[r].pc = "idle"
               /\ (roles' # roles \/ invites' # invites))
               => req[r].ranked]_vars
  OBVIOUS
<1> QED
  BY RankInit, RankNext, <1>1, <1>2, PTL DEF Spec, WritesWereAuthorized

LEMMA StepJoins ==
  ASSUME InviteInv, [Next]_vars, NEW u \in Users, roles[u] = "none", roles'[u] # "none"
  PROVE  \E i \in Invites : /\ redeemed'[i] # redeemed[i] /\ u \in redeemed'[i]
                            /\ roles'[u] = invites[i].role
<1>0. TypeOK
  BY DEF InviteInv
<1>1. PICK r \in Requests : WriteRole(r) \/ DeleteMember(r) \/ CommitAccept(r)
  BY RosterWriters
<1>2. CommitAccept(r)
  BY <1>0, <1>1 DEF WriteRole, DeleteMember, Write, TypeOK
<1> DEFINE i == req[r].invite
<1>3. /\ req[r].pc = "claimed" /\ i \in Invites /\ invites[i].state # "accepted"
  BY <1>2 DEF CommitAccept, InviteInv, ClaimedInvite
<1>4. redeemed[i] = {}
  BY <1>3 DEF InviteInv, InviteRedeemedOnce
<1>5. redeemed'[i] = {req[r].actor}
  BY <1>0, <1>2, <1>3, <1>4 DEF CommitAccept, TypeOK
<1>6. u = req[r].actor /\ roles'[u] = invites[i].role
  BY <1>0, <1>2 DEF CommitAccept, TypeOK
<1> QED
  BY <1>3, <1>4, <1>5, <1>6

\* Nobody becomes a member but by an invitation used up in the same step, and in
\* the role it offers (SetMemberRole's UPDATE adds no row, AcceptInvite's INSERT does).
THEOREM Joins == Spec => JoinsOnlyByInvite
<1>1. InviteInv /\ [Next]_vars =>
        [\A u \in Users :
            (roles[u] = "none" /\ roles'[u] # "none")
               => \E i \in Invites : /\ redeemed'[i] # redeemed[i] /\ u \in redeemed'[i]
                                     /\ roles'[u] = invites[i].role]_vars
  BY StepJoins
<1> QED
  BY InviteInit, InviteNext, <1>1, PTL DEF Spec, JoinsOnlyByInvite
=============================================================================
