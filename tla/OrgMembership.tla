--------------------------- MODULE OrgMembership ---------------------------
(***************************************************************************)
(* The people of one organization: the rows of org_members and org_invites *)
(* and the HTTP requests that change them (backend/internal/store/orgs.go, *)
(* backend/internal/api/handlers_orgs.go, backend/internal/auth/guard.go). *)
(*                                                                         *)
(* Every store method issues its statements on the connection pool, so each*)
(* SELECT, UPDATE or DELETE is a transaction of its own: a request is a    *)
(* record of the handler's local state and each statement is one action.   *)
(* Only AcceptInvite opens a transaction; the row lock its claim takes     *)
(* lasts until the commit.  Organizations share no rows, so one is enough. *)
(***************************************************************************)
EXTENDS Integers

CONSTANTS Users,      \* people with an account on the platform
          Founder,    \* who created the organization, its first owner
          Requests,   \* slots for requests being served at the same time
          Invites,    \* rows org_invites may come to hold
          NoInvite    \* the invite of a request that is not about one

ASSUME FounderAssumption == Founder \in Users
ASSUME NoInviteAssumption == NoInvite \notin Invites

VARIABLES
    roles,       \* org_members: the role of each user, "none" without a row
    invites,     \* org_invites: the role offered, and what became of the row
    req,         \* the handler's local state, one record per request slot
    redeemed,    \* history: the users each invite has let in
    staleWrite   \* history: a write went ahead on a check the owners outlived

vars == <<roles, invites, req, redeemed, staleWrite>>

----------------------------------------------------------------------------
(* Roles                                                                   *)

\* "member" stands for developer and viewer: no handler here tells them apart.
Role == {"member", "admin", "owner"}
InviteRole == Role \ {"owner"}
roleRank == [none |-> 0, member |-> 1, admin |-> 2, owner |-> 3]

AtLeast(role, required) == roleRank[role] >= roleRank[required]

Owners(m) == {u \in Users : m[u] = "owner"}

\* SELECT count(*) ... WHERE role='owner' is only ever compared with 1.
SeveralOwners(m) == \E u, v \in Owners(m) : u # v

----------------------------------------------------------------------------
(* Invitations and requests                                                *)

InviteState == {"absent", "open", "expired", "accepted", "revoked"}
Invite == [state : InviteState, role : InviteRole]

Kind == {"update", "remove", "invite", "revoke", "accept"}
Step == {"idle", "guard", "ownerGuard", "count", "target", "write", "claimed"}

Request ==
    [pc : Step, kind : Kind, actor : Users, target : Users, role : Role,
     invite : Invites \cup {NoInvite},
     several : BOOLEAN,   \* what the owner count said
     stale   : BOOLEAN,   \* history: the owners changed since the check first read
     ranked  : BOOLEAN]   \* history: the actor has held the rank the write needs

Idle == [pc |-> "idle", kind |-> "update", actor |-> Founder, target |-> Founder,
         role |-> "member", invite |-> NoInvite, several |-> FALSE,
         stale |-> FALSE, ranked |-> FALSE]

\* What a write to the roster or to the invitations needs: an owner to make an owner,
\* else an admin, and whoever holds the link to accept one.
HoldsRank(kind, role, m, a) ==
    kind # "accept"
        /\ AtLeast(m[a], IF kind = "update" /\ role = "owner" THEN "owner" ELSE "admin")

\* The last-owner check has read something that its write will rest on.
Checking(q) ==
    \/ q.kind = "update" /\ q.role # "owner" /\ q.pc \in {"target", "write"}
    \/ q.kind = "remove" /\ q.pc \in {"count", "write"}

Finish(r) == [req EXCEPT ![r] = Idle]

Goto(r, step) == [req EXCEPT ![r].pc = step]

\* The history fields of the requests in flight after the roles become m.
Witness(rs, m) ==
    [q \in Requests |->
        IF rs[q].pc = "idle" THEN rs[q]
        ELSE [rs[q] EXCEPT
                !.ranked = @ \/ HoldsRank(rs[q].kind, rs[q].role, m, rs[q].actor),
                !.stale  = @ \/ (Checking(rs[q]) /\ Owners(m) # Owners(roles))]]

Begin(r, kind, a, t, role, i, step) ==
    /\ req[r].pc = "idle"
    /\ req' = [req EXCEPT ![r] =
                [Idle EXCEPT !.pc = step, !.kind = kind, !.actor = a, !.target = t,
                             !.role = role, !.invite = i,
                             !.ranked = HoldsRank(kind, role, roles, a)]]

TypeOK ==
    /\ roles \in [Users -> Role \cup {"none"}]
    /\ invites \in [Invites -> Invite]
    /\ req \in [Requests -> Request]
    /\ redeemed \in [Invites -> SUBSET Users]
    /\ staleWrite \in BOOLEAN

\* CreateOrg writes the organization and its founder in one transaction; any
\* roster that keeps the founder is then reached by inviting and promoting.
Init ==
    /\ roles \in {m \in [Users -> Role \cup {"none"}] : m[Founder] = "owner"}
    /\ invites = [i \in Invites |-> [state |-> "absent", role |-> "member"]]
    /\ req = [r \in Requests |-> Idle]
    /\ redeemed = [i \in Invites |-> {}]
    /\ staleWrite = FALSE

----------------------------------------------------------------------------
(* The guard                                                               *)

ArriveUpdate(r, a, t, role) ==
    /\ Begin(r, "update", a, t, role, NoInvite, "guard")
    /\ UNCHANGED <<roles, invites, redeemed, staleWrite>>

ArriveRemove(r, a, t) ==
    /\ Begin(r, "remove", a, t, "member", NoInvite, "guard")
    /\ UNCHANGED <<roles, invites, redeemed, staleWrite>>

\* An invitation that takes any valid role.
InviteAnyRole(r, a, role, i) ==
    /\ invites[i].state = "absent"
    /\ Begin(r, "invite", a, Founder, role, i, "guard")
    /\ UNCHANGED <<roles, invites, redeemed, staleWrite>>

\* handleCreateInvite refuses to invite an owner.
ArriveInvite(r, a, role, i) ==
    /\ role # "owner"
    /\ invites[i].state = "absent"
    /\ Begin(r, "invite", a, Founder, role, i, "guard")
    /\ UNCHANGED <<roles, invites, redeemed, staleWrite>>

ArriveRevoke(r, a, i) ==
    /\ invites[i].state # "absent"
    /\ Begin(r, "revoke", a, Founder, "member", i, "guard")
    /\ UNCHANGED <<roles, invites, redeemed, staleWrite>>

AfterGuard(q) ==
    IF q.kind = "update" THEN IF q.role = "owner" THEN "ownerGuard" ELSE "count"
    ELSE IF q.kind = "remove" THEN "target" ELSE "write"

\* A guard that trusted the role the session was opened with.
GuardFromSession(r) ==
    /\ req[r].pc = "guard"
    /\ req' = Goto(r, AfterGuard(req[r]))
    /\ UNCHANGED <<roles, invites, redeemed, staleWrite>>

\* requireOrg(RoleAdmin): the role is read again on every request.
Guard(r) ==
    /\ req[r].pc = "guard"
    /\ req' = IF AtLeast(roles[req[r].actor], "admin")
              THEN Goto(r, AfterGuard(req[r])) ELSE Finish(r)
    /\ UNCHANGED <<roles, invites, redeemed, staleWrite>>

\* Only an owner can mint another owner: a second RequireOrg, at owner rank.
GuardOwner(r) ==
    /\ req[r].pc = "ownerGuard"
    /\ req' = IF roles[req[r].actor] = "owner" THEN Goto(r, "write") ELSE Finish(r)
    /\ UNCHANGED <<roles, invites, redeemed, staleWrite>>

----------------------------------------------------------------------------
(* SetMemberRole and RemoveMember                                          *)

\* SetMemberRole counts the owners and then reads the target's role.
CountOwnersForUpdate(r) ==
    /\ req[r].pc = "count" /\ req[r].kind = "update"
    /\ req' = [req EXCEPT ![r].pc = "target", ![r].several = SeveralOwners(roles)]
    /\ UNCHANGED <<roles, invites, redeemed, staleWrite>>

\* The demotion is refused only when the organization has no owner at all.
ReadTargetOffByOne(r) ==
    LET q == req[r] IN
    /\ q.pc = "target" /\ q.kind = "update"
    /\ req' = IF roles[q.target] = "none" \/ (roles[q.target] = "owner" /\ Owners(roles) = {})
              THEN Finish(r) ELSE [req EXCEPT ![r].pc = "write", ![r].several = FALSE]
    /\ UNCHANGED <<roles, invites, redeemed, staleWrite>>

ReadTargetForUpdate(r) ==
    LET q == req[r] IN
    /\ q.pc = "target" /\ q.kind = "update"
    /\ req' = IF roles[q.target] = "none" \/ (roles[q.target] = "owner" /\ ~q.several)
              THEN Finish(r) ELSE [req EXCEPT ![r].pc = "write", ![r].several = FALSE]
    /\ UNCHANGED <<roles, invites, redeemed, staleWrite>>

\* RemoveMember reads the target's role and counts only when it is an owner.
ReadTargetForRemove(r) ==
    LET q == req[r] IN
    /\ q.pc = "target" /\ q.kind = "remove"
    /\ req' = IF roles[q.target] = "none" THEN Finish(r)
              ELSE Goto(r, IF roles[q.target] = "owner" THEN "count" ELSE "write")
    /\ UNCHANGED <<roles, invites, redeemed, staleWrite>>

CountOwnersForRemove(r) ==
    /\ req[r].pc = "count" /\ req[r].kind = "remove"
    /\ req' = IF SeveralOwners(roles) THEN Goto(r, "write") ELSE Finish(r)
    /\ UNCHANGED <<roles, invites, redeemed, staleWrite>>

\* What every write to org_members does: the request ends, the others witness.
Write(r, m) ==
    /\ roles' = m
    /\ req' = Witness(Finish(r), m)
    /\ staleWrite' = (staleWrite \/ req[r].stale)
    /\ UNCHANGED <<invites, redeemed>>

\* An upsert in place of the UPDATE.
UpsertRole(r) ==
    /\ req[r].pc = "write" /\ req[r].kind = "update"
    /\ Write(r, [roles EXCEPT ![req[r].target] = req[r].role])

\* UPDATE ... WHERE org_id AND user_id touches no row for someone who has left.
WriteRole(r) ==
    LET q == req[r] IN
    /\ q.pc = "write" /\ q.kind = "update"
    /\ Write(r, IF roles[q.target] = "none" THEN roles
                ELSE [roles EXCEPT ![q.target] = q.role])

DeleteMember(r) ==
    /\ req[r].pc = "write" /\ req[r].kind = "remove"
    /\ Write(r, [roles EXCEPT ![req[r].target] = "none"])

----------------------------------------------------------------------------
(* The life of an invitation                                               *)

CreateInvite(r) ==
    LET q == req[r] IN
    /\ q.pc = "write" /\ q.kind = "invite"
    /\ IF invites[q.invite].state = "absent"      \* else another row was used
       THEN invites' = [invites EXCEPT ![q.invite] = [state |-> "open", role |-> q.role]]
       ELSE UNCHANGED invites
    /\ req' = Finish(r)
    /\ UNCHANGED <<roles, redeemed, staleWrite>>

\* inviteTTL has gone by: expires_at > now() is false from here on.
Expire(i) ==
    /\ invites[i].state = "open"
    /\ invites' = [invites EXCEPT ![i].state = "expired"]
    /\ UNCHANGED <<roles, req, redeemed, staleWrite>>

Claimed(i) == \E r \in Requests : req[r].pc = "claimed" /\ req[r].invite = i

\* The UPDATE waits for a claim in progress, then looks at the row again.
RevokeInvite(r) ==
    LET q == req[r] IN
    /\ q.pc = "write" /\ q.kind = "revoke" /\ ~Claimed(q.invite)
    /\ IF invites[q.invite].state \in {"open", "expired"}
       THEN invites' = [invites EXCEPT ![q.invite].state = "revoked"]
       ELSE UNCHANGED invites
    /\ req' = Finish(r)
    /\ UNCHANGED <<roles, redeemed, staleWrite>>

\* A claim that only reads the invitation, taking no lock on its row.
ReadInvite(r, a, i) ==
    /\ invites[i].state = "open"
    /\ Begin(r, "accept", a, Founder, "member", i, "claimed")
    /\ UNCHANGED <<roles, invites, redeemed, staleWrite>>

\* AcceptInvite's conditional UPDATE, inside its transaction.
ClaimInvite(r, a, i) ==
    /\ invites[i].state = "open" /\ ~Claimed(i)
    /\ Begin(r, "accept", a, Founder, "member", i, "claimed")
    /\ UNCHANGED <<roles, invites, redeemed, staleWrite>>

\* INSERT ... ON CONFLICT DO NOTHING and COMMIT: a member keeps their role.
CommitAccept(r) ==
    LET q == req[r]
        m == IF roles[q.actor] = "none"
             THEN [roles EXCEPT ![q.actor] = invites[q.invite].role] ELSE roles IN
    /\ q.pc = "claimed"
    /\ invites' = [invites EXCEPT ![q.invite].state = "accepted"]
    /\ redeemed' = [redeemed EXCEPT ![q.invite] = @ \cup {q.actor}]
    /\ roles' = m
    /\ req' = Witness(Finish(r), m)
    /\ UNCHANGED staleWrite

\* The client goes away, the 90-second timeout fires or the server stops: the
\* request ends where it is and an open transaction rolls back.
Abandon(r) ==
    /\ req[r].pc # "idle"
    /\ req' = Finish(r)
    /\ UNCHANGED <<roles, invites, redeemed, staleWrite>>

----------------------------------------------------------------------------

Arrive(r) ==
    \E a \in Users :
        \/ \E t \in Users, role \in Role : ArriveUpdate(r, a, t, role)
        \/ \E t \in Users : ArriveRemove(r, a, t)
        \/ \E i \in Invites, role \in Role : ArriveInvite(r, a, role, i)
        \/ \E i \in Invites : ArriveRevoke(r, a, i)
        \/ \E i \in Invites : ClaimInvite(r, a, i)

Serve(r) ==
    \/ Guard(r) \/ GuardOwner(r)
    \/ CountOwnersForUpdate(r) \/ ReadTargetForUpdate(r) \/ WriteRole(r)
    \/ ReadTargetForRemove(r) \/ CountOwnersForRemove(r) \/ DeleteMember(r)
    \/ CreateInvite(r) \/ RevokeInvite(r) \/ CommitAccept(r)

Next ==
    \/ \E r \in Requests : Arrive(r) \/ Serve(r) \/ Abandon(r)
    \/ \E i \in Invites : Expire(i)

Spec == Init /\ [][Next]_vars

----------------------------------------------------------------------------
(* Properties                                                              *)

\* The organization has an owner.  orgs.go promises it: "The last owner cannot
\* be demoted - an org with no owner has no one who can restore access to it."
LastOwnerKept == Owners(roles) # {}

\* The owner check is sound on the roster it looked at: the only way to lose the
\* last owner is a write whose check was overtaken by another change of owners.
OwnerKeptUnlessOvertaken == staleWrite \/ Owners(roles) # {}

\* An invitation lets in one person, and is spent exactly when it has: two
\* people racing the same link cannot both join, and neither a revoked one nor
\* a rolled-back claim leaves anyone inside.
InviteRedeemedOnce ==
    \A i \in Invites :
        /\ \A u, v \in redeemed[i] : u = v
        /\ (invites[i].state = "accepted") <=> (redeemed[i] # {})

\* Revoking access takes effect on the caller's next request: a role is changed or
\* removed, and an invitation is made or revoked, only for an actor who held admin
\* rank while the request was being served, and an owner is made only for one who was
\* an owner meanwhile.  (Accepting one asks for no rank: JoinsOnlyByInvite.)
WritesWereAuthorized ==
    [][\A r \in Requests :
          (req[r].pc = "write" /\ req'[r].pc = "idle" /\ (roles' # roles \/ invites' # invites))
             => req[r].ranked]_vars

\* Nobody becomes a member but by an invitation that is used up in the same
\* step: a role change that loses the race with a removal does not undo it.
JoinsOnlyByInvite ==
    [][\A u \in Users :
          (roles[u] = "none" /\ roles'[u] # "none")
             => \E i \in Invites : /\ redeemed'[i] # redeemed[i] /\ u \in redeemed'[i]
                                   /\ roles'[u] = invites[i].role]_vars
=============================================================================
