----------------------------- MODULE MCMirrors -----------------------------
(* The two mirrors that syncGroup keeps of a group, for TLC, one of them in each    *)
(* behaviour: the membership, or the keys and issuers, each from the moment that    *)
(* the disturbances stop.                                                           *)
EXTENDS MirrorSettling

CONSTANTS KeyGroups, Keys, Issuers, Rows, None

VARIABLES mirror, trust, linked, creds, issuers, trustReq

Trust == INSTANCE TrustMirror WITH Groups <- KeyGroups, req <- trustReq

ASSUME TrustAssumption == Trust!Apart

trusted == <<trust, linked, creds, issuers, trustReq>>

\* The mirror that is not followed is empty, of groups without anything in them.
MembershipShut ==
    Init /\ app.env = "development" /\ ~paid /\ members = [g \in Groups |-> {}]
TrustShut ==
    /\ Trust!Init
    /\ trust = [g \in KeyGroups |-> [x \in Keys \cup Issuers |-> "never"]]

\* An organization whose plan is not paid has nothing to promote.
MirrorsInit ==
    /\ calm = FALSE
    /\ \/ mirror = "membership" /\ CalmInit /\ paid /\ TrustShut
       \/ mirror = "trust" /\ Trust!Init /\ MembershipShut

MirrorsNext ==
    /\ UNCHANGED mirror
    /\ \/ mirror = "membership" /\ CalmNext /\ UNCHANGED trusted
       \/ mirror = "trust" /\ Trust!Next /\ UNCHANGED vars

\* Nothing is linked in the mirror that is not followed, so that its timer rests.
MirrorsSpec ==
    MirrorsInit /\ [][MirrorsNext]_<<mirror, vars, calm, trusted>> /\ Fairness /\ Trust!Fairness

----------------------------------------------------------------------------
(* Properties of TrustMirror, by the names the configuration uses.         *)

TrustTypeOK == Trust!TypeOK
ActiveWasTrusted == Trust!ActiveWasTrusted
TrustSettles == Trust!TrustSettles
=============================================================================
