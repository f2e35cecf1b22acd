-------------------------- MODULE MCOrgMembership --------------------------
(* A small organization for TLC: everyone but the founder is alike.        *)
EXTENDS OrgMembership, TLC

Symmetry == Permutations(Users \ {Founder}) \cup Permutations(Requests)
=============================================================================
