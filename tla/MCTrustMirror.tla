---------------------------- MODULE MCTrustMirror ----------------------------
(* Small instances of TrustMirror for TLC: the rows are alike.             *)
EXTENDS TrustMirror, TLC

Symmetry == Permutations(Rows) \cup Permutations(Groups)
=============================================================================
