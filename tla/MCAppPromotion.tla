--------------------------- MODULE MCAppPromotion ---------------------------
(* Small instances of AppPromotion for TLC.                                *)
EXTENDS AppPromotion, TLC

Symmetry == Permutations(Nodes) \cup Permutations(Groups)
=============================================================================
