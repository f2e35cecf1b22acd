-------------------------- MODULE MCConsoleSession --------------------------
(* Small instances of ConsoleSession for TLC: tabs, jobs and people are alike. *)
EXTENDS ConsoleSession, TLC

Symmetry == Permutations(Wallets) \cup Permutations(Tabs) \cup Permutations(Jobs)
=============================================================================
