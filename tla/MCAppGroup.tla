---------------------------- MODULE MCAppGroup ----------------------------
(* Small instances of AppGroup for TLC: nobody and nothing is distinguished. *)
EXTENDS AppGroup, TLC

Symmetry ==
    Permutations(Users) \cup Permutations(Apps) \cup Permutations(Groups)
        \cup Permutations(Requests)

\* Two apps compete for one group, or one app is bound and bound again to two.
OneOfEither ==
    \/ \E a \in Apps : \A b \in Apps \ {a} : apps[b].status = "absent"
    \/ \E g \in Groups : \A h \in Groups \ {g} : groups[h].state = "none"
=============================================================================
