---------------------------- MODULE QnetServerMC ----------------------------
(***************************************************************************)
(* Small instances of QnetServer: the clusters and what their nodes report.*)
(***************************************************************************)
EXTENDS QnetServer, TLC

NameAB == <<"a", "b">>
NameC == <<"c">>
OneName == {NameAB}
TwoNames == {NameAB, NameC}

Lowest == [mode |-> "LOWEST", node |-> NoNode]
OnlyLowest == {Lowest}

(* A ring id names one membership. *)
View(memb, ring) == [memb |-> memb, ring |-> ring]

SplitViews == {View({1}, 2), View({2}, 3)}
TwoNodeViews == {View({1, 2}, 1), View({1}, 2), View({2}, 3)}
TwoNodeConfig == {{1, 2}}
TwoNodeConfigs == {{1, 2}, {1}}

(* What a slot still holds once it is free and no session points at it is  *)
(* never read again: INIT resets it.  The VIEW of the runs leaves it out,  *)
(* and which cluster is served: no name of a run is a prefix of another,   *)
(* so exchanging them changes nothing.                                     *)
Live == Used(ff) \cup ({sess[c].ff_idx : c \in Conns} \ {NoSlot})
Claimed == [c \in Conns |-> [sess[c] EXCEPT !.cluster = (@ # NoName)]]
Observable ==
    <<Claimed, s_cluster # NoName, s_algo, quorate, s_decided, s_phase, s_tp,
      down, up, cvote,
      [i \in Live |-> <<ff[i], s_st[i], s_seq[i], s_lms_last[i]>>]>>

ConnSymmetry == Permutations(Conns)
=============================================================================
