---------------------------- MODULE VoteService ----------------------------
(***************************************************************************)
(* What a cluster asks of its quorum device: one vote, given to the nodes  *)
(* of one partition.  The device may choose another partition and take the *)
(* vote away at any time.  It gives it only to nodes of the partition it   *)
(* has chosen, and only once no other node holds it any more.              *)
(***************************************************************************)
CONSTANT Nodes

VARIABLES chosen,    \* the partition the vote goes to
          holders    \* the nodes that hold the vote, or may come to hold it
                     \* without a further step of the device

vars == <<chosen, holders>>

Init == chosen = {} /\ holders = {}

(* Partition P is chosen; the vote is taken from everyone outside of H. *)
Withdraw(P, H) ==
    /\ H \subseteq holders
    /\ chosen' = P
    /\ holders' = H

(* The vote is given to nodes of P, when nobody else is left that has it. *)
Grant(P, H) ==
    /\ H \subseteq P
    /\ chosen' = P
    /\ holders' = H

Next == \E P, H \in SUBSET Nodes : Withdraw(P, H) \/ Grant(P, H)

Spec == Init /\ [][Next]_vars
=============================================================================
