----------------------------- MODULE FFSplitMC -----------------------------
(***************************************************************************)
(* The FFSplit decision on enumerated tables of a four-node cluster.       *)
(***************************************************************************)
EXTENDS Decision

-----------------------------------------------------------------------------
(* Tables of a split four-node cluster: every node's view is its block of  *)
(* one split, whatever subset of the nodes is connected and in whichever   *)
(* slots they sit.                                                         *)

Splits == {{{1, 2, 3, 4}}, {{1, 2}, {3, 4}}, {{1, 3}, {2, 4}},
           {{1}, {2, 3, 4}}, {{1, 2}, {3}, {4}}}

Priors == {{}, {3, 4}, {1, 3}}

Orders == {<<0, 1, 2, 3>>, <<3, 2, 1, 0>>, <<1, 3, 0, 2>>}

TieBreaks == {<<"LOWEST", 0>>, <<"HIGHEST", 0>>, <<"NODE_ID", 3>>}

Block(split, n) == CHOOSE b \in split : n \in b

(* A ring id names one membership: the set's bits. *)
Bit(b, n) == IF n \in b THEN 2 ^ (n - 1) ELSE 0
RingId(b) == Bit(b, 1) + Bit(b, 2) + Bit(b, 3) + Bit(b, 4)
RingIds == 1 .. 15

NodeClient(n, view, up, heur, kap, tb) ==
    [used |-> n \in up, node_id |-> n, tb_mode |-> tb[1], tb_node |-> tb[2],
     kap |-> kap, cfg |-> 1 .. 4, memb |-> view,
     ring |-> RingId(view), heur |-> heur]

Ordered(order, client(_)) ==
    [i \in Slots |-> client(CHOOSE n \in 1 .. 4 : order[n] = i)]

InitSplits ==
    \E split \in Splits, up \in SUBSET (1 .. 4), order \in Orders,
       kap \in BOOLEAN, tb \in TieBreaks :
      \E heur \in [up -> Heuristics] :
        LET client(n) == NodeClient(n, Block(split, n), up,
                           IF n \in up THEN heur[n] ELSE "UNDEFINED", kap, tb)
        IN  table = Ordered(order, client)

(* The same while one report is late: a client's view is still its block   *)
(* of another split.                                                       *)
InitLate ==
    \E split, earlier \in Splits, up \in SUBSET (1 .. 4), order \in Orders :
     \E late \in up :
      LET client(n) == NodeClient(n, Block(IF n = late THEN earlier ELSE split, n),
                                  up, "UNDEFINED", TRUE, <<"LOWEST", 0>>)
      IN  table = Ordered(order, client)

Init == (InitSplits \/ InitLate) /\ choice \in Priors

Spec == Init /\ [][DecideAgain]_decisionVars
=============================================================================
