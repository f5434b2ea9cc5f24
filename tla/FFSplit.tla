------------------------------ MODULE FFSplit ------------------------------
(***************************************************************************)
(* The vote table and the FFSplit decision core, firmware/quorum/ffsplit.c.*)
(*                                                                         *)
(* A table t maps every slot to a client record.  The C arrays cfg/ncfg    *)
(* and memb/nmemb are sets of node ids here: corosync lists carry no node  *)
(* twice and no code path depends on their order.  A ring id (ring_node,   *)
(* ring_seq, has_ring) is one value; NoRing is the zeroed, unreported one. *)
(* The two votes of the code, ACK and NACK, are membership and             *)
(* non-membership of the chosen set.                                       *)
(***************************************************************************)
EXTENDS Integers, FiniteSets

CONSTANTS NodeIds,     \* node ids the clients may have
          Rings,       \* corosync ring ids the clients may report
          MaxClients,  \* QESP_FF_MAX_CLIENTS: slots of the vote table
          SizeMod      \* 2^w for the w bits of the target's size_t

ASSUME NodeIdsAssumption == NodeIds \subseteq Nat \ {0}
ASSUME RingsAssumption == Rings \subseteq Nat \ {0}
ASSUME MaxClientsAssumption == MaxClients \in Nat \ {0}
ASSUME SizeModAssumption == SizeMod \in Nat \ {0}

Slots == 0 .. MaxClients - 1
NoSlot == -1
NoNode == 0
NoRing == 0

TbModes == {"LOWEST", "HIGHEST", "NODE_ID"}
Heuristics == {"UNDEFINED", "PASS", "FAIL"}

(* One slot: qesp_ff_client_t. *)
Client == [used    : BOOLEAN,
           node_id : NodeIds \cup {NoNode},
           tb_mode : TbModes,
           tb_node : NodeIds \cup {NoNode},
           kap     : BOOLEAN,
           cfg     : SUBSET NodeIds,
           memb    : SUBSET NodeIds,
           ring    : Rings \cup {NoRing},
           heur    : Heuristics]

(* A zeroed slot.  The zero tb_mode is never read: allocation overwrites   *)
(* it with LOWEST before the slot is used.                                 *)
ZeroClient == [used |-> FALSE, node_id |-> NoNode,
               tb_mode |-> "LOWEST", tb_node |-> NoNode, kap |-> FALSE,
               cfg |-> {}, memb |-> {}, ring |-> NoRing,
               heur |-> "UNDEFINED"]

Tables == [Slots -> Client]

(* qesp_ff_init *)
EmptyTable == [i \in Slots |-> ZeroClient]

-----------------------------------------------------------------------------
(* Slots *)

Used(t) == {i \in Slots : t[i].used}

(* The slots a scan for node id n stops at. *)
SlotsOf(t, n) == {i \in Used(t) : t[i].node_id = n}

(* What a scan of the table in slot order finds. *)
First(S) == IF S = {} THEN NoSlot
            ELSE CHOOSE i \in S : \A j \in S : i <= j

Peer(t, n) == First(SlotsOf(t, n))

FreeSlotFor(t, n) == First(Slots \ Used(t))

(* qesp_ff_slot, the index it returns: the node's slot, else a free one.   *)
SlotFor(t, n) == IF SlotsOf(t, n) # {} THEN Peer(t, n)
                 ELSE First(Slots \ Used(t))

(* qesp_ff_slot, what it writes at the index i it found: a fresh slot is   *)
(* zeroed, one that already belongs to the node is left as it is.          *)
Allocate(t, n, i) ==
    IF t[i].used THEN t
    ELSE [t EXCEPT ![i] = [ZeroClient EXCEPT !.used = TRUE, !.node_id = n]]

RemoveNothing(t, i) == t
RemoveAll(t, i) == EmptyTable

(* qesp_ff_remove: only the flag is cleared. *)
Remove(t, i) == [t EXCEPT ![i].used = FALSE]

-----------------------------------------------------------------------------
(* Comparing partitions *)

Extreme(S, mode) ==
    CHOOSE n \in S : \A m \in S : IF mode = "LOWEST" THEN n <= m ELSE n >= m

(* preferred_in_memb *)
PreferredInMemb(cl) ==
    /\ cl.cfg # {}
    /\ IF cl.tb_mode = "NODE_ID" THEN cl.tb_node \in cl.memb
       ELSE Extreme(cl.cfg, cl.tb_mode) \in cl.memb

(* stats: the members of slot i's partition that are connected, and those  *)
(* of them that report the given heuristics result.                        *)
Active(t, i) == {n \in t[i].memb : SlotsOf(t, n) # {}}
Reporting(t, i, h) == {n \in Active(t, i) : t[Peer(t, n)].heur = h}

ScoreWithoutFail(t, i) ==
    Cardinality(Active(t, i)) + Cardinality(Reporting(t, i, "PASS"))

(* size_t arithmetic: the difference wraps, and wraps back in the sum.     *)
Score(t, i) ==
    (Cardinality(Active(t, i))
      + ((Cardinality(Reporting(t, i, "PASS"))
            - Cardinality(Reporting(t, i, "FAIL"))) % SizeMod)) % SizeMod

KapOn(t) == \A j \in Used(t) : t[j].kap

NotHolding(t, quorate, i) == t[i].node_id \notin quorate

(* qesp_ff_better, has_id(quorate, node_id): is slot i's node one of the   *)
(* nodes chosen last time?                                                 *)
Holding(t, quorate, i) == t[i].node_id \in quorate

(* qesp_ff_better: does the partition of slot i beat that of slot b?       *)
(* b = NoSlot when nothing is chosen yet; its counts are then 0.           *)
Better(t, quorate, i, b) ==
    LET size   == Cardinality(t[i].memb)
        ncfg   == Cardinality(t[i].cfg)
        scoreI == Score(t, i)
        scoreB == IF b = NoSlot THEN 0 ELSE Score(t, b)
        actI   == Cardinality(Active(t, i))
        actB   == IF b = NoSlot THEN 0 ELSE Cardinality(Active(t, b))
    IN  IF ncfg % 2 # 0 \/ size # ncfg \div 2 THEN size > ncfg \div 2
        ELSE IF scoreI # scoreB THEN scoreI > scoreB
        ELSE IF actI # actB THEN actI > actB
        ELSE IF /\ b # NoSlot
                /\ KapOn(t)
                /\ Holding(t, quorate, i) # Holding(t, quorate, b)
        THEN Holding(t, quorate, i)
        ELSE PreferredInMemb(t[i])

(* qesp_ff_select: one pass over the table; each used slot that beats the  *)
(* best so far replaces it.  Scan[k] is the best of the first k slots.     *)
Scan(t, quorate) ==
    LET best[k \in 0 .. MaxClients] ==
          IF k = 0 THEN NoSlot
          ELSE LET soFar == best[k - 1]
               IN  IF k - 1 \in Used(t) /\ Better(t, quorate, k - 1, soFar)
                   THEN k - 1 ELSE soFar
    IN  best

Select(t, quorate) == Scan(t, quorate)[MaxClients]

-----------------------------------------------------------------------------
(* Deciding *)

(* qesp_ff_stable, first loop: every pair agrees on the configuration.     *)
SameConfig(t) == \A i, j \in Used(t) : t[i].cfg = t[j].cfg

SelfOnly(t) ==
    \A i \in Used(t) : t[i].node_id \in t[i].memb => t[i].ring # NoRing

(* qesp_ff_stable, second loop: a client and each connected member of its  *)
(* partition have reported the same ring and the same membership.          *)
SamePartition(t) ==
    \A i \in Used(t) : \A n \in t[i].memb :
        SlotsOf(t, n) # {} =>
            /\ t[i].ring # NoRing
            /\ t[Peer(t, n)].ring = t[i].ring
            /\ t[Peer(t, n)].memb = t[i].memb

Stable(t) == SameConfig(t) /\ SamePartition(t)

(* qesp_ff_decide on a stable table: the set of nodes that get ACK.        *)
Decide(t, quorate) ==
    LET best == Select(t, quorate)
    IN  IF best \in Used(t) THEN t[best].memb ELSE {}

-----------------------------------------------------------------------------
(* What the decision's properties speak of *)

Majority(cl) == 2 * Cardinality(cl.memb) > Cardinality(cl.cfg)
Half(cl) == 2 * Cardinality(cl.memb) = Cardinality(cl.cfg)

(* A majority and a half always have nodes in common.  On a stable table   *)
(* none of those is connected, so the two were reported at different       *)
(* times; which of them qesp_ff_select then ends at depends on the slots.  *)
NoHalfBesideMajority(t) ==
    \A i, j \in Used(t) : Majority(t[i]) => ~Half(t[j])

(* No node has two slots: what qesp_ff_slot is for.                        *)
OneSlotEach(t) == \A i, j \in Used(t) : t[i].node_id = t[j].node_id => i = j

(* A client is a member of what it reports: on_frame refuses other lists.  *)
InOwnPartition(t) ==
    \A i \in Used(t) : t[i].memb # {} => t[i].node_id \in t[i].memb

(* The clients are nodes of one cluster: they count configured nodes, and  *)
(* have been given one tie-breaker, which names a configured node if any.  *)
OneCluster(t) ==
    /\ \A i \in Used(t) :
         /\ t[i].memb \subseteq t[i].cfg
         /\ (t[i].tb_mode = "NODE_ID" /\ t[i].cfg # {}) => t[i].tb_node \in t[i].cfg
    /\ \A i, j \in Used(t) :
         t[i].tb_mode = t[j].tb_mode /\ t[i].tb_node = t[j].tb_node
=============================================================================
