-------------------------------- MODULE LMS --------------------------------
(***************************************************************************)
(* The LMS (last man standing) decision core, firmware/quorum/lms.c, over  *)
(* the vote table it shares with FFSplit.  last[i] is the result saved for *)
(* slot i: NEW until a vote has been saved for its client.                 *)
(***************************************************************************)
EXTENDS FFSplit

LmsResults == {"NEW", "ACK", "NACK", "WAIT"}

(* rings_match: a client and every other connected client that either of   *)
(* the two counts in its partition have the same ring.                     *)
RingsMatch(t, i) ==
    \A j \in Used(t) \ {i} :
        (t[j].node_id \in t[i].memb \/ t[i].node_id \in t[j].memb)
            => t[j].ring = t[i].ring

(* make_partitions: the connected clients that have reported a ring,       *)
(* grouped by it.  There are at most as many groups as slots, so the       *)
(* capacity check of the code never refuses.                               *)
LmsRings(t) == {t[j].ring : j \in Used(t)} \ {NoRing}
OnRing(t, r) == {j \in Used(t) : t[j].ring = r}
OnRingReporting(t, r, h) == {j \in OnRing(t, r) : t[j].heur = h}

LmsCount(t, r) == Cardinality(OnRing(t, r))
LmsScore(t, r) == LmsCount(t, r)
                    + Cardinality(OnRingReporting(t, r, "PASS"))
                    - Cardinality(OnRingReporting(t, r, "FAIL"))

TopScore(t) == {r \in LmsRings(t) :
                  \A q \in LmsRings(t) : LmsScore(t, q) <= LmsScore(t, r)}
TopCount(t) == {r \in LmsRings(t) :
                  \A q \in LmsRings(t) : LmsCount(t, q) <= LmsCount(t, r)}

(* The newcomer rule: nothing has been saved for it, not even that it has  *)
(* to wait, and a client of another ring holds ACK.                        *)
Newcomer(t, i, last) ==
    /\ last[i] = "NEW"
    /\ \E j \in Used(t) \ {i} : t[j].ring # t[i].ring /\ last[j] = "ACK"

Vote(b) == IF b THEN "ACK" ELSE "NACK"

(* The last resort: the tie-breaker node, or a client on its ring.  A      *)
(* nominated node id is for itself only.                                   *)
TieBreakVote(t, i) ==
    LET me == t[i]
        tb == Extreme({t[j].node_id : j \in Used(t)}, me.tb_mode)
    IN  IF me.tb_mode = "NODE_ID" THEN Vote(me.node_id = me.tb_node)
        ELSE Vote(me.node_id = tb \/ t[Peer(t, tb)].ring = me.ring)

(* qesp_lms_decide: the vote returned for slot i. *)
LmsVote(t, i, last) ==
    IF ~RingsMatch(t, i) \/ LmsRings(t) = {} THEN "WAIT"
    ELSE IF Cardinality(LmsRings(t)) = 1 THEN "ACK"
    ELSE IF Newcomer(t, i, last) THEN "NACK"
    ELSE IF Cardinality(TopScore(t)) = 1 THEN Vote(t[i].ring \in TopScore(t))
    ELSE IF Cardinality(TopCount(t)) = 1 THEN Vote(t[i].ring \in TopCount(t))
    ELSE TieBreakVote(t, i)

(* qesp_lms_decide: the result it leaves saved.  Every exit saves the vote *)
(* except the newcomer's NACK.                                             *)
LmsSaved(t, i, last) ==
    IF /\ RingsMatch(t, i)
       /\ Cardinality(LmsRings(t)) > 1
       /\ Newcomer(t, i, last)
    THEN last[i]
    ELSE LmsVote(t, i, last)
=============================================================================
