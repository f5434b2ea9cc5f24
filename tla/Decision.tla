------------------------------ MODULE Decision ------------------------------
(***************************************************************************)
(* A vote table that is decided on again and again (qesp_ff_decide), and   *)
(* what a decision must not depend on: the slots, how often it is taken,   *)
(* and who of the winners is asked.                                        *)
(***************************************************************************)
EXTENDS FFSplit

VARIABLES table,   \* s_ff.clients
          choice   \* s_ff.quorate

decisionVars == <<table, choice>>

(* qesp_ff_decide: a table that is not stable is not decided on.           *)
DecideAgain ==
    /\ Stable(table)
    /\ choice' = Decide(table, choice)
    /\ UNCHANGED table

-----------------------------------------------------------------------------
(* What the documented rules say, without slots: a majority of the         *)
(* configuration, else the best half by score, then connected members,     *)
(* then (keep-active on everywhere) incumbency, then the preferred node.   *)

ViewsOf(t) == {t[i].memb : i \in Used(t)}
Config(t) == UNION {t[i].cfg : i \in Used(t)}

(* The views are blocks of one split.  Two stable views can overlap in     *)
(* nodes that are not connected; no rule says which of them should win.    *)
OneSplit(t) == \A v, w \in ViewsOf(t) : v = w \/ v \cap w = {}

(* The nodes of v that are connected, and those that report h. *)
Connected(t, v) == {n \in v : \E i \in Used(t) : t[i].node_id = n}
Report(t, v, h) ==
    {n \in v : \E i \in Used(t) : t[i].node_id = n /\ t[i].heur = h}

Points(t, v) == Cardinality(Connected(t, v))
                  + Cardinality(Report(t, v, "PASS"))
                  - Cardinality(Report(t, v, "FAIL"))
Incumbent(t, q, v) == KapOn(t) /\ Connected(t, v) \cap q # {}
Preferred(t, v) == \E i \in Used(t) : t[i].node_id \in v /\ PreferredInMemb(t[i])

Outranks(t, q, v, w) ==
    LET level == /\ Points(t, v) = Points(t, w)
                 /\ Cardinality(Connected(t, v)) = Cardinality(Connected(t, w))
    IN  \/ Points(t, v) > Points(t, w)
        \/ /\ Points(t, v) = Points(t, w)
           /\ Cardinality(Connected(t, v)) > Cardinality(Connected(t, w))
        \/ level /\ Incumbent(t, q, v) /\ ~Incumbent(t, q, w)
        \/ /\ level /\ (Incumbent(t, q, v) <=> Incumbent(t, q, w))
           /\ Preferred(t, v) /\ ~Preferred(t, w)

Reference(t, q) ==
    LET majority == {v \in ViewsOf(t) : 2 * Cardinality(v) > Cardinality(Config(t))}
        halves   == {v \in ViewsOf(t) : 2 * Cardinality(v) = Cardinality(Config(t))}
    IN  IF majority # {} THEN UNION majority
        ELSE IF halves = {} THEN {}
        ELSE CHOOSE v \in halves : \A w \in halves \ {v} : Outranks(t, q, v, w)

-----------------------------------------------------------------------------
(* The one pass over the slots of qesp_ff_select ends at the partition the *)
(* rules of docs/ffsplit.md name, in whichever slots the clients sit, and  *)
(* the unsigned score arithmetic never wraps into a different choice.      *)
SelectMatchesReference ==
    (Stable(table) /\ OneSplit(table)) =>
      Decide(table, choice) = Reference(table, choice)

(* A second qesp_ff_decide on an unchanged table never moves the vote to   *)
(* another partition: the keep-active rule feeds on its own output.        *)
NoFlapping ==
    Stable(table) =>
      Decide(table, Decide(table, choice)) = Decide(table, choice)

(* On any table qesp_ff_stable accepts, all clients that qesp_ff_decide    *)
(* gives ACK report one membership, the chosen one, and one ring.          *)
AckedShareOnePartition ==
    Stable(table) =>
      \A i, j \in Used(table) :
        ({table[i].node_id, table[j].node_id} \subseteq Decide(table, choice)) =>
          /\ table[i].memb = Decide(table, choice)
          /\ table[i].ring = table[j].ring
=============================================================================
