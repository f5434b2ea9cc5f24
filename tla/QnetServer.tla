----------------------------- MODULE QnetServer -----------------------------
(***************************************************************************)
(* The qnetd side of firmware/qdevice/server.c: client sessions, the vote  *)
(* table they share, and the two ways votes reach the clients.             *)
(*                                                                         *)
(* Every turn of session_task (receive a frame, on_frame, send the reply)  *)
(* runs under s_mux, and so does its epilogue; each is one action here.    *)
(* Frames that are answered with an error, echoes, and replies that carry  *)
(* a status but no vote change no state the clients or the server act on,  *)
(* and are stuttering steps.                                               *)
(*                                                                         *)
(* External, from how the code uses them: the byte stream of a connection  *)
(* delivers in order (down, up), and a corosync-qdevice client applies a   *)
(* vote before it answers VOTE_INFO with VOTE_INFO_REPLY (ClientRecv).     *)
(***************************************************************************)
EXTENDS LMS, Sequences

CONSTANTS Conns,        \* connections: CONFIG_QUORUMESP_MAX_SESSIONS of them
          NoConn,       \* a closed transport (fd = -1)
          Names,        \* cluster names, as sequences of characters
          Algos,        \* algorithms a client may ask for in INIT
          TieBreakers,  \* [mode, node] a client may ask for in INIT
          Configs,      \* configuration node lists a client may send
          Views,        \* [memb, ring] a client may send; NoRing: no ring
          Heurs,        \* heuristics results in reports, may hold "ABSENT"
          Kaps,         \* keep-active flags in SET_OPTION
          SeqMod,       \* 2^32: VOTE_INFO sequence numbers are uint32_t
          MaxInFlight,  \* bound: clients wait while a connection holds more
          SendMayFail,  \* may a push to a client fail?
          AllowOverlap  \* may a node open a second session beside its first?

ASSUME ConnAssumption == NoConn \notin Conns
ASSUME AlgosAssumption == Algos \subseteq {"FFSPLIT", "LMS"}
ASSUME TieBreakersAssumption ==
    TieBreakers \subseteq [mode : TbModes, node : NodeIds \cup {NoNode}]
ASSUME ReportsAssumption ==
    /\ Configs \subseteq SUBSET NodeIds
    /\ Views \subseteq [memb : SUBSET NodeIds, ring : Rings \cup {NoRing}]
    /\ Heurs \subseteq Heuristics \cup {"ABSENT"}
    /\ Kaps \subseteq BOOLEAN
ASSUME SeqModAssumption == SeqMod \in Nat \ {0}
ASSUME MaxInFlightAssumption == MaxInFlight \in Nat
ASSUME FlagsAssumption == SendMayFail \in BOOLEAN /\ AllowOverlap \in BOOLEAN

VARIABLES sess,        \* sess_t of each session task
          s_cluster,   \* s_cluster, s_have_cluster: NoName until claimed
          s_algo,      \* cluster algorithm, "NONE" = unset
          ff,          \* s_ff.clients
          quorate,     \* s_ff.quorate
          s_decided,   \* did the last recompute find the table stable?
          s_st,        \* push state of each slot
          s_seq,       \* last VOTE_INFO sequence number of each slot
          s_phase,     \* 0 idle, 1 sending NACKs, 2 sending ACKs
          s_lms_last,  \* saved LMS result of each slot
          s_tp,        \* transport of each slot
          down,        \* votes on their way to each client
          up,          \* VOTE_INFO_REPLYs on their way to the server
          cvote        \* the vote each client holds

pushVars == <<quorate, s_decided, s_st, s_seq, s_phase, down>>
vars == <<sess, s_cluster, s_algo, ff, s_lms_last, s_tp, up, cvote, pushVars>>

NoName == <<>>

(* The values of s_st. *)
Idle == 0
NackDue == 1
AckDue == 2
NackPending == 3
AckPending == 4

Session == [st         : {"FREE", "CONNECTED", "PREINIT_DONE", "ACTIVE",
                          "CLOSING"},
            cluster    : Names \cup {NoName},
            node       : NodeIds \cup {NoNode},
            algo       : {"NONE", "FFSPLIT", "LMS"},
            ff_idx     : Slots \cup {NoSlot},
            has_config : BOOLEAN,
            has_memb   : BOOLEAN]

FreeSession == [st |-> "FREE", cluster |-> NoName,
                node |-> NoNode, algo |-> "NONE",
                ff_idx |-> NoSlot, has_config |-> FALSE, has_memb |-> FALSE]

(* A vote on the wire: pushed in VOTE_INFO, or riding in an LMS reply.     *)
Message == [kind : {"VOTE_INFO", "REPLY"}, seq : 0 .. SeqMod - 1,
            vote : {"ACK", "NACK"}]

Init ==
    /\ sess = [c \in Conns |-> FreeSession]
    /\ s_cluster = NoName
    /\ s_algo = "NONE"
    /\ ff = EmptyTable
    /\ quorate = {}
    /\ s_decided = FALSE
    /\ s_st = [i \in Slots |-> Idle]
    /\ s_seq = [i \in Slots |-> 0]
    /\ s_phase = 0
    /\ s_lms_last = [i \in Slots |-> "NEW"]
    /\ s_tp = [i \in Slots |-> NoConn]
    /\ down = [c \in Conns |-> <<>>]
    /\ up = [c \in Conns |-> <<>>]
    /\ cvote = [c \in Conns |-> "NONE"]

-----------------------------------------------------------------------------
(* Pushing votes *)

BumpedUnwrapped(S) == [i \in Slots |-> IF i \in S THEN s_seq[i] + 1
                                                   ELSE s_seq[i]]

(* push_vote: a fresh sequence number is taken whether the send succeeds   *)
(* or not; the message reaches the slot's transport only if it does.  The  *)
(* sends for the slots of S extend the queues q.                           *)
Bumped(S) == [i \in Slots |-> IF i \in S THEN (s_seq[i] + 1) % SeqMod
                                         ELSE s_seq[i]]

Pushed(q, tp, S, vote) ==
    [c \in Conns |->
        IF \E i \in S : tp[i] = c
        THEN LET i == CHOOSE i \in S : tp[i] = c
             IN  Append(q[c], [kind |-> "VOTE_INFO",
                               seq |-> (s_seq[i] + 1) % SeqMod,
                               vote |-> vote[i]])
        ELSE q[c]]

(* The sets of slots a send may fail for. *)
Failures == IF SendMayFail THEN SUBSET Slots ELSE {{}}

(* recompute, undecided: push states and the last choice stay.             *)
RecomputeUnstable(t, q) ==
    /\ ~Stable(t)
    /\ s_decided' = FALSE
    /\ down' = q
    /\ UNCHANGED <<quorate, s_st, s_seq, s_phase>>

AcksAtOnce(nackSent, acks) == acks

(* recompute, drain_nacks before drain_acks: the ACKs that are tried.      *)
AcksTried(nackSent, acks) == IF nackSent = {} THEN acks ELSE {}

(* recompute, decided: every client's vote becomes due; the NACKs go out,  *)
(* and the ACKs in their place only when no NACK went out.                 *)
RecomputeStable(t, tp, q) ==
    \E fail \in Failures :
      LET chosen   == Decide(t, quorate)
          acks     == {i \in Used(t) : t[i].node_id \in chosen}
          nacks    == Used(t) \ acks
          nackSent == nacks \ fail
          ackTried == AcksTried(nackSent, acks)
          ackSent  == ackTried \ fail
      IN  /\ Stable(t)
          /\ s_decided' = TRUE
          /\ quorate' = chosen
          /\ s_st' = [i \in Slots |->
                        IF i \in nackSent THEN NackPending
                        ELSE IF i \in ackSent THEN AckPending
                        ELSE IF i \in nacks THEN NackDue
                        ELSE IF i \in acks THEN AckDue
                        ELSE s_st[i]]
          /\ s_seq' = Bumped(nacks \cup ackTried)
          /\ s_phase' = IF nackSent # {} THEN 1
                        ELSE IF ackSent # {} THEN 2 ELSE 0
          /\ down' = Pushed(q, tp, nackSent \cup ackSent,
                            [i \in Slots |-> Vote(i \in acks)])

(* t and tp are the table and the transports the caller leaves, q the      *)
(* queues its sends extend.                                                *)
Recompute(t, tp, q) == RecomputeUnstable(t, q) \/ RecomputeStable(t, tp, q)

NackedOthers(t, last, exclude) ==
    {i \in Used(t) \ exclude : last[i] = "NACK"}

(* lms_refresh_others, the clients it does not skip.                       *)
WaitingOthers(t, last, exclude) ==
    {i \in Used(t) \ exclude : last[i] = "WAIT"}

(* lms_refresh_others: waiting clients are decided again and told.  Their  *)
(* decisions do not depend on each other's saved results, so the loop is   *)
(* one simultaneous update.  last is s_lms_last as the caller leaves it.   *)
Refresh(t, tp, last, exclude, q) ==
    \E fail \in Failures :
      LET waiting == WaitingOthers(t, last, exclude)
          told    == {i \in waiting : LmsVote(t, i, last) # "WAIT"}
      IN  /\ s_lms_last' = [i \in Slots |->
                              IF i \in waiting THEN LmsSaved(t, i, last)
                                               ELSE last[i]]
          /\ s_seq' = Bumped(told)
          /\ down' = Pushed(q, tp, told \ fail,
                       [i \in Slots |-> Vote(LmsVote(t, i, last) = "ACK")])

-----------------------------------------------------------------------------
(* Handshake *)

(* Bound: clients connect and report only while no connection holds more   *)
(* than MaxInFlight undelivered votes and answers.                         *)
Room == \A c \in Conns : Len(down[c]) + Len(up[c]) <= MaxInFlight

(* The accept loop admits a connection and session_task starts. *)
Connect(c) ==
    /\ sess[c].st = "FREE" /\ Room
    /\ sess' = [sess EXCEPT ![c].st = "CONNECTED"]
    /\ UNCHANGED <<s_cluster, s_algo, ff, s_lms_last, s_tp, up, cvote, pushVars>>

(* strncmp(s_cluster, name, name_len) == 0 *)
SameCluster(name) ==
    /\ Len(name) <= Len(s_cluster)
    /\ \A k \in 1 .. Len(name) : s_cluster[k] = name[k]

Preinit(c, name) ==
    /\ sess[c].st = "CONNECTED"
    /\ s_cluster = NoName \/ SameCluster(name)
    /\ s_cluster' = IF s_cluster = NoName THEN name ELSE s_cluster
    /\ sess' = [sess EXCEPT ![c].st = "PREINIT_DONE", ![c].cluster = name]
    /\ UNCHANGED <<s_algo, ff, s_lms_last, s_tp, up, cvote, pushVars>>

(* A second cluster is refused: the session ends. *)
PreinitRefused(c, name) ==
    /\ sess[c].st = "CONNECTED"
    /\ s_cluster # NoName /\ ~SameCluster(name)
    /\ sess' = [sess EXCEPT ![c].st = "CLOSING"]
    /\ UNCHANGED <<s_cluster, s_algo, ff, s_lms_last, s_tp, up, cvote, pushVars>>

(* The nodes that hold a session other than c's. *)
OtherNodes(c) == {sess[d].node : d \in Conns \ {c}}

(* INIT: the session takes its node's slot, the one of an older session of *)
(* that node if there is one, and resets the slot's push state.  A full    *)
(* table ends the session (after it has noted its node and algorithm).     *)
InitMsg(c, n, algo, tb) ==
    LET i == SlotFor(ff, n)
        granted == i # NoSlot
        s == [sess[c] EXCEPT !.node = n, !.algo = algo]
    IN  /\ sess[c].st = "PREINIT_DONE"
        /\ s_algo \in {"NONE", algo}
        /\ AllowOverlap \/ n \notin OtherNodes(c)
        /\ sess' = [sess EXCEPT ![c] =
                      IF granted
                      THEN [s EXCEPT !.st = "ACTIVE", !.ff_idx = i,
                                     !.has_config = FALSE, !.has_memb = FALSE]
                      ELSE [s EXCEPT !.st = "CLOSING"]]
        /\ IF granted
           THEN /\ ff' = [Allocate(ff, n, i) EXCEPT ![i].tb_mode = tb.mode,
                                                 ![i].tb_node = tb.node,
                                                 ![i].heur = "UNDEFINED"]
                /\ s_tp' = [s_tp EXCEPT ![i] = c]
                /\ s_st' = [s_st EXCEPT ![i] = Idle]
                /\ s_seq' = [s_seq EXCEPT ![i] = 0]
                /\ s_lms_last' = [s_lms_last EXCEPT ![i] = "NEW"]
                /\ s_algo' = algo
           ELSE UNCHANGED <<ff, s_tp, s_st, s_seq, s_lms_last, s_algo>>
        /\ UNCHANGED <<s_cluster, quorate, s_decided, s_phase, down, up, cvote>>

-----------------------------------------------------------------------------
(* Reports of an ACTIVE client *)

Reports(c) == sess[c].st = "ACTIVE" /\ Room

HeurOr(h, old) == IF h = "ABSENT" THEN old ELSE h

(* A membership list stored in the slot; an absent ring or heuristics      *)
(* result leaves the stored one.                                           *)
StoreMembership(t, i, v, h) ==
    [t EXCEPT ![i].memb = v.memb,
              ![i].ring = IF v.ring = NoRing THEN @ ELSE v.ring,
              ![i].heur = HeurOr(h, @)]

(* The tail of an FFSplit report: recompute once the session has sent both *)
(* lists, else answer ASK_LATER.                                           *)
RecomputeIfComplete(s, t) ==
    IF s.has_config /\ s.has_memb THEN Recompute(t, s_tp, down)
                                  ELSE UNCHANGED pushVars

(* NODE_LIST, FFSplit, initial or changed configuration. *)
ConfigList(c, cfg) ==
    LET s == [sess[c] EXCEPT !.has_config = TRUE]
        t == [ff EXCEPT ![s.ff_idx].cfg = cfg]
    IN  /\ Reports(c) /\ s_algo # "LMS"
        /\ sess[c].node \in cfg
        /\ sess' = [sess EXCEPT ![c] = s]
        /\ ff' = t
        /\ RecomputeIfComplete(s, t)
        /\ UNCHANGED <<s_cluster, s_algo, s_lms_last, s_tp, up, cvote>>

(* NODE_LIST, FFSplit, membership. *)
MembershipList(c, v, h) ==
    LET s == [sess[c] EXCEPT !.has_memb = TRUE]
        t == StoreMembership(ff, s.ff_idx, v, h)
    IN  /\ Reports(c) /\ s_algo # "LMS"
        /\ sess[c].node \in v.memb
        /\ sess' = [sess EXCEPT ![c] = s]
        /\ ff' = t
        /\ RecomputeIfComplete(s, t)
        /\ UNCHANGED <<s_cluster, s_algo, s_lms_last, s_tp, up, cvote>>

(* HEURISTICS_CHANGE, FFSplit (LMS ignores it). *)
HeuristicsChange(c, h) ==
    LET t == [ff EXCEPT ![sess[c].ff_idx].heur = h]
    IN  /\ Reports(c) /\ s_algo # "LMS"
        /\ h \in {"PASS", "FAIL"}
        /\ ff' = t
        /\ RecomputeIfComplete(sess[c], t)
        /\ UNCHANGED <<sess, s_cluster, s_algo, s_lms_last, s_tp, up, cvote>>

(* SET_OPTION: the keep-active flag is stored, nothing is recomputed.      *)
SetOption(c, kap) ==
    /\ Reports(c)
    /\ ff' = [ff EXCEPT ![sess[c].ff_idx].kap = kap]
    /\ UNCHANGED <<sess, s_cluster, s_algo, s_lms_last, s_tp, up, cvote, pushVars>>

(* An LMS reply carries the vote; only ACK and NACK change what is cast.   *)
WithReply(c, vote) ==
    IF vote = "WAIT" THEN down
    ELSE [down EXCEPT ![c] = Append(@, [kind |-> "REPLY", seq |-> 0,
                                        vote |-> vote])]

(* LMS: decide for the asking client, then refresh the others.             *)
LmsDecideAndRefresh(c, t) ==
    LET i    == sess[c].ff_idx
        vote == LmsVote(t, i, s_lms_last)
        last == [s_lms_last EXCEPT ![i] = LmsSaved(t, i, s_lms_last)]
    IN  Refresh(t, s_tp, last, {i}, WithReply(c, vote))

(* NODE_LIST, LMS, membership. *)
LmsMembershipList(c, v, h) ==
    LET t == StoreMembership(ff, sess[c].ff_idx, v, h)
    IN  /\ Reports(c) /\ s_algo = "LMS"
        /\ sess[c].node \in v.memb
        /\ sess' = [sess EXCEPT ![c].has_memb = TRUE]
        /\ ff' = t
        /\ LmsDecideAndRefresh(c, t)
        /\ UNCHANGED <<s_cluster, s_algo, s_tp, up, cvote,
                       quorate, s_decided, s_st, s_phase>>

(* NODE_LIST, LMS, quorum: decide for the sender only. *)
LmsQuorumList(c) ==
    LET i == sess[c].ff_idx
        vote == LmsVote(ff, i, s_lms_last)
    IN  /\ Reports(c) /\ s_algo = "LMS"
        /\ s_lms_last' = [s_lms_last EXCEPT ![i] = LmsSaved(ff, i, s_lms_last)]
        /\ down' = WithReply(c, vote)
        /\ UNCHANGED <<sess, s_cluster, s_algo, ff, s_tp, up, cvote,
                       quorate, s_decided, s_st, s_seq, s_phase>>

(* ASK_FOR_VOTE, LMS (FFSplit refuses it). *)
AskForVote(c) ==
    /\ Reports(c) /\ s_algo = "LMS"
    /\ LmsDecideAndRefresh(c, ff)
    /\ UNCHANGED <<sess, s_cluster, s_algo, ff, s_tp, up, cvote,
                   quorate, s_decided, s_st, s_phase>>

-----------------------------------------------------------------------------
(* VOTE_INFO_REPLY *)

AnyReply(i, seq) == s_st[i] \in {NackPending, AckPending}
ReplyBehind(i, seq) ==
    (seq + 1) % SeqMod = s_seq[i] /\ s_st[i] \in {NackPending, AckPending}

(* on_vote_info_reply: is this the answer to the last push to the slot?    *)
ReplyExpected(i, seq) ==
    s_seq[i] = seq /\ s_st[i] \in {NackPending, AckPending}

(* on_vote_info_reply once the slot is idle again (st is the new s_st):    *)
(* the last NACK answered releases the ACKs, the last ACK ends the round.  *)
AdvancePhase(st) ==
    LET open(S) == \E j \in Used(ff) : st[j] \in S
        due     == {j \in Used(ff) : st[j] = AckDue}
    IN  \/ /\ s_phase = 1 /\ ~open({NackDue, NackPending})
           /\ \E fail \in Failures :
                /\ s_st' = [j \in Slots |-> IF j \in due \ fail THEN AckPending
                                                                ELSE st[j]]
                /\ s_phase' = IF due \ fail # {} THEN 2 ELSE 0
                /\ s_seq' = Bumped(due)
                /\ down' = Pushed(down, s_tp, due \ fail, [j \in Slots |-> "ACK"])
        \/ /\ s_phase = 2 /\ ~open({AckDue, AckPending})
           /\ s_phase' = 0
           /\ s_st' = st
           /\ UNCHANGED <<s_seq, down>>
        \/ /\ \/ s_phase = 0
              \/ s_phase = 1 /\ open({NackDue, NackPending})
              \/ s_phase = 2 /\ open({AckDue, AckPending})
           /\ s_st' = st
           /\ UNCHANGED <<s_seq, s_phase, down>>

VoteInfoReply(c) ==
    LET i == sess[c].ff_idx
        seq == Head(up[c])
    IN  /\ sess[c].st = "ACTIVE"
        /\ up[c] # <<>>
        /\ up' = [up EXCEPT ![c] = Tail(@)]
        /\ IF s_algo = "FFSPLIT" /\ ReplyExpected(i, seq)
           THEN AdvancePhase([s_st EXCEPT ![i] = Idle])
           ELSE UNCHANGED <<s_st, s_seq, s_phase, down>>
        /\ UNCHANGED <<sess, s_cluster, s_algo, ff, s_lms_last, s_tp, cvote,
                       quorate, s_decided>>

(* External: corosync-qdevice applies a vote and acknowledges VOTE_INFO.   *)
ClientRecv(c) ==
    LET m == Head(down[c])
    IN  /\ down[c] # <<>>
        /\ down' = [down EXCEPT ![c] = Tail(@)]
        /\ cvote' = [cvote EXCEPT ![c] = m.vote]
        /\ up' = IF m.kind = "VOTE_INFO"
                 THEN [up EXCEPT ![c] = Append(@, m.seq)] ELSE up
        /\ UNCHANGED <<sess, s_cluster, s_algo, ff, s_lms_last, s_tp,
                       quorate, s_decided, s_st, s_seq, s_phase>>

-----------------------------------------------------------------------------
(* The end of a session *)

(* The receive loop is left: the peer closed or broke the framing, the     *)
(* dead-peer timer ran out, the handshake was slow, a reply was not sent.  *)
Break(c) ==
    /\ sess[c].st \in {"CONNECTED", "PREINIT_DONE", "ACTIVE"}
    /\ sess' = [sess EXCEPT ![c].st = "CLOSING"]
    /\ UNCHANGED <<s_cluster, s_algo, ff, s_lms_last, s_tp, up, cvote, pushVars>>

(* The client side of a connection that is gone. *)
Hangup(c) ==
    /\ sess' = [sess EXCEPT ![c] = FreeSession]
    /\ up' = [up EXCEPT ![c] = <<>>]
    /\ cvote' = [cvote EXCEPT ![c] = "NONE"]

Drained(c) == [down EXCEPT ![c] = <<>>]

(* A session that never got past the handshake leaves nothing behind.      *)
LeaveHandshake(c) ==
    /\ sess[c].st = "CLOSING" /\ sess[c].ff_idx = NoSlot
    /\ Hangup(c)
    /\ down' = Drained(c)
    /\ UNCHANGED <<s_cluster, s_algo, ff, s_lms_last, s_tp,
                   quorate, s_decided, s_st, s_seq, s_phase>>

(* What the epilogue does to the slot before it votes again. *)
ReleaseSlot(c) ==
    LET i == sess[c].ff_idx
    IN  /\ sess[c].st = "CLOSING" /\ i # NoSlot
        /\ ff' = Remove(ff, i)
        /\ s_tp' = [s_tp EXCEPT ![i] = NoConn]
        /\ Hangup(c)
        /\ UNCHANGED s_cluster

BoundForever(t) == s_algo

(* The algorithm the cluster t is left bound to. *)
AlgoAfterLeave(t) == IF Used(t) = {} THEN "NONE" ELSE s_algo

(* The last client left: the cluster's vote state is dropped. *)
LeaveLast(c) ==
    /\ ReleaseSlot(c)
    /\ Used(Remove(ff, sess[c].ff_idx)) = {}
    /\ s_lms_last' = [s_lms_last EXCEPT ![sess[c].ff_idx] = "NEW"]
    /\ s_algo' = AlgoAfterLeave(Remove(ff, sess[c].ff_idx))
    /\ quorate' = {}
    /\ s_decided' = FALSE
    /\ s_phase' = 0
    /\ down' = Drained(c)
    /\ UNCHANGED <<s_st, s_seq>>

(* FFSplit: the remaining clients are decided again. *)
LeaveFFSplit(c) ==
    LET i == sess[c].ff_idx
        t == Remove(ff, i)
        tp == [s_tp EXCEPT ![i] = NoConn]
    IN  /\ ReleaseSlot(c)
        /\ Used(t) # {}
        /\ s_algo = "FFSPLIT"
        /\ s_lms_last' = [s_lms_last EXCEPT ![i] = "NEW"]
        /\ s_algo' = AlgoAfterLeave(t)
        /\ Recompute(t, tp, Drained(c))

(* LMS: the remaining waiting clients are decided again. *)
LeaveLms(c) ==
    LET i == sess[c].ff_idx
        t == Remove(ff, i)
        tp == [s_tp EXCEPT ![i] = NoConn]
        last == [s_lms_last EXCEPT ![i] = "NEW"]
    IN  /\ ReleaseSlot(c)
        /\ Used(t) # {}
        /\ s_algo = "LMS"
        /\ s_algo' = AlgoAfterLeave(t)
        /\ Refresh(t, tp, last, {}, Drained(c))
        /\ UNCHANGED <<quorate, s_decided, s_st, s_phase>>
-----------------------------------------------------------------------------
(* A vote reaches its client, or a client's answer the server. *)
Delivery == \E c \in Conns : ClientRecv(c) \/ VoteInfoReply(c)

Next ==
    \E c \in Conns :
      \/ Connect(c)
      \/ \E name \in Names : Preinit(c, name)
      \/ \E name \in Names : PreinitRefused(c, name)
      \/ \E n \in NodeIds, algo \in Algos, tb \in TieBreakers :
            InitMsg(c, n, algo, tb)
      \/ \E cfg \in Configs : ConfigList(c, cfg)
      \/ \E v \in Views, h \in Heurs : MembershipList(c, v, h)
      \/ \E h \in Heurs : HeuristicsChange(c, h)
      \/ \E kap \in Kaps : SetOption(c, kap)
      \/ \E v \in Views, h \in Heurs : LmsMembershipList(c, v, h)
      \/ LmsQuorumList(c)
      \/ AskForVote(c)
      \/ VoteInfoReply(c)
      \/ ClientRecv(c)
      \/ Break(c)
      \/ LeaveHandshake(c)
      \/ LeaveLast(c)
      \/ LeaveFFSplit(c)
      \/ LeaveLms(c)

Spec == Init /\ [][Next]_vars

-----------------------------------------------------------------------------
(* Properties *)

TypeOK ==
    /\ sess \in [Conns -> Session]
    /\ s_cluster \in Names \cup {NoName}
    /\ s_algo \in {"NONE", "FFSPLIT", "LMS"}
    /\ ff \in Tables
    /\ quorate \in SUBSET NodeIds
    /\ s_decided \in BOOLEAN
    /\ s_st \in [Slots -> 0 .. 4]
    /\ s_seq \in [Slots -> 0 .. SeqMod - 1]
    /\ s_phase \in 0 .. 2
    /\ s_lms_last \in [Slots -> LmsResults]
    /\ s_tp \in [Slots -> Conns \cup {NoConn}]
    /\ down \in [Conns -> Seq(Message)]
    /\ up \in [Conns -> Seq(0 .. SeqMod - 1)]
    /\ cvote \in [Conns -> {"NONE", "ACK", "NACK"}]

(* Every used slot belongs to a session that is still there to free it,    *)
(* and its transport is that session's: a push never goes to a socket      *)
(* whose session has ended, and no vote outlives every session that could  *)
(* withdraw it (push_vote, session_task's epilogue).                       *)
SlotsAccounted ==
    \A i \in Used(ff) :
      /\ s_tp[i] \in Conns
      /\ sess[s_tp[i]].ff_idx = i
      /\ sess[s_tp[i]].st \in {"ACTIVE", "CLOSING"}

(* No two slots carry votes of one node: a node is never counted twice in  *)
(* a partition (qesp_ff_slot against the scans of stats and make_partitions). *)
NodeIdsUnique ==
    \A i, j \in Used(ff) : ff[i].node_id = ff[j].node_id => i = j

(* The cluster is bound to an algorithm exactly while it has clients: the  *)
(* last one to leave unbinds it, and nobody before (INIT, epilogue).       *)
AlgoBoundWhileUsed == (s_algo = "NONE") <=> (Used(ff) = {})

(* A session that is being served has a slot, and the slot is its node's:  *)
(* no other session ever frees it or hands it to another node.             *)
SessionsIndependent ==
    \A c \in Conns : sess[c].st = "ACTIVE" =>
      /\ sess[c].ff_idx \in Used(ff)
      /\ ff[sess[c].ff_idx].node_id = sess[c].node

(* No session is served by an algorithm other than the one it was granted  *)
(* in INIT (ALGORITHM_DIFFERS).                                            *)
SessionsShareAlgo ==
    \A c \in Conns : sess[c].st = "ACTIVE" => sess[c].algo = s_algo

(* FFSplit never has an ACK outstanding while a NACK of the same round is  *)
(* still to be sent or answered: NACKs before ACKs.                        *)
NacksBeforeAcks ==
    \A i, j \in Used(ff) :
      s_st[i] = AckPending => s_st[j] \notin {NackDue, NackPending}

(* Weaker, and so also when pushes fail: while some NACK round is open no  *)
(* ACK is outstanding (recompute, on_vote_info_reply).                     *)
NoAckInNackPhase ==
    s_phase = 1 => \A i \in Used(ff) : s_st[i] # AckPending

(* A vote the client c holds, or will hold once its queue drains, is ACK.  *)
MayHoldAck(c) ==
    \/ cvote[c] = "ACK"
    \/ \E k \in 1 .. Len(down[c]) : down[c][k].vote = "ACK"

(* FFSplit: outside the NACK phase no connected client outside the chosen  *)
(* partition holds an ACK or has one on its way.  This is what the         *)
(* NACK-then-ACK sequencing of recompute and on_vote_info_reply is for.    *)
AckHoldersChosen ==
    (s_algo = "FFSPLIT" /\ s_phase # 1) =>
      \A i \in Used(ff) : MayHoldAck(s_tp[i]) => ff[i].node_id \in quorate

(* An ACK is only ever due to a client that has reported a ring and a      *)
(* membership with itself in it, although recompute runs on other          *)
(* sessions' reports and skips the ASK_LATER check for everyone else.      *)
AckNeedsMembership ==
    \A i \in Used(ff) :
      s_st[i] \in {AckDue, AckPending} =>
        ff[i].ring # NoRing /\ ff[i].node_id \in ff[i].memb

(* FFSplit with keep-active on at every client: a decision takes the vote  *)
(* away from a partition some connected client still reports only for one  *)
(* that is larger than half, or beats it on score or, at equal score, on   *)
(* connected members; a node that comes back never wins it by the          *)
(* tie-breaker.  Reports of different times, a half beside a majority, are *)
(* left out: there the majority replaces the incumbent in the pass and is  *)
(* itself replaced by a later half.                                        *)
IncumbentKeeps ==
    [][\A i \in Used(ff') :
         (/\ KapOn(ff') /\ s_decided' /\ NoHalfBesideMajority(ff')
          /\ quorate' \notin {{}, quorate}
          /\ ff'[i].node_id \in quorate /\ ff'[i].memb = quorate)
           => \E j \in Used(ff') :
                /\ ff'[j].memb = quorate'
                /\ \/ 2 * Cardinality(quorate') > Cardinality(ff'[j].cfg)
                   \/ 2 * Cardinality(quorate) < Cardinality(ff'[j].cfg)
                   \/ Score(ff', j) > Score(ff', i)
                   \/ /\ Score(ff', j) = Score(ff', i)
                      /\ Cardinality(Active(ff', j))
                           > Cardinality(Active(ff', i))]_vars

(* LMS: no client is left waiting that the current reports would decide:   *)
(* lms_refresh_others stands in for the reference's timer.                 *)
NoStalledWaiter ==
    s_algo = "LMS" =>
      \A i \in Used(ff) :
        s_lms_last[i] = "WAIT" => LmsVote(ff, i, s_lms_last) = "WAIT"

(* LMS: a client that has never been given a vote is not given ACK while a *)
(* client on another ring holds one: "Newcomer facing another active       *)
(* partition: NACK" (qesp_lms_decide; docs/lms.md, rule 4: never voted,    *)
(* and still a newcomer the next time).  The code does not keep it: the    *)
(* WAIT it saves while rings differ makes a newcomer an established client *)
(* that takes part in the ranking.                                         *)
NewcomersDefer ==
    [][\A i, j \in Used(ff) \cap Used(ff') :
         (/\ i # j
          /\ cvote[s_tp[i]] = "NONE" /\ down[s_tp[i]] = <<>>
          /\ s_lms_last[i] # "ACK" /\ s_lms_last'[i] = "ACK"
          /\ s_lms_last[j] = "ACK" /\ s_lms_last'[j] = "ACK"
          /\ NoRing \notin {ff'[i].ring, ff'[j].ring})
           => ff'[i].ring = ff'[j].ring]_vars

(* FFSplit: every client has sent both lists and they agree.               *)
Settled ==
    /\ s_algo = "FFSPLIT"
    /\ \A c \in Conns : sess[c].st = "FREE" \/ (/\ sess[c].st = "ACTIVE"
                                                /\ sess[c].has_config
                                                /\ sess[c].has_memb)
    /\ Stable(ff)

(* Every client holds the vote of the last decision. *)
Agreed ==
    \A i \in Used(ff) : cvote[s_tp[i]] = Vote(ff[i].node_id \in quorate)

-----------------------------------------------------------------------------
(* What FFSplit promises: the abstract specification it implements *)

(* The nodes whose client holds an ACK or has one on its way. *)
Holders == {ff[i].node_id : i \in {j \in Used(ff) : MayHoldAck(s_tp[j])}}

VS == INSTANCE VoteService WITH Nodes <- NodeIds, chosen <- quorate,
                                holders <- Holders

(* FFSplit implements the vote of a quorum device: a client is given an    *)
(* ACK only if it and everyone who may still hold one are in the chosen    *)
(* partition, whatever is on its way and whoever leaves or reports         *)
(* meanwhile (recompute, drain_nacks, drain_acks, on_vote_info_reply).     *)
ImplementsVoteService == VS!Spec
=============================================================================
