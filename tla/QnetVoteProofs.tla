--------------------------- MODULE QnetVoteProofs ---------------------------
(***************************************************************************)
(* FFSplit's votes: the order in which they go out, what an ACK rests on   *)
(* (VoteInv), who holds one (HolderInv), and that the server implements    *)
(* VoteService.                                                            *)
(***************************************************************************)
EXTENDS QnetServerProofs

(* The push states a client may be in while s_phase = p and no push fails. *)
PhaseStates(p) == IF p = 0 THEN {Idle}
                  ELSE IF p = 1 THEN {Idle, AckDue, NackPending}
                  ELSE {Idle, AckPending}

PhaseExact == \A i \in Used(ff) : s_st[i] \in PhaseStates(s_phase)

(* Slot i of table t has reported a ring and a membership with its node.   *)
Reported(t, i) == t[i].ring # NoRing /\ t[i].node_id \in t[i].memb

(* The inductive invariant. *)
VoteInv ==
    /\ NoAckInNackPhase
    /\ ~SendMayFail => PhaseExact
    /\ ~AllowOverlap => AckNeedsMembership

(* The table t takes nothing back that a client of ff has reported.        *)
KeepsReports(t) ==
    /\ Used(t) \subseteq Used(ff)
    /\ ~AllowOverlap => \A i \in Used(t) : Reported(ff, i) => Reported(t, i)

LEMMA StatesDiffer ==
    /\ \A p : Idle \in PhaseStates(p)
    /\ Idle # AckPending /\ Idle # AckDue /\ Idle # NackDue
    /\ NackPending # AckPending /\ NackPending # AckDue
    /\ NackDue # AckPending /\ NackDue # AckDue /\ AckDue # AckPending
    /\ NackPending # NackDue /\ Idle # NackPending
BY DEF PhaseStates, Idle, AckPending, AckDue, NackDue, NackPending

(* A step that pushes nothing. *)
LEMMA QuietStep ==
    ASSUME VoteInv, UNCHANGED <<s_st, s_phase>>, KeepsReports(ff')
    PROVE  VoteInv'
<1>1. NoAckInNackPhase'
  BY DEF VoteInv, NoAckInNackPhase, KeepsReports
<1>2. ~SendMayFail => PhaseExact'
  BY DEF VoteInv, PhaseExact, KeepsReports
<1>3. ~AllowOverlap => AckNeedsMembership'
  BY DEF VoteInv, AckNeedsMembership, KeepsReports, Reported
<1>4. QED BY <1>1, <1>2, <1>3 DEF VoteInv

(* recompute: the push states it leaves fit the phase it leaves, and every *)
(* client it means to ACK has reported the chosen membership.              *)
LEMMA RecomputeVotes ==
    ASSUME TypeOK, VoteInv, NEW t \in Tables, NEW tp, NEW q, ff' = t,
           KeepsReports(t), NodeIdsUnique', Recompute(t, tp, q)
    PROVE  VoteInv'
<1>1. CASE RecomputeUnstable(t, q)
  BY <1>1, QuietStep DEF RecomputeUnstable
<1>2. CASE RecomputeStable(t, tp, q)
  <2> DEFINE chosen == Decide(t, quorate)
             acks == {i \in Used(t) : t[i].node_id \in chosen}
             nacks == Used(t) \ acks
             nackSent(f) == nacks \ f
             ackTried(f) == AcksTried(nackSent(f), acks)
             ackSent(f) == ackTried(f) \ f
  <2>1. PICK fail \in Failures :
          /\ s_st' = [i \in Slots |->
                        IF i \in nackSent(fail) THEN NackPending
                        ELSE IF i \in ackSent(fail) THEN AckPending
                        ELSE IF i \in nacks THEN NackDue
                        ELSE IF i \in acks THEN AckDue
                        ELSE s_st[i]]
          /\ s_phase' = IF nackSent(fail) # {} THEN 1
                        ELSE IF ackSent(fail) # {} THEN 2 ELSE 0
    BY <1>2, Zenon DEF RecomputeStable
  <2>2. Stable(t)
    BY <1>2 DEF RecomputeStable
  <2>3. /\ Used(ff') = Used(t) /\ Used(t) \subseteq Slots
        /\ Used(t) = acks \cup nacks
    BY DEF Used
  <2>4. \A i \in acks : Reported(t, i)
    <3> SUFFICES ASSUME NEW i \in acks PROVE Reported(t, i)
      OBVIOUS
    <3>1. OneSlotEach(t)
      BY DEF NodeIdsUnique, OneSlotEach
    <3>2. i \in Used(t) /\ t[i].node_id \in Decide(t, quorate)
      OBVIOUS
    <3>3. t[i].memb = Decide(t, quorate) /\ t[i].ring # NoRing
      BY <2>2, <3>1, <3>2, AckedShareOneView
    <3>4. QED BY <3>2, <3>3 DEF Reported
  <2>5. /\ ackSent(fail) \subseteq acks
        /\ nackSent(fail) # {} => ackSent(fail) = {}
    BY DEF AcksTried
  <2>6. ASSUME ~SendMayFail
        PROVE  /\ nackSent(fail) = nacks
               /\ nacks = {} => ackSent(fail) = acks
    BY <2>6 DEF Failures, AcksTried
  <2>7. acks \cap nacks = {} /\ nackSent(fail) \subseteq nacks
    OBVIOUS
  <2> HIDE DEF chosen, acks, nacks, nackSent, ackTried, ackSent
  <2>8. NoAckInNackPhase'
    BY <2>1, <2>3, <2>5, <2>7, StatesDiffer DEF NoAckInNackPhase
  <2>9. ASSUME ~SendMayFail PROVE PhaseExact'
    <3>1. CASE nacks # {}
      <4>1. s_phase' = 1
        BY <2>1, <2>6, <2>9, <3>1
      <4>2. \A i \in Used(t) : s_st'[i] \in {NackPending, AckDue}
        BY <2>1, <2>3, <2>5, <2>6, <2>9, <3>1
      <4>3. QED BY <2>3, <4>1, <4>2 DEF PhaseExact, PhaseStates
    <3>2. CASE nacks = {} /\ acks # {}
      <4>1. s_phase' = 2
        BY <2>1, <2>6, <2>9, <3>2
      <4>2. \A i \in Used(t) : s_st'[i] = AckPending
        BY <2>1, <2>3, <2>6, <2>9, <3>2
      <4>3. QED BY <2>3, <4>1, <4>2 DEF PhaseExact, PhaseStates
    <3>3. CASE nacks = {} /\ acks = {}
      BY <2>3, <3>3 DEF PhaseExact
    <3>4. QED BY <3>1, <3>2, <3>3
  <2>10. AckNeedsMembership'
    <3>1. ASSUME NEW i \in Used(t), s_st'[i] \in {AckDue, AckPending}
          PROVE  i \in acks
      BY <2>1, <2>3, <2>5, <2>7, <3>1, StatesDiffer
    <3>2. QED BY <2>3, <2>4, <3>1 DEF AckNeedsMembership, Reported
  <2>11. QED BY <2>8, <2>9, <2>10 DEF VoteInv
<1>3. QED BY <1>1, <1>2 DEF Recompute

(* on_vote_info_reply: the last NACK answered releases the ACKs. *)
LEMMA ReplyVotes ==
    ASSUME TypeOK, VoteInv, NEW i \in Slots, UNCHANGED ff,
           AdvancePhase([s_st EXCEPT ![i] = Idle])
    PROVE  VoteInv'
<1> DEFINE st == [s_st EXCEPT ![i] = Idle]
           due == {j \in Used(ff) : st[j] = AckDue}
<1>1. \A j \in Slots : st[j] = IF j = i THEN Idle ELSE s_st[j]
  BY TypeParts DEF PushTypes
<1>2. Used(ff) \subseteq Slots /\ Used(ff') = Used(ff)
  BY DEF Used
<1>3. ~SendMayFail => \A j \in Used(ff) : st[j] \in PhaseStates(s_phase)
  BY <1>1, <1>2, StatesDiffer DEF VoteInv, PhaseExact
<1>4. ~AllowOverlap => \A j \in Used(ff) :
         st[j] \in {AckDue, AckPending} => Reported(ff, j)
  BY <1>1, <1>2, StatesDiffer DEF VoteInv, AckNeedsMembership, Reported
<1>5. s_phase = 1 => \A j \in Used(ff) : st[j] # AckPending
  BY <1>1, <1>2, StatesDiffer DEF VoteInv, NoAckInNackPhase
<1> HIDE DEF st
<1>6. ASSUME NEW fail \in Failures, s_phase = 1,
             ~ \E j \in Used(ff) : st[j] \in {NackDue, NackPending},
             s_st' = [j \in Slots |-> IF j \in due \ fail THEN AckPending
                                                          ELSE st[j]],
             s_phase' = IF due \ fail # {} THEN 2 ELSE 0
      PROVE  VoteInv'
  <2>1. NoAckInNackPhase'
    BY <1>6 DEF NoAckInNackPhase
  <2>2. ASSUME ~SendMayFail PROVE PhaseExact'
    <3>1. due \ fail = due
      BY <2>2, <1>6 DEF Failures
    <3>2. \A j \in Used(ff) : st[j] \in {Idle, AckDue}
      BY <1>3, <1>6, <2>2 DEF PhaseStates
    <3>3. \A j \in Used(ff) : s_st'[j] = IF j \in due THEN AckPending ELSE Idle
      BY <1>2, <1>6, <3>1, <3>2
    <3> HIDE DEF due
    <3>4. CASE due = {}
      BY <1>2, <1>6, <3>1, <3>3, <3>4 DEF PhaseExact, PhaseStates
    <3>5. CASE due # {}
      BY <1>2, <1>6, <3>1, <3>3, <3>5 DEF PhaseExact, PhaseStates
    <3>6. QED BY <3>4, <3>5
  <2>3. ~AllowOverlap => AckNeedsMembership'
    <3>1. \A j \in Used(ff) : s_st'[j] \in {AckDue, AckPending} =>
                                st[j] \in {AckDue, AckPending}
      BY <1>2, <1>6
    <3>2. QED BY <1>2, <1>4, <3>1 DEF AckNeedsMembership, Reported
  <2>4. QED BY <2>1, <2>2, <2>3 DEF VoteInv
<1>7. ASSUME s_phase = 2,
             ~ \E j \in Used(ff) : st[j] \in {AckDue, AckPending},
             s_phase' = 0, s_st' = st
      PROVE  VoteInv'
  <2>1. NoAckInNackPhase'
    BY <1>7 DEF NoAckInNackPhase
  <2>2. ~SendMayFail => PhaseExact'
    BY <1>2, <1>3, <1>7 DEF PhaseExact, PhaseStates
  <2>3. AckNeedsMembership'
    BY <1>2, <1>7 DEF AckNeedsMembership
  <2>4. QED BY <2>1, <2>2, <2>3 DEF VoteInv
<1>8. ASSUME s_st' = st, UNCHANGED s_phase PROVE VoteInv'
  <2>1. NoAckInNackPhase'
    BY <1>2, <1>5, <1>8 DEF NoAckInNackPhase
  <2>2. ~SendMayFail => PhaseExact'
    BY <1>2, <1>3, <1>8 DEF PhaseExact
  <2>3. ~AllowOverlap => AckNeedsMembership'
    BY <1>2, <1>4, <1>8 DEF AckNeedsMembership, Reported
  <2>4. QED BY <2>1, <2>2, <2>3 DEF VoteInv
<1>9. AdvancePhase(st)
  BY DEF st
<1>10. QED BY <1>6, <1>7, <1>8, <1>9, Zenon DEF AdvancePhase

-----------------------------------------------------------------------------
(* What each kind of report does to the table. *)
LEMMA MembershipKeeps ==
    ASSUME TypeOK, SlotInv, NEW c \in Conns, sess[c].st = "ACTIVE",
           NEW v \in Views, NEW h, sess[c].node \in v.memb
    PROVE  KeepsReports(StoreMembership(ff, sess[c].ff_idx, v, h))
<1> DEFINE i == sess[c].ff_idx
           t == StoreMembership(ff, i, v, h)
<1>1. i \in Slots /\ ff \in Tables
  BY TypeParts DEF SlotInv, ActiveHasSlot, RestTypes
<1>2. Used(t) = Used(ff)
  BY <1>1, StoreFrame
<1>3. ASSUME ~AllowOverlap, NEW j \in Used(t), Reported(ff, j)
      PROVE  Reported(t, j)
  <2>1. ff[i].node_id = sess[c].node
    BY <1>1, <1>3, NoSlotIsNoSlot DEF SlotInv, OwnSlots
  <2>2. j \in Slots
    BY DEF Used
  <2> HIDE DEF i
  <2>3. CASE j = i
    BY <1>1, <1>3, <2>1, <2>3 DEF StoreMembership, Reported, Tables, Client
  <2>4. CASE j # i
    <3>1. t[j] = ff[j]
      BY <1>1, <2>2, <2>4 DEF StoreMembership, Tables
    <3>2. QED BY <1>3, <3>1 DEF Reported
  <2>5. QED BY <2>3, <2>4
<1>4. QED BY <1>2, <1>3 DEF KeepsReports

LEMMA FieldsKeep ==
    ASSUME TypeOK, NEW i \in Slots, NEW x,
           \/ ff' = [ff EXCEPT ![i].cfg = x]
           \/ ff' = [ff EXCEPT ![i].heur = x]
           \/ ff' = [ff EXCEPT ![i].kap = x]
    PROVE  KeepsReports(ff')
<1>1. ff \in Tables
  BY TypeParts DEF RestTypes
<1>2. \A j \in Slots : /\ ff'[j].used = ff[j].used
                       /\ ff'[j].ring = ff[j].ring
                       /\ ff'[j].memb = ff[j].memb
                       /\ ff'[j].node_id = ff[j].node_id
  BY <1>1 DEF Tables, Client
<1>3. QED BY <1>2 DEF KeepsReports, Reported, Used

LEMMA RemoveKeeps ==
    ASSUME TypeOK, NEW i \in Slots, ff' = Remove(ff, i)
    PROVE  KeepsReports(ff')
<1>1. ff \in Tables
  BY TypeParts DEF RestTypes
<1>2. Used(ff') \subseteq Used(ff)
  BY <1>1, RemoveType
<1>3. \A j \in Slots : /\ ff'[j].ring = ff[j].ring
                       /\ ff'[j].memb = ff[j].memb
                       /\ ff'[j].node_id = ff[j].node_id
  BY <1>1 DEF Remove, Tables, Client
<1>4. Used(ff') \subseteq Slots
  BY DEF Used
<1>5. QED BY <1>2, <1>3, <1>4 DEF KeepsReports, Reported

(* A report that recomputes only once both lists are there. *)
LEMMA TailVotes ==
    ASSUME TypeOK, TypeOK', VoteInv, NEW s, NEW t, ff' = t, KeepsReports(t),
           NodeIdsUnique', RecomputeIfComplete(s, t)
    PROVE  VoteInv'
<1>1. t \in Tables
  BY TypeParts DEF RestTypes
<1>2. CASE Recompute(t, s_tp, down)
  BY <1>1, <1>2, RecomputeVotes
<1>3. CASE UNCHANGED pushVars
  BY <1>3, QuietStep DEF pushVars
<1>4. QED BY <1>2, <1>3, Zenon DEF RecomputeIfComplete

(* INIT puts the slot it takes into the idle push state. *)
LEMMA InitMsgVotes ==
    ASSUME TypeOK, VoteInv, NEW c \in Conns, NEW n \in NodeIds,
           NEW algo \in Algos, NEW tb \in TieBreakers, InitMsg(c, n, algo, tb)
    PROVE  VoteInv'
<1> DEFINE i == SlotFor(ff, n)
<1>1. ff \in Tables /\ s_st \in [Slots -> 0 .. 4]
  BY TypeParts DEF RestTypes, PushTypes
<1>2. s_phase' = s_phase
  BY DEF InitMsg
<1>3. CASE i = NoSlot
  <2>1. UNCHANGED <<ff, s_st>>
    BY <1>3, Zenon DEF InitMsg
  <2>2. KeepsReports(ff')
    BY <2>1 DEF KeepsReports
  <2>3. QED BY <1>2, <2>1, <2>2, QuietStep
<1>4. CASE i # NoSlot
  <2>1. i \in Slots
    BY <1>4, SlotForType
  <2>2. /\ ff' = [Allocate(ff, n, i) EXCEPT ![i].tb_mode = tb.mode,
                                            ![i].tb_node = tb.node,
                                            ![i].heur = "UNDEFINED"]
        /\ s_st' = [s_st EXCEPT ![i] = Idle]
    BY <1>4, Zenon DEF InitMsg
  <2> DEFINE u == Allocate(ff, n, i)
  <2> HIDE DEF i
  <2>3. u \in [Slots -> Client] /\ \A j \in Slots \ {i} : u[j] = ff[j]
    <3>1. [ZeroClient EXCEPT !.used = TRUE, !.node_id = n] \in Client
      BY ZeroClientType DEF Client
    <3>2. QED BY <1>1, <2>1, <3>1 DEF Allocate, Tables
  <2> HIDE DEF u
  <2>4. \A j \in Slots \ {i} : ff'[j] = ff[j]
    BY <2>1, <2>2, <2>3 DEF u
  <2>5. /\ s_st'[i] = Idle
        /\ \A j \in Slots \ {i} : s_st'[j] = s_st[j]
    BY <1>1, <2>1, <2>2
  <2>6. \A j \in Used(ff') \ {i} : j \in Used(ff) /\ j \in Slots \ {i}
    BY <2>4 DEF Used
  <2>7. NoAckInNackPhase'
    BY <1>2, <2>5, <2>6, StatesDiffer DEF VoteInv, NoAckInNackPhase
  <2>8. ~SendMayFail => PhaseExact'
    BY <1>2, <2>5, <2>6, StatesDiffer DEF VoteInv, PhaseExact
  <2>9. ~AllowOverlap => AckNeedsMembership'
    BY <2>4, <2>5, <2>6, StatesDiffer DEF VoteInv, AckNeedsMembership
  <2>10. QED BY <2>7, <2>8, <2>9 DEF VoteInv
<1>5. QED BY <1>3, <1>4

LEMMA InitialVotes == Init => VoteInv
<1> SUFFICES ASSUME Init PROVE VoteInv
  OBVIOUS
<1>1. Used(ff) = {}
  BY EmptyTableType DEF Init
<1>2. QED
  BY <1>1 DEF VoteInv, NoAckInNackPhase, PhaseExact, AckNeedsMembership

(* Every step keeps the vote invariant. *)
LEMMA VoteStep ==
    ASSUME TypeOK, TypeOK', SlotInv, SlotInv', VoteInv, Next
    PROVE  VoteInv'
<1>0. PICK c \in Conns :
      \/ Connect(c)
      \/ \E name \in Names : Preinit(c, name)
      \/ \E name \in Names : PreinitRefused(c, name)
      \/ \E n \in NodeIds, algo \in Algos, tb \in TieBreakers :
            InitMsg(c, n, algo, tb)
      \/ \E cfg \in Configs : ConfigList(c, cfg)
      \/ \E v \in Views, h \in Heurs : MembershipList(c, v, h)
      \/ \E h \in Heurs : HeuristicsChange(c, h)
      \/ \E kap \in Kaps : SetOption(c, kap)
      \/ \E v \in Views, h \in Heurs : LmsMembershipList(c, v, h)
      \/ LmsQuorumList(c)
      \/ AskForVote(c)
      \/ VoteInfoReply(c)
      \/ ClientRecv(c)
      \/ Break(c)
      \/ LeaveHandshake(c)
      \/ LeaveLast(c)
      \/ LeaveFFSplit(c)
      \/ LeaveLms(c)
  BY Zenon DEF Next
<1> DEFINE i == sess[c].ff_idx
<1>slot. /\ sess[c].st = "ACTIVE" => i \in Slots
         /\ sess \in [Conns -> Session] /\ sess[c] \in Session
  BY TypeParts DEF SlotInv, ActiveHasSlot, RestTypes
<1>unique. NodeIdsUnique'
  BY DEF SlotInv
<1>1. CASE UNCHANGED <<ff, s_st, s_phase>>
  <2>1. KeepsReports(ff')
    BY <1>1 DEF KeepsReports
  <2>2. QED BY <1>1, <2>1, QuietStep
<1>2. ASSUME \/ Connect(c) \/ Break(c) \/ LeaveHandshake(c)
             \/ \E name \in Names : Preinit(c, name) \/ PreinitRefused(c, name)
             \/ LmsQuorumList(c) \/ AskForVote(c) \/ ClientRecv(c)
      PROVE  UNCHANGED <<ff, s_st, s_phase>>
  BY <1>2 DEF Connect, Break, LeaveHandshake, Preinit, PreinitRefused,
         LmsQuorumList, AskForVote, ClientRecv, pushVars
<1>3. ASSUME NEW n \in NodeIds, NEW algo \in Algos, NEW tb \in TieBreakers,
             InitMsg(c, n, algo, tb)
      PROVE  VoteInv'
  BY <1>3, InitMsgVotes
<1>4. ASSUME NEW cfg \in Configs, ConfigList(c, cfg) PROVE VoteInv'
  <2> DEFINE s == [sess[c] EXCEPT !.has_config = TRUE]
  <2>1. s.ff_idx = i
    BY <1>slot DEF Session
  <2>2. /\ ff' = [ff EXCEPT ![i].cfg = cfg]
        /\ RecomputeIfComplete(s, ff')
        /\ i \in Slots
    BY <1>4, <2>1, <1>slot DEF ConfigList, Reports
  <2>3. KeepsReports(ff')
    BY <2>2, FieldsKeep
  <2> HIDE DEF s
  <2>4. QED BY <2>2, <2>3, <1>unique, TailVotes
<1>5. ASSUME NEW v \in Views, NEW h \in Heurs, MembershipList(c, v, h)
      PROVE  VoteInv'
  <2> DEFINE s == [sess[c] EXCEPT !.has_memb = TRUE]
  <2>1. s.ff_idx = i
    BY <1>slot DEF Session
  <2>2. /\ ff' = StoreMembership(ff, i, v, h)
        /\ RecomputeIfComplete(s, ff')
        /\ sess[c].st = "ACTIVE" /\ sess[c].node \in v.memb
    BY <1>5, <2>1 DEF MembershipList, Reports
  <2>3. KeepsReports(ff')
    BY <2>2, MembershipKeeps
  <2> HIDE DEF s
  <2>4. QED BY <2>2, <2>3, <1>unique, TailVotes
<1>6. ASSUME NEW h \in Heurs, HeuristicsChange(c, h) PROVE VoteInv'
  <2>1. /\ ff' = [ff EXCEPT ![i].heur = h]
        /\ RecomputeIfComplete(sess[c], ff')
        /\ i \in Slots
    BY <1>6, <1>slot DEF HeuristicsChange, Reports
  <2>2. KeepsReports(ff')
    BY <2>1, FieldsKeep
  <2>3. QED BY <2>1, <2>2, <1>unique, TailVotes
<1>7. ASSUME NEW kap \in Kaps, SetOption(c, kap) PROVE VoteInv'
  <2>1. /\ ff' = [ff EXCEPT ![i].kap = kap]
        /\ i \in Slots /\ UNCHANGED <<s_st, s_phase>>
    BY <1>7, <1>slot DEF SetOption, Reports, pushVars
  <2>2. KeepsReports(ff')
    BY <2>1, FieldsKeep
  <2>3. QED BY <2>1, <2>2, QuietStep
<1>8. ASSUME NEW v \in Views, NEW h \in Heurs, LmsMembershipList(c, v, h)
      PROVE  VoteInv'
  <2>1. /\ ff' = StoreMembership(ff, i, v, h)
        /\ sess[c].st = "ACTIVE" /\ sess[c].node \in v.memb
        /\ UNCHANGED <<s_st, s_phase>>
    BY <1>8 DEF LmsMembershipList, Reports
  <2>2. KeepsReports(ff')
    BY <2>1, MembershipKeeps
  <2>3. QED BY <2>1, <2>2, QuietStep
<1>9. CASE VoteInfoReply(c)
  <2>1. i \in Slots /\ UNCHANGED ff
    BY <1>9, <1>slot DEF VoteInfoReply
  <2>2. CASE AdvancePhase([s_st EXCEPT ![i] = Idle])
    BY <2>1, <2>2, ReplyVotes
  <2>3. CASE UNCHANGED <<s_st, s_seq, s_phase, down>>
    BY <1>1, <2>1, <2>3
  <2>4. QED BY <1>9, <2>2, <2>3, Zenon DEF VoteInfoReply
<1>10. ASSUME ReleaseSlot(c) PROVE i \in Slots /\ ff' = Remove(ff, i)
  BY <1>10, ReleaseTypes DEF ReleaseSlot
<1>11. CASE LeaveLast(c)
  <2>1. Used(ff') = {}
    BY <1>10, <1>11 DEF LeaveLast
  <2>2. QED
    BY <2>1 DEF VoteInv, NoAckInNackPhase, PhaseExact, AckNeedsMembership
<1>12. CASE LeaveFFSplit(c)
  <2> DEFINE tp == [s_tp EXCEPT ![i] = NoConn]
  <2>1. ReleaseSlot(c) /\ Recompute(Remove(ff, i), tp, Drained(c))
    BY <1>12, Zenon DEF LeaveFFSplit
  <2> HIDE DEF tp
  <2>2. /\ Recompute(ff', tp, Drained(c))
        /\ KeepsReports(ff') /\ ff' \in Tables
    BY <1>10, <2>1, RemoveKeeps, ReleaseTypes
  <2>3. QED BY <2>2, <1>unique, RecomputeVotes
<1>13. CASE LeaveLms(c)
  <2>1. ReleaseSlot(c) /\ UNCHANGED <<s_st, s_phase>>
    BY <1>13 DEF LeaveLms
  <2>2. QED BY <1>10, <2>1, RemoveKeeps, QuietStep
<1>14. QED
  BY <1>0, <1>1, <1>2, <1>3, <1>4, <1>5, <1>6, <1>7, <1>8, <1>9, <1>11,
     <1>12, <1>13

(* Every reachable state satisfies the vote invariant. *)
THEOREM VoteInvariant == Spec => []VoteInv
<1>1. Init => VoteInv
  BY InitialVotes
<1>2. TypeOK /\ SlotInv /\ (TypeOK /\ SlotInv)' /\ VoteInv /\ [Next]_vars
        => VoteInv'
  <2> SUFFICES ASSUME TypeOK, TypeOK', SlotInv, SlotInv', VoteInv, [Next]_vars
               PROVE  VoteInv'
    OBVIOUS
  <2>1. CASE UNCHANGED vars
    <3>1. UNCHANGED <<ff, s_st, s_phase>>
      BY <2>1 DEF vars, pushVars
    <3>2. KeepsReports(ff')
      BY <3>1 DEF KeepsReports
    <3>3. QED BY <3>1, <3>2, QuietStep
  <2>2. QED BY <2>1, VoteStep
<1>3. QED BY <1>1, <1>2, SlotInvariant, PTL DEF Spec

(* Even when pushes fail and sessions overlap, no ACK is outstanding while *)
(* a NACK round is open (recompute, on_vote_info_reply).                   *)
THEOREM NackPhaseSafety == Spec => []NoAckInNackPhase
<1>1. VoteInv => NoAckInNackPhase
  BY DEF VoteInv
<1>2. QED BY <1>1, VoteInvariant, PTL

(* When no push fails, FFSplit has no ACK outstanding while a NACK of the  *)
(* round is unsent or unanswered: what s_phase and the matching of         *)
(* VOTE_INFO_REPLY in on_vote_info_reply are for.                          *)
THEOREM NacksGoFirst ==
    ASSUME SendMayFail = FALSE
    PROVE  Spec => []NacksBeforeAcks
<1>1. TypeOK /\ VoteInv => NacksBeforeAcks
  <2> SUFFICES ASSUME TypeOK, VoteInv, NEW i \in Used(ff), NEW j \in Used(ff),
                      s_st[i] = AckPending
               PROVE  s_st[j] \notin {NackDue, NackPending}
    BY DEF NacksBeforeAcks
  <2>1. s_st[i] \in PhaseStates(s_phase) /\ s_st[j] \in PhaseStates(s_phase)
    BY DEF VoteInv, PhaseExact
  <2>2. s_phase # 0 /\ s_phase # 1
    BY <2>1, StatesDiffer DEF PhaseStates
  <2>3. s_st[j] \in {Idle, AckPending}
    BY <2>1, <2>2 DEF PhaseStates
  <2>4. QED BY <2>3, StatesDiffer
<1>2. QED BY <1>1, SlotInvariant, VoteInvariant, PTL

(* As long as no node has two sessions, FFSplit means to ACK only clients  *)
(* that have reported a ring and a membership with themselves in it,       *)
(* although recompute checks has_config and has_memb of the reporting      *)
(* session only.                                                           *)
THEOREM AcksRestOnReports ==
    ASSUME AllowOverlap = FALSE
    PROVE  Spec => []AckNeedsMembership
<1>1. VoteInv => AckNeedsMembership
  BY DEF VoteInv
<1>2. QED BY <1>1, VoteInvariant, PTL

-----------------------------------------------------------------------------
(* Who holds an ACK *)

(* No connection has more unanswered pushes on its way, there and back,    *)
(* than there are sequence numbers.                                        *)
FewInFlight == \A c \in Conns : Len(down[c]) + Len(up[c]) <= SeqMod

(* The sequence number taken n pushes before s. *)
Back(s, n) == IF n <= s THEN s - n ELSE s - n + SeqMod

(* d is on its way to a client and u from it; s is the last sequence       *)
(* number taken for it: u, then d, carries the numbers up to s in order.   *)
Aligned(u, d, s) ==
    /\ \A k \in 1 .. Len(d) : /\ d[k].kind = "VOTE_INFO"
                              /\ d[k].seq = Back(s, Len(d) - k)
    /\ \A k \in 1 .. Len(u) : u[k] = Back(s, Len(d) + Len(u) - k)

(* The vote a client that holds v ends up with. *)
Standing(d, v) == IF d = <<>> THEN v ELSE d[Len(d)].vote

HoldsAck(d, v) == v = "ACK" \/ \E k \in 1 .. Len(d) : d[k].vote = "ACK"

(* One client: what its push state st says of the last decision (in: its   *)
(* node is chosen) and of the votes it holds and is being sent.            *)
ClientOK(u, d, v, s, st, in) ==
    /\ Aligned(u, d, s)
    /\ st \in {AckDue, AckPending} => in
    /\ st = NackPending => ~in /\ Standing(d, v) = "NACK"
    /\ st = Idle /\ ~in => ~HoldsAck(d, v)

(* Nothing is on its way on a connection without a slot.                   *)
Unserved ==
    \A c \in Conns : sess[c].ff_idx = NoSlot =>
      down[c] = <<>> /\ up[c] = <<>> /\ cvote[c] = "NONE"

ClientsOK ==
    \A i \in Used(ff) :
      ClientOK(up[s_tp[i]], down[s_tp[i]], cvote[s_tp[i]], s_seq[i], s_st[i],
               ff[i].node_id \in quorate)

(* The inductive invariant. *)
HolderInv == Unserved /\ (s_algo = "FFSPLIT" => ClientsOK)

-----------------------------------------------------------------------------
VoteInfo(seq, vote) == [kind |-> "VOTE_INFO", seq |-> seq, vote |-> vote]

LEMMA NextSeq ==
    ASSUME NEW s \in Seqs
    PROVE  (s + 1) % SeqMod = IF s + 1 = SeqMod THEN 0 ELSE s + 1
BY SeqModAssumption DEF Seqs

LEMMA BackStep ==
    ASSUME NEW s \in Seqs, NEW n \in Nat, n + 1 < SeqMod
    PROVE  Back((s + 1) % SeqMod, n + 1) = Back(s, n)
BY NextSeq, SeqModAssumption DEF Seqs, Back

LEMMA BackZero ==
    ASSUME NEW s \in Seqs
    PROVE  Back(s, 0) = s
BY SeqModAssumption DEF Seqs, Back

(* push_vote takes the next number and appends. *)
LEMMA PushAligned ==
    ASSUME NEW u \in Seq(Seqs), NEW d \in Seq(Message), NEW s \in Seqs,
           NEW w \in {"ACK", "NACK"}, Aligned(u, d, s),
           Len(d) + 1 + Len(u) <= SeqMod
    PROVE  LET e == Append(d, VoteInfo((s + 1) % SeqMod, w))
           IN  /\ Aligned(u, e, (s + 1) % SeqMod)
               /\ \A v : Standing(e, v) = w
<1> DEFINE z == (s + 1) % SeqMod
           m == VoteInfo(z, w)
           e == Append(d, m)
<1>1. z \in Seqs /\ Back(z, 0) = z
  BY SeqsBasics, BackZero
<1>2. \A n \in Nat : n + 1 < SeqMod => Back(z, n + 1) = Back(s, n)
  BY BackStep
<1> HIDE DEF z
<1>3. m \in Message /\ m.kind = "VOTE_INFO" /\ m.seq = z /\ m.vote = w
  BY <1>1 DEF Message, Seqs, VoteInfo
<1> HIDE DEF m
<1>4. /\ e # <<>> /\ Len(e) = Len(d) + 1
      /\ \A k \in 1 .. Len(d) : e[k] = d[k]
      /\ e[Len(d) + 1] = m
  BY <1>3, AppendProperties
<1> HIDE DEF e
<1>5. Len(d) \in Nat /\ Len(u) \in Nat /\ SeqMod \in Nat
  BY LenProperties, SeqModAssumption
<1>6. ASSUME NEW k \in 1 .. Len(e)
      PROVE  e[k].kind = "VOTE_INFO" /\ e[k].seq = Back(z, Len(e) - k)
  <2>1. CASE k = Len(d) + 1
    BY <1>1, <1>3, <1>4, <1>5, <2>1
  <2>2. CASE k \in 1 .. Len(d)
    <3>1. e[k].kind = "VOTE_INFO" /\ e[k].seq = Back(s, Len(d) - k)
      BY <1>4, <2>2 DEF Aligned
    <3>2. Len(d) - k \in Nat /\ (Len(d) - k) + 1 < SeqMod
      BY <1>5, <2>2
    <3>3. Back(z, (Len(d) - k) + 1) = Back(s, Len(d) - k)
      BY <1>2, <3>2
    <3>4. Len(e) - k = (Len(d) - k) + 1
      BY <1>4, <1>5
    <3>5. QED BY <3>1, <3>3, <3>4
  <2>3. QED BY <1>4, <1>5, <2>1, <2>2
<1>7. ASSUME NEW k \in 1 .. Len(u) PROVE u[k] = Back(z, Len(e) + Len(u) - k)
  <2>1. u[k] = Back(s, Len(d) + Len(u) - k)
    BY DEF Aligned
  <2>2. Len(d) + Len(u) - k \in Nat /\ (Len(d) + Len(u) - k) + 1 < SeqMod
    BY <1>5
  <2>3. Back(z, (Len(d) + Len(u) - k) + 1) = Back(s, Len(d) + Len(u) - k)
    BY <1>2, <2>2
  <2>4. Len(e) + Len(u) - k = (Len(d) + Len(u) - k) + 1
    BY <1>4, <1>5
  <2>5. QED BY <2>1, <2>3, <2>4
<1>8. Aligned(u, e, z)
  BY <1>6, <1>7 DEF Aligned
<1>9. \A v : Standing(e, v) = w
  BY <1>3, <1>4 DEF Standing
<1>10. QED BY <1>8, <1>9 DEF e, m, z

(* The client takes a vote and answers it: the numbers stay in order, and  *)
(* the vote it ends up with stays the same.                                *)
LEMMA RecvAligned ==
    ASSUME NEW u \in Seq(Seqs), NEW d \in Seq(Message), NEW s \in Seqs, NEW v,
           Aligned(u, d, s), d # <<>>
    PROVE  /\ Head(d).kind = "VOTE_INFO"
           /\ Aligned(Append(u, Head(d).seq), Tail(d), s)
           /\ Standing(Tail(d), Head(d).vote) = Standing(d, v)
           /\ HoldsAck(Tail(d), Head(d).vote) => HoldsAck(d, v)
<1> DEFINE e == Tail(d)
           x == Head(d).seq
           w == Append(u, x)
<1>1. /\ Head(d) = d[1] /\ Head(d) \in Message
      /\ e \in Seq(Message) /\ Len(e) = Len(d) - 1
      /\ \A k \in 1 .. Len(e) : e[k] = d[k + 1]
  BY HeadTailProperties
<1>2. Len(d) \in Nat \ {0} /\ Len(u) \in Nat
  BY EmptySeq, LenProperties
<1>3. x \in Seqs
  BY <1>1 DEF Message, Seqs
<1>4. /\ Len(w) = Len(u) + 1 /\ w[Len(u) + 1] = x
      /\ \A k \in 1 .. Len(u) : w[k] = u[k]
  BY <1>3, AppendProperties
<1>5. 1 \in 1 .. Len(d)
  BY <1>2
<1>6. Head(d).kind = "VOTE_INFO" /\ x = Back(s, Len(d) - 1)
  BY <1>1, <1>5 DEF Aligned
<1> HIDE DEF e, x, w
<1>7. ASSUME NEW k \in 1 .. Len(e)
      PROVE  e[k].kind = "VOTE_INFO" /\ e[k].seq = Back(s, Len(e) - k)
  <2>1. k + 1 \in 1 .. Len(d) /\ Len(d) - (k + 1) = Len(e) - k
    BY <1>1, <1>2
  <2>2. d[k + 1].kind = "VOTE_INFO" /\ d[k + 1].seq = Back(s, Len(d) - (k + 1))
    BY <2>1 DEF Aligned
  <2>3. QED BY <1>1, <2>1, <2>2
<1>8. ASSUME NEW k \in 1 .. Len(w) PROVE w[k] = Back(s, Len(e) + Len(w) - k)
  <2>1. CASE k = Len(u) + 1
    <3>1. Len(e) + Len(w) - k = Len(d) - 1
      BY <1>1, <1>2, <1>4, <2>1
    <3>2. QED BY <1>4, <1>6, <2>1, <3>1
  <2>2. CASE k \in 1 .. Len(u)
    <3>1. Len(e) + Len(w) - k = Len(d) + Len(u) - k
      BY <1>1, <1>2, <1>4
    <3>2. u[k] = Back(s, Len(d) + Len(u) - k)
      BY <2>2 DEF Aligned
    <3>3. QED BY <1>4, <2>2, <3>1, <3>2
  <2>3. QED BY <1>2, <1>4, <2>1, <2>2
<1>9. Aligned(w, e, s)
  BY <1>7, <1>8 DEF Aligned
<1>10. Standing(e, Head(d).vote) = Standing(d, v)
  <2>1. CASE Len(d) = 1
    <3>1. e = <<>>
      BY <1>1, <2>1, EmptySeq
    <3>2. QED BY <1>1, <2>1, <3>1 DEF Standing
  <2>2. CASE Len(d) > 1
    <3>1. e # <<>> /\ Len(e) \in 1 .. Len(e) /\ Len(e) + 1 = Len(d)
      BY <1>1, <1>2, <2>2, EmptySeq
    <3>2. e[Len(e)] = d[Len(d)]
      BY <1>1, <3>1
    <3>3. QED BY <3>1, <3>2 DEF Standing
  <2>3. \A n \in Nat \ {0} : n = 1 \/ n > 1
    OBVIOUS
  <2>4. QED BY <1>2, <2>1, <2>2, <2>3
<1>11. HoldsAck(e, Head(d).vote) => HoldsAck(d, v)
  <2>1. \A k \in 1 .. Len(e) : k + 1 \in 1 .. Len(d)
    BY <1>1, <1>2
  <2>2. QED BY <1>1, <1>5, <2>1 DEF HoldsAck
<1>12. QED BY <1>6, <1>9, <1>10, <1>11 DEF e, x, w

LEMMA ReplyAligned ==
    ASSUME NEW u \in Seq(Seqs), NEW d \in Seq(Message), NEW s, Aligned(u, d, s),
           u # <<>>
    PROVE  Aligned(Tail(u), d, s)
<1> DEFINE w == Tail(u)
<1>1. Len(w) = Len(u) - 1 /\ \A k \in 1 .. Len(w) : w[k] = u[k + 1]
  BY HeadTailProperties
<1>2. Len(u) \in Nat \ {0} /\ Len(d) \in Nat
  BY EmptySeq, LenProperties
<1> HIDE DEF w
<1>3. ASSUME NEW k \in 1 .. Len(w) PROVE w[k] = Back(s, Len(d) + Len(w) - k)
  <2>1. /\ k + 1 \in 1 .. Len(u)
        /\ Len(d) + Len(u) - (k + 1) = Len(d) + Len(w) - k
    BY <1>1, <1>2
  <2>2. u[k + 1] = Back(s, Len(d) + Len(u) - (k + 1))
    BY <2>1 DEF Aligned
  <2>3. QED BY <1>1, <2>1, <2>2
<1>4. QED BY <1>3 DEF Aligned, w

(* An answer that carries the last number taken is the answer to the last  *)
(* push: nothing else is on its way.                                       *)
LEMMA MatchIsLast ==
    ASSUME NEW u \in Seq(Seqs), NEW d \in Seq(Message), NEW s \in Seqs,
           Aligned(u, d, s), u # <<>>, Head(u) = s, Len(d) + Len(u) <= SeqMod
    PROVE  d = <<>> /\ Tail(u) = <<>>
<1>1. Len(u) \in Nat \ {0} /\ Len(d) \in Nat
  BY EmptySeq, LenProperties
<1>2. Head(u) = u[1] /\ 1 \in 1 .. Len(u)
  BY <1>1
<1>3. s = Back(s, Len(d) + Len(u) - 1)
  BY <1>2 DEF Aligned
<1>4. Len(d) + Len(u) = 1
  BY <1>1, <1>3, SeqModAssumption DEF Back, Seqs
<1>5. Len(u) = 1 /\ Len(d) = 0
  <2>1. \A m \in Nat \ {0}, n \in Nat : n + m = 1 => m = 1 /\ n = 0
    OBVIOUS
  <2>2. QED BY <1>1, <1>4, <2>1
<1>6. d = <<>>
  BY <1>5, EmptySeq
<1>7. Tail(u) \in Seq(Seqs) /\ Len(Tail(u)) = 0
  BY <1>5, HeadTailProperties
<1>8. QED BY <1>6, <1>7, EmptySeq

-----------------------------------------------------------------------------
(* A client a vote has just been pushed to. *)
LEMMA PushedClient ==
    ASSUME NEW u \in Seq(Seqs), NEW d \in Seq(Message), NEW s \in Seqs, NEW v,
           NEW w \in {"ACK", "NACK"}, Aligned(u, d, s), NEW st, NEW in,
           LET e == Append(d, VoteInfo((s + 1) % SeqMod, w))
           IN  Len(e) + Len(u) <= SeqMod,
           \/ st = NackPending /\ ~in /\ w = "NACK"
           \/ st = AckPending /\ in
    PROVE  ClientOK(u, Append(d, VoteInfo((s + 1) % SeqMod, w)), v,
                    (s + 1) % SeqMod, st, in)
<1> DEFINE z == (s + 1) % SeqMod
           m == VoteInfo(z, w)
           e == Append(d, m)
<1>1. m \in Message
  BY SeqsBasics DEF Message, VoteInfo, Seqs
<1>2. Len(e) = Len(d) + 1
  BY <1>1, AppendProperties
<1>3. Len(d) + 1 + Len(u) <= SeqMod
  BY <1>2
<1>4. Aligned(u, e, z) /\ \A x : Standing(e, x) = w
  BY <1>3, PushAligned
<1> HIDE DEF e, z, m
<1>5. QED BY <1>4, StatesDiffer DEF ClientOK, e, z, m

(* Votes pushed to distinct transports: one each, and nothing elsewhere.   *)
LEMMA PushedTo ==
    ASSUME NEW q, NEW tp, NEW S, NEW vote,
           \A i, j \in S : tp[i] = tp[j] => i = j
    PROVE  /\ \A i \in S : tp[i] \in Conns =>
                Pushed(q, tp, S, vote)[tp[i]]
                  = Append(q[tp[i]], VoteInfo((s_seq[i] + 1) % SeqMod, vote[i]))
           /\ \A c \in Conns : (\A i \in S : tp[i] # c) =>
                Pushed(q, tp, S, vote)[c] = q[c]
<1>1. ASSUME NEW i \in S, tp[i] \in Conns
      PROVE  Pushed(q, tp, S, vote)[tp[i]]
               = Append(q[tp[i]], VoteInfo((s_seq[i] + 1) % SeqMod, vote[i]))
  <2>1. (CHOOSE j \in S : tp[j] = tp[i]) = i
    OBVIOUS
  <2>2. QED BY <1>1, <2>1 DEF Pushed, VoteInfo
<1>2. ASSUME NEW c \in Conns, \A i \in S : tp[i] # c
      PROVE  Pushed(q, tp, S, vote)[c] = q[c]
  BY <1>2 DEF Pushed
<1>3. QED BY <1>1, <1>2

(* recompute, for the table t, the transports tp and the queues q its      *)
(* caller leaves: whoever gets NACK is told so last, and ACK goes to       *)
(* chosen nodes only.                                                      *)
LEMMA RecomputeHolders ==
    ASSUME ~SendMayFail, TypeOK, TypeOK', FewInFlight',
           NEW t \in Tables, ff' = t, NEW tp, s_tp' = tp, NEW q \in Queues,
           \A i \in Used(t) : tp[i] \in Conns,
           \A i, j \in Used(t) : tp[i] = tp[j] => i = j,
           \A i \in Used(t) :
             ClientOK(up'[tp[i]], q[tp[i]], cvote'[tp[i]], s_seq[i], s_st[i],
                      t[i].node_id \in quorate),
           Recompute(t, tp, q)
    PROVE  /\ ClientsOK'
           /\ \A c \in Conns : (\A i \in Used(t) : tp[i] # c) => down'[c] = q[c]
<1>1. CASE RecomputeUnstable(t, q)
  BY <1>1 DEF RecomputeUnstable, ClientsOK
<1>2. CASE RecomputeStable(t, tp, q)
  <2> DEFINE chosen == Decide(t, quorate)
             acks == {i \in Used(t) : t[i].node_id \in chosen}
             nacks == Used(t) \ acks
             tried == AcksTried(nacks, acks)
             told == nacks \cup tried
             vote == [i \in Slots |-> Vote(i \in acks)]
  <2>1. /\ quorate' = chosen
        /\ s_st' = [i \in Slots |->
                      IF i \in nacks THEN NackPending
                      ELSE IF i \in tried THEN AckPending
                      ELSE IF i \in acks THEN AckDue
                      ELSE s_st[i]]
        /\ s_seq' = Bumped(told)
        /\ down' = Pushed(q, tp, told, vote)
    <3>1. Failures = {{}}
      BY DEF Failures
    <3>2. nacks \ {} = nacks /\ tried \ {} = tried
      OBVIOUS
    <3>3. /\ quorate' = chosen
          /\ s_st' = [i \in Slots |->
                      IF i \in nacks \ {} THEN NackPending
                      ELSE IF i \in AcksTried(nacks \ {}, acks) \ {} THEN AckPending
                      ELSE IF i \in nacks THEN NackDue
                      ELSE IF i \in acks THEN AckDue
                      ELSE s_st[i]]
          /\ s_seq' = Bumped(nacks \cup AcksTried(nacks \ {}, acks))
          /\ down' = Pushed(q, tp, (nacks \ {}) \cup (AcksTried(nacks \ {}, acks) \ {}), vote)
      BY <1>2, <3>1, Zenon DEF RecomputeStable
    <3> HIDE DEF acks, nacks, vote, chosen
    <3>4. QED BY <3>2, <3>3, Zenon
  <2>2. /\ told \subseteq Used(t) /\ Used(t) \subseteq Slots
        /\ Used(t) = acks \cup nacks /\ acks \cap nacks = {}
        /\ tried \subseteq acks
        /\ nacks = {} => tried = acks
    BY DEF AcksTried, Used
  <2>3. \A i \in Used(t) : (i \in acks) <=> t[i].node_id \in quorate'
    BY <2>1
  <2>4. \A i \in told : vote[i] = IF i \in acks THEN "ACK" ELSE "NACK"
    BY <2>2 DEF Vote
  <2>5. \A i \in Used(t) : tp[i] \in Conns /\ q[tp[i]] \in Seq(Message)
                           /\ up'[tp[i]] \in Seq(Seqs) /\ s_seq[i] \in Seqs
    BY <2>2, TypeParts DEF Queues, RestTypes, PushTypes
  <2> HIDE DEF chosen, acks, nacks, tried, vote
  <2>6. ASSUME NEW i \in Used(t), i \in told
        PROVE  ClientOK(up'[tp[i]], down'[tp[i]], cvote'[tp[i]], s_seq'[i],
                        s_st'[i], t[i].node_id \in quorate')
    <3> DEFINE d == q[tp[i]]
               w == vote[i]
               e == Append(d, VoteInfo((s_seq[i] + 1) % SeqMod, w))
    <3>1. down'[tp[i]] = e
      <4>1. \A j, k \in told : tp[j] = tp[k] => j = k
        BY <2>2
      <4> HIDE DEF told
      <4>2. Pushed(q, tp, told, vote)[tp[i]]
              = Append(q[tp[i]], VoteInfo((s_seq[i] + 1) % SeqMod, vote[i]))
        BY <2>5, <2>6, <4>1, PushedTo
      <4>3. QED BY <2>1, <4>2
    <3>2. s_seq'[i] = (s_seq[i] + 1) % SeqMod
      BY <2>1, <2>2, <2>6 DEF Bumped
    <3>3. Len(e) + Len(up'[tp[i]]) <= SeqMod
      BY <2>5, <3>1 DEF FewInFlight
    <3>4. w \in {"ACK", "NACK"}
      BY <2>4, <2>6
    <3>5. Aligned(up'[tp[i]], d, s_seq[i])
      BY DEF ClientOK
    <3>6. \/ s_st'[i] = NackPending /\ ~(t[i].node_id \in quorate') /\ w = "NACK"
          \/ s_st'[i] = AckPending /\ t[i].node_id \in quorate'
      <4>1. CASE i \in nacks
        BY <2>1, <2>2, <2>3, <2>4, <2>6, <4>1
      <4>2. CASE i \in tried
        BY <2>1, <2>2, <2>3, <2>4, <2>6, <4>2
      <4>3. QED BY <2>6, <4>1, <4>2
    <3> HIDE DEF d, w
    <3>7. ClientOK(up'[tp[i]], e, cvote'[tp[i]], (s_seq[i] + 1) % SeqMod,
                   s_st'[i], t[i].node_id \in quorate')
      BY <2>5, <3>3, <3>4, <3>5, <3>6, PushedClient DEF d
    <3>8. QED BY <3>1, <3>2, <3>7
  <2>7. ASSUME NEW i \in Used(t), i \notin told
        PROVE  ClientOK(up'[tp[i]], down'[tp[i]], cvote'[tp[i]], s_seq'[i],
                        s_st'[i], t[i].node_id \in quorate')
    <3>1. down'[tp[i]] = q[tp[i]]
      <4>1. \A j, k \in told : tp[j] = tp[k] => j = k
        BY <2>2
      <4>2. \A j \in told : tp[j] # tp[i]
        BY <2>2, <2>7
      <4>3. QED BY <2>1, <2>5, <4>1, <4>2, PushedTo
    <3>2. s_seq'[i] = s_seq[i]
      BY <2>1, <2>2, <2>7 DEF Bumped
    <3>3. s_st'[i] = AckDue /\ t[i].node_id \in quorate'
      BY <2>1, <2>2, <2>3, <2>7
    <3>4. Aligned(up'[tp[i]], q[tp[i]], s_seq[i])
      BY DEF ClientOK
    <3>5. QED BY <3>1, <3>2, <3>3, <3>4, StatesDiffer DEF ClientOK
  <2>8. ClientsOK'
    BY <2>6, <2>7 DEF ClientsOK
  <2>9. ASSUME NEW c \in Conns, \A i \in Used(t) : tp[i] # c
        PROVE  down'[c] = q[c]
    <3>1. \A j, k \in told : tp[j] = tp[k] => j = k
      BY <2>2
    <3>2. \A j \in told : tp[j] # c
      BY <2>2, <2>9
    <3>3. QED BY <2>1, <3>1, <3>2, PushedTo
  <2>10. QED BY <2>8, <2>9
<1>3. QED BY <1>1, <1>2 DEF Recompute

(* on_vote_info_reply once the slot that answered is idle: the ACKs it may *)
(* release go to chosen nodes.                                             *)
LEMMA AdvanceHolders ==
    ASSUME ~SendMayFail, TypeOK, TypeOK', FewInFlight',
           UNCHANGED <<ff, s_tp, cvote, quorate>>,
           \A i \in Used(ff) : s_tp[i] \in Conns,
           \A i, j \in Used(ff) : s_tp[i] = s_tp[j] => i = j,
           NEW st,
           \A i \in Used(ff) :
             ClientOK(up'[s_tp[i]], down[s_tp[i]], cvote[s_tp[i]], s_seq[i],
                      st[i], ff[i].node_id \in quorate),
           AdvancePhase(st)
    PROVE  /\ ClientsOK'
           /\ \A c \in Conns : (\A i \in Used(ff) : s_tp[i] # c) =>
                down'[c] = down[c]
<1> DEFINE due == {j \in Used(ff) : st[j] = AckDue}
           vote == [j \in Slots |-> "ACK"]
<1>1. CASE s_st' = st /\ UNCHANGED <<s_seq, down>>
  BY <1>1 DEF ClientsOK
<1>2. ASSUME s_st' = [j \in Slots |-> IF j \in due THEN AckPending ELSE st[j]],
             s_seq' = Bumped(due),
             down' = Pushed(down, s_tp, due, vote)
      PROVE  /\ ClientsOK'
             /\ \A c \in Conns : (\A i \in Used(ff) : s_tp[i] # c) =>
                  down'[c] = down[c]
  <2>1. due \subseteq Used(ff) /\ Used(ff) \subseteq Slots
    BY DEF Used
  <2>2. \A j, k \in due : s_tp[j] = s_tp[k] => j = k
    BY <2>1
  <2>3. \A i \in Used(ff) :
          /\ down[s_tp[i]] \in Seq(Message) /\ up'[s_tp[i]] \in Seq(Seqs)
          /\ s_seq[i] \in Seqs
    BY <2>1, TypeParts DEF Queues, RestTypes, PushTypes
  <2>4. \A i \in due : st[i] = AckDue /\ vote[i] = "ACK"
    BY <2>1
  <2> HIDE DEF due, vote
  <2>5. ASSUME NEW i \in Used(ff), i \in due
        PROVE  ClientOK(up'[s_tp[i]], down'[s_tp[i]], cvote[s_tp[i]], s_seq'[i],
                        s_st'[i], ff[i].node_id \in quorate)
    <3> DEFINE d == down[s_tp[i]]
               e == Append(d, VoteInfo((s_seq[i] + 1) % SeqMod, "ACK"))
    <3>1. Pushed(down, s_tp, due, vote)[s_tp[i]]
            = Append(down[s_tp[i]], VoteInfo((s_seq[i] + 1) % SeqMod, vote[i]))
      BY <2>2, <2>5, PushedTo
    <3>2. down'[s_tp[i]] = e
      BY <1>2, <2>4, <2>5, <3>1
    <3>3. s_seq'[i] = (s_seq[i] + 1) % SeqMod /\ s_st'[i] = AckPending
      BY <1>2, <2>1, <2>5 DEF Bumped
    <3>4. Len(e) + Len(up'[s_tp[i]]) <= SeqMod
      BY <3>2 DEF FewInFlight
    <3>5. Aligned(up'[s_tp[i]], d, s_seq[i]) /\ ff[i].node_id \in quorate
      BY <2>4, <2>5 DEF ClientOK
    <3> HIDE DEF d
    <3>6. ClientOK(up'[s_tp[i]], e, cvote[s_tp[i]], (s_seq[i] + 1) % SeqMod,
                   AckPending, ff[i].node_id \in quorate)
      BY <2>3, <3>4, <3>5, PushedClient DEF d
    <3>7. QED BY <3>2, <3>3, <3>6
  <2>6. ASSUME NEW i \in Used(ff), i \notin due
        PROVE  ClientOK(up'[s_tp[i]], down'[s_tp[i]], cvote[s_tp[i]], s_seq'[i],
                        s_st'[i], ff[i].node_id \in quorate)
    <3>1. \A j \in due : s_tp[j] # s_tp[i]
      BY <2>1, <2>6
    <3>2. down'[s_tp[i]] = down[s_tp[i]]
      BY <1>2, <2>2, <3>1, PushedTo
    <3>3. s_seq'[i] = s_seq[i] /\ s_st'[i] = st[i]
      BY <1>2, <2>1, <2>6 DEF Bumped
    <3>4. QED BY <3>2, <3>3
  <2>7. ClientsOK'
    BY <2>5, <2>6 DEF ClientsOK
  <2>8. ASSUME NEW c \in Conns, \A i \in Used(ff) : s_tp[i] # c
        PROVE  down'[c] = down[c]
    <3>1. \A i \in due : s_tp[i] # c
      BY <2>1, <2>8
    <3>2. QED BY <1>2, <2>2, <3>1, PushedTo
  <2>9. QED BY <2>7, <2>8
<1>3. Failures = {{}}
  BY DEF Failures
<1>4. due \ {} = due
  OBVIOUS
<1>5. \/ s_st' = st /\ UNCHANGED <<s_seq, down>>
      \/ /\ s_st' = [j \in Slots |-> IF j \in due \ {} THEN AckPending
                                                       ELSE st[j]]
         /\ s_seq' = Bumped(due)
         /\ down' = Pushed(down, s_tp, due \ {}, vote)
  <2> HIDE DEF vote
  <2>1. QED BY <1>3, Zenon DEF AdvancePhase, vote
<1> HIDE DEF due, vote
<1>6. QED BY <1>1, <1>2, <1>4, <1>5, Zenon

-----------------------------------------------------------------------------
(* Every used slot has a transport of its own. *)
LEMMA OwnTransports ==
    ASSUME SlotInv
    PROVE  /\ \A i \in Used(ff) : s_tp[i] \in Conns /\ sess[s_tp[i]].ff_idx = i
           /\ \A i, j \in Used(ff) : s_tp[i] = s_tp[j] => i = j
           /\ \A c \in Conns : sess[c].ff_idx = NoSlot =>
                \A i \in Used(ff) : s_tp[i] # c
BY NoSlotIsNoSlot DEF SlotInv, SlotsAccounted, Used

LEMMA ReplyHolders ==
    ASSUME ~SendMayFail, ~AllowOverlap, TypeOK, TypeOK', SlotInv, HolderInv,
           FewInFlight, FewInFlight', NEW c \in Conns, VoteInfoReply(c)
    PROVE  HolderInv'
<1> DEFINE i == sess[c].ff_idx
           seq == Head(up[c])
           st == [s_st EXCEPT ![i] = Idle]
<1>1. /\ sess[c].st = "ACTIVE" /\ up[c] # <<>>
      /\ up' = [up EXCEPT ![c] = Tail(up[c])]
      /\ IF s_algo = "FFSPLIT" /\ ReplyExpected(i, seq)
         THEN AdvancePhase(st) ELSE UNCHANGED <<s_st, s_seq, s_phase, down>>
      /\ UNCHANGED <<sess, s_algo, ff, s_tp, cvote, quorate>>
  BY Zenon DEF VoteInfoReply
<1>2. /\ up \in [Conns -> Seq(Seqs)] /\ down \in [Conns -> Seq(Message)]
      /\ s_seq \in [Slots -> Seqs] /\ s_st \in [Slots -> 0 .. 4]
      /\ Used(ff) \subseteq Slots
  BY TypeParts DEF RestTypes, PushTypes, Queues, Used
<1>3. i \in Used(ff) /\ s_tp[i] = c /\ i # NoSlot
  BY <1>1, NoSlotIsNoSlot DEF SlotInv, ActiveHasSlot, OwnSlots
<1>4. /\ up'[c] = Tail(up[c])
      /\ \A d \in Conns \ {c} : up'[d] = up[d]
  BY <1>1, <1>2
<1>5. Unserved /\ (s_algo = "FFSPLIT" => ClientsOK)
  BY DEF HolderInv
<1> HIDE DEF i, st, seq
<1>6. CASE UNCHANGED <<s_st, s_seq, down>>
  <2>1. Unserved'
    BY <1>1, <1>3, <1>4, <1>5, <1>6 DEF Unserved, i
  <2>2. ASSUME s_algo = "FFSPLIT", NEW j \in Used(ff)
        PROVE  ClientOK(up'[s_tp[j]], down[s_tp[j]], cvote[s_tp[j]], s_seq[j],
                        s_st[j], ff[j].node_id \in quorate)
    <3>1. ClientOK(up[s_tp[j]], down[s_tp[j]], cvote[s_tp[j]], s_seq[j],
                   s_st[j], ff[j].node_id \in quorate)
      BY <1>5, <2>2 DEF ClientsOK
    <3>2. CASE j = i
      <4>1. Aligned(up[c], down[c], s_seq[i])
        BY <1>3, <3>1, <3>2 DEF ClientOK
      <4>2. Aligned(Tail(up[c]), down[c], s_seq[i])
        BY <1>1, <1>2, <4>1, ReplyAligned
      <4>3. QED BY <1>3, <1>4, <3>1, <3>2, <4>2 DEF ClientOK
    <3>3. CASE j # i
      <4>1. s_tp[j] # c /\ s_tp[j] \in Conns
        BY <1>3, <3>3, OwnTransports
      <4>2. QED BY <1>4, <3>1, <4>1
    <3>4. QED BY <3>2, <3>3
  <2>3. s_algo' = "FFSPLIT" => ClientsOK'
    BY <1>1, <1>6, <2>2 DEF ClientsOK
  <2>4. QED BY <2>1, <2>3 DEF HolderInv
<1>7. CASE s_algo = "FFSPLIT" /\ ReplyExpected(i, seq) /\ AdvancePhase(st)
  <2>1. s_seq[i] = seq /\ s_st[i] \in {NackPending, AckPending}
    BY <1>7 DEF ReplyExpected
  <2>2. ASSUME NEW j \in Used(ff)
        PROVE  ClientOK(up[s_tp[j]], down[s_tp[j]], cvote[s_tp[j]], s_seq[j],
                        s_st[j], ff[j].node_id \in quorate)
    BY <1>5, <1>7 DEF ClientsOK
  <2>3. ClientOK(up[c], down[c], cvote[c], s_seq[i], s_st[i],
                 ff[i].node_id \in quorate)
    BY <1>3, <2>2
  <2>4. down[c] = <<>> /\ Tail(up[c]) = <<>>
    <3>1. Aligned(up[c], down[c], s_seq[i])
      BY <2>3 DEF ClientOK
    <3>2. Len(down[c]) + Len(up[c]) <= SeqMod
      BY DEF FewInFlight
    <3>3. Head(up[c]) = s_seq[i]
      BY <2>1 DEF seq
    <3>4. QED BY <1>1, <1>2, <1>3, <3>1, <3>2, <3>3, MatchIsLast
  <2>5. \A j \in Used(ff) : st[j] = IF j = i THEN Idle ELSE s_st[j]
    BY <1>2, <1>3 DEF st
  <2>6. ASSUME NEW j \in Used(ff)
        PROVE  ClientOK(up'[s_tp[j]], down[s_tp[j]], cvote[s_tp[j]], s_seq[j],
                        st[j], ff[j].node_id \in quorate)
    <3>1. CASE j = i
      <4>1. Aligned(Tail(up[c]), down[c], s_seq[i])
        BY <1>1, <1>2, <2>3, ReplyAligned DEF ClientOK
      <4>2. ~(ff[i].node_id \in quorate) => cvote[c] = "NACK"
        BY <2>1, <2>3, <2>4 DEF ClientOK, Standing
      <4>3. ~(ff[i].node_id \in quorate) => ~HoldsAck(down[c], cvote[c])
        BY <2>4, <4>2 DEF HoldsAck
      <4>4. ClientOK(Tail(up[c]), down[c], cvote[c], s_seq[i], Idle,
                     ff[i].node_id \in quorate)
        BY <4>1, <4>3, StatesDiffer DEF ClientOK
      <4>5. QED BY <1>3, <1>4, <2>5, <3>1, <4>4
    <3>2. CASE j # i
      <4>1. s_tp[j] # c /\ s_tp[j] \in Conns
        BY <1>3, <3>2, OwnTransports
      <4>2. QED BY <1>4, <2>2, <2>5, <3>2, <4>1
    <3>3. QED BY <3>1, <3>2
  <2>7. /\ ClientsOK'
        /\ \A d \in Conns : (\A j \in Used(ff) : s_tp[j] # d) =>
             down'[d] = down[d]
    BY <1>1, <1>7, <2>6, OwnTransports, AdvanceHolders
  <2>8. Unserved'
    <3>1. \A d \in Conns : sess[d].ff_idx = NoSlot =>
            down'[d] = down[d] /\ d # c
      BY <1>3, <2>7, OwnTransports DEF i
    <3>2. QED BY <1>1, <1>4, <1>5, <3>1 DEF Unserved
  <2>9. QED BY <2>7, <2>8 DEF HolderInv
<1>8. QED BY <1>1, <1>6, <1>7

(* A client takes the next vote and answers it. *)
LEMMA RecvHolders ==
    ASSUME ~AllowOverlap, TypeOK, SlotInv, HolderInv, NEW c \in Conns,
           ClientRecv(c)
    PROVE  HolderInv'
<1> DEFINE m == Head(down[c])
<1>1. /\ down[c] # <<>>
      /\ down' = [down EXCEPT ![c] = Tail(down[c])]
      /\ cvote' = [cvote EXCEPT ![c] = m.vote]
      /\ up' = IF m.kind = "VOTE_INFO"
               THEN [up EXCEPT ![c] = Append(up[c], m.seq)] ELSE up
      /\ UNCHANGED <<sess, s_algo, ff, s_tp, s_seq, s_st, quorate>>
  BY DEF ClientRecv
<1>2. /\ up \in [Conns -> Seq(Seqs)] /\ down \in [Conns -> Seq(Message)]
      /\ s_seq \in [Slots -> Seqs] /\ DOMAIN cvote = Conns
      /\ Used(ff) \subseteq Slots
  BY TypeParts DEF RestTypes, PushTypes, Queues, Used
<1>3. /\ down'[c] = Tail(down[c]) /\ cvote'[c] = m.vote
      /\ \A d \in Conns \ {c} :
           down'[d] = down[d] /\ cvote'[d] = cvote[d] /\ up'[d] = up[d]
  BY <1>1, <1>2
<1>4. Unserved /\ (s_algo = "FFSPLIT" => ClientsOK)
  BY DEF HolderInv
<1>5. Unserved'
  BY <1>1, <1>3, <1>4 DEF Unserved
<1>6. ASSUME s_algo = "FFSPLIT", NEW j \in Used(ff)
      PROVE  ClientOK(up'[s_tp[j]], down'[s_tp[j]], cvote'[s_tp[j]], s_seq[j],
                      s_st[j], ff[j].node_id \in quorate)
  <2>1. ClientOK(up[s_tp[j]], down[s_tp[j]], cvote[s_tp[j]], s_seq[j],
                 s_st[j], ff[j].node_id \in quorate)
    BY <1>4, <1>6 DEF ClientsOK
  <2>2. s_tp[j] \in Conns
    BY OwnTransports
  <2>3. CASE s_tp[j] = c
    <3>1. Aligned(up[c], down[c], s_seq[j]) /\ s_seq[j] \in Seqs
      BY <1>2, <2>1, <2>3 DEF ClientOK
    <3>2. /\ m.kind = "VOTE_INFO"
          /\ Aligned(Append(up[c], m.seq), Tail(down[c]), s_seq[j])
          /\ Standing(Tail(down[c]), m.vote) = Standing(down[c], cvote[c])
          /\ HoldsAck(Tail(down[c]), m.vote) => HoldsAck(down[c], cvote[c])
      BY <1>1, <1>2, <3>1, RecvAligned
    <3> HIDE DEF m
    <3>3. up'[c] = Append(up[c], m.seq)
      BY <1>1, <1>2, <3>2
    <3>4. QED BY <1>3, <2>1, <2>3, <3>2, <3>3 DEF ClientOK
  <2>4. CASE s_tp[j] # c
    BY <1>3, <2>1, <2>2, <2>4
  <2>5. QED BY <2>3, <2>4
<1>7. s_algo' = "FFSPLIT" => ClientsOK'
  BY <1>1, <1>6 DEF ClientsOK
<1>8. QED BY <1>5, <1>7 DEF HolderInv

(* INIT takes a free slot while no node has two sessions, and starts with  *)
(* nothing on its way and no vote held.                                    *)
LEMMA InitMsgHolders ==
    ASSUME ~AllowOverlap, TypeOK, SlotInv, HolderInv, NEW c \in Conns,
           NEW n \in NodeIds, NEW algo \in Algos, NEW tb \in TieBreakers,
           InitMsg(c, n, algo, tb)
    PROVE  HolderInv'
<1> DEFINE i == SlotFor(ff, n)
           s == [sess[c] EXCEPT !.node = n, !.algo = algo]
<1>1. /\ sess[c].st = "PREINIT_DONE"
      /\ s_algo \in {"NONE", algo}
      /\ n \notin OtherNodes(c)
      /\ UNCHANGED <<quorate, down, up, cvote>>
  BY DEF InitMsg
<1>2. sess[c].ff_idx = NoSlot
  BY <1>1 DEF SlotInv, ActiveHasSlot
<1>3. sess \in [Conns -> Session] /\ sess[c] \in Session
      /\ s_tp \in [Slots -> Conns \cup {NoConn}]
      /\ s_st \in [Slots -> 0 .. 4] /\ s_seq \in [Slots -> Seqs]
  BY TypeParts DEF RestTypes, PushTypes
<1>4. down[c] = <<>> /\ up[c] = <<>> /\ cvote[c] = "NONE"
  BY <1>2 DEF HolderInv, Unserved
<1>5. CASE i = NoSlot
  <2>1. /\ sess' = [sess EXCEPT ![c] = [s EXCEPT !.st = "CLOSING"]]
        /\ UNCHANGED <<ff, s_tp, s_st, s_seq, s_algo>>
    BY <1>5, Zenon DEF InitMsg
  <2>2. \A d \in Conns : sess'[d].ff_idx = sess[d].ff_idx
    BY <2>1, <1>3 DEF Session
  <2>3. QED BY <1>1, <2>1, <2>2 DEF HolderInv, Unserved, ClientsOK
<1>6. CASE i # NoSlot
  <2>1. /\ sess' = [sess EXCEPT ![c] =
                      [s EXCEPT !.st = "ACTIVE", !.ff_idx = i,
                                !.has_config = FALSE, !.has_memb = FALSE]]
        /\ s_tp' = [s_tp EXCEPT ![i] = c]
        /\ s_st' = [s_st EXCEPT ![i] = Idle]
        /\ s_seq' = [s_seq EXCEPT ![i] = 0]
        /\ s_algo' = algo
    BY <1>6, Zenon DEF InitMsg
  <2>2. i \in Slots /\ \A j \in Slots \ {i} : ff'[j] = ff[j]
    BY <1>6, InitMsgTable
  <2> HIDE DEF i
  <2>3. sess'[c].ff_idx = i /\ \A d \in Conns \ {c} : sess'[d] = sess[d]
    BY <2>1, <1>3 DEF Session
  <2>4. /\ s_tp'[i] = c /\ s_st'[i] = Idle /\ s_seq'[i] = 0
        /\ \A j \in Slots \ {i} : /\ s_tp'[j] = s_tp[j]
                                  /\ s_st'[j] = s_st[j] /\ s_seq'[j] = s_seq[j]
    BY <2>1, <2>2, <1>3
  <2>5. \A j \in Used(ff') \ {i} : j \in Used(ff) /\ j \in Slots \ {i}
    BY <2>2 DEF Used
  <2>6. Unserved'
    BY <1>1, <1>6, <2>3 DEF HolderInv, Unserved
  <2>7. ASSUME s_algo' = "FFSPLIT" PROVE ClientsOK'
    <3>1. ASSUME NEW j \in Used(ff') \ {i}
          PROVE  ClientOK(up[s_tp[j]], down[s_tp[j]], cvote[s_tp[j]], s_seq[j],
                          s_st[j], ff[j].node_id \in quorate)
      <4>1. j \in Used(ff) /\ s_algo # "NONE"
        BY <2>5 DEF SlotInv, AlgoBoundWhileUsed
      <4>2. s_algo = "FFSPLIT"
        BY <1>1, <2>1, <2>7, <4>1
      <4>3. QED BY <4>1, <4>2 DEF HolderInv, ClientsOK
    <3>2. \A in : ClientOK(<<>>, <<>>, "NONE", 0, Idle, in)
      BY StatesDiffer DEF ClientOK, Aligned, HoldsAck
    <3>3. QED
      BY <1>1, <1>4, <2>2, <2>4, <2>5, <3>1, <3>2 DEF ClientsOK
  <2>8. QED BY <2>6, <2>7 DEF HolderInv
<1>7. QED BY <1>5, <1>6

(* A step that touches no slot, queue or vote. *)
LEMMA FrameHolders ==
    ASSUME HolderInv, SlotFrame,
           UNCHANGED <<down, up, cvote, s_seq, s_st, quorate>>
    PROVE  HolderInv'
<1>1. \A i \in Used(ff) : ff'[i].node_id = ff[i].node_id
  BY DEF SlotFrame, Used
<1>2. Unserved'
  BY DEF HolderInv, Unserved, SlotFrame
<1>3. s_algo' = "FFSPLIT" => ClientsOK'
  BY <1>1 DEF HolderInv, ClientsOK, SlotFrame
<1>4. QED BY <1>2, <1>3 DEF HolderInv

(* The tail of an FFSplit report. *)
LEMMA TailHolders ==
    ASSUME ~SendMayFail, TypeOK, TypeOK', SlotInv, HolderInv, FewInFlight',
           SlotFrame, NEW s, RecomputeIfComplete(s, ff'), s_algo # "LMS",
           UNCHANGED <<up, cvote>>
    PROVE  HolderInv'
<1>1. CASE UNCHANGED pushVars
  BY <1>1, FrameHolders DEF pushVars
<1>2. CASE Recompute(ff', s_tp, down)
  <2>1. /\ ff' \in Tables /\ down \in Queues
        /\ s_tp' = s_tp /\ Used(ff') = Used(ff) /\ s_algo' = s_algo
        /\ \A i \in Used(ff) : ff'[i].node_id = ff[i].node_id
    BY TypeParts DEF SlotFrame, Used, RestTypes, PushTypes
  <2>2. ClientsOK
    <3>1. CASE s_algo = "FFSPLIT"
      BY <3>1 DEF HolderInv
    <3>2. CASE s_algo = "NONE"
      BY <3>2 DEF SlotInv, AlgoBoundWhileUsed, ClientsOK
    <3>3. QED BY <3>1, <3>2, TypeParts DEF RestTypes
  <2>3. \A i \in Used(ff') :
          ClientOK(up'[s_tp[i]], down[s_tp[i]], cvote'[s_tp[i]], s_seq[i],
                   s_st[i], ff'[i].node_id \in quorate)
    BY <2>1, <2>2 DEF ClientsOK
  <2>4. /\ ClientsOK'
        /\ \A c \in Conns : (\A i \in Used(ff) : s_tp[i] # c) =>
             down'[c] = down[c]
    BY <1>2, <2>1, <2>3, OwnTransports, RecomputeHolders
  <2>5. Unserved'
    BY <2>4, OwnTransports DEF HolderInv, Unserved, SlotFrame
  <2>6. QED BY <2>4, <2>5 DEF HolderInv
<1>3. QED BY <1>1, <1>2, Zenon DEF RecomputeIfComplete

(* The end of a session: what is known before the rest is decided again.   *)
LEMMA ReleaseHolders ==
    ASSUME TypeOK, SlotInv, HolderInv, NEW c \in Conns, ReleaseSlot(c)
    PROVE  LET i == sess[c].ff_idx
           IN  /\ i \in Slots
               /\ ff' = Remove(ff, i) /\ Used(ff') = Used(ff) \ {i}
               /\ s_tp' = [s_tp EXCEPT ![i] = NoConn]
               /\ \A j \in Used(ff') : /\ s_tp'[j] = s_tp[j] /\ s_tp[j] # c
                                       /\ ff'[j].node_id = ff[j].node_id
               /\ sess'[c].ff_idx = NoSlot
               /\ \A d \in Conns \ {c} : sess'[d] = sess[d]
               /\ up'[c] = <<>> /\ cvote'[c] = "NONE" /\ Drained(c)[c] = <<>>
               /\ \A d \in Conns \ {c} : /\ up'[d] = up[d]
                                         /\ cvote'[d] = cvote[d]
                                         /\ Drained(c)[d] = down[d]
<1> DEFINE i == sess[c].ff_idx
<1>1. /\ sess \in [Conns -> Session] /\ up \in [Conns -> Seq(Seqs)]
      /\ cvote \in [Conns -> {"NONE", "ACK", "NACK"}]
      /\ down \in [Conns -> Seq(Message)] /\ ff \in Tables
      /\ s_tp \in [Slots -> Conns \cup {NoConn}] /\ i \in Slots
  BY ReleaseTypes, TypeParts DEF RestTypes, PushTypes, Queues
<1>2. /\ ff' = Remove(ff, i)
      /\ s_tp' = [s_tp EXCEPT ![i] = NoConn]
      /\ sess' = [sess EXCEPT ![c] = FreeSession]
      /\ up' = [up EXCEPT ![c] = <<>>]
      /\ cvote' = [cvote EXCEPT ![c] = "NONE"]
  BY Zenon DEF ReleaseSlot, Hangup
<1>3. \A j \in Used(ff) \ {i} : s_tp[j] # c /\ j \in Slots \ {i}
  BY DEF SlotInv, SlotsAccounted, Used
<1> HIDE DEF i
<1>4. Used(ff') = Used(ff) \ {i} /\ \A j \in Slots : ff'[j].node_id = ff[j].node_id
  <2>1. Used(ff') = Used(ff) \ {i}
    BY <1>1, <1>2, RemoveType
  <2>2. \A j \in Slots : ff'[j].node_id = ff[j].node_id
    BY <1>1, <1>2 DEF Remove, Tables, Client
  <2>3. QED BY <2>1, <2>2
<1>5. \A j \in Slots \ {i} : s_tp'[j] = s_tp[j]
  BY <1>1, <1>2
<1>6. sess'[c].ff_idx = NoSlot /\ \A d \in Conns \ {c} : sess'[d] = sess[d]
  BY <1>1, <1>2 DEF FreeSession
<1>7. /\ up'[c] = <<>> /\ cvote'[c] = "NONE" /\ Drained(c)[c] = <<>>
      /\ \A d \in Conns \ {c} : /\ up'[d] = up[d] /\ cvote'[d] = cvote[d]
                                /\ Drained(c)[d] = down[d]
  BY <1>1, <1>2 DEF Drained
<1>8. QED BY <1>1, <1>2, <1>3, <1>4, <1>5, <1>6, <1>7 DEF i

LEMMA LeaveFFSplitHolders ==
    ASSUME ~SendMayFail, TypeOK, TypeOK', SlotInv, HolderInv, FewInFlight',
           NEW c \in Conns, LeaveFFSplit(c)
    PROVE  HolderInv'
<1> DEFINE i == sess[c].ff_idx
           tp == [s_tp EXCEPT ![i] = NoConn]
<1>1. /\ ReleaseSlot(c) /\ s_algo = "FFSPLIT"
      /\ Recompute(Remove(ff, i), tp, Drained(c))
  BY Zenon DEF LeaveFFSplit
<1>2. /\ i \in Slots
      /\ ff' = Remove(ff, i) /\ Used(ff') = Used(ff) \ {i}
      /\ s_tp' = tp
      /\ \A j \in Used(ff') : /\ s_tp'[j] = s_tp[j] /\ s_tp[j] # c
                              /\ ff'[j].node_id = ff[j].node_id
      /\ sess'[c].ff_idx = NoSlot
      /\ \A d \in Conns \ {c} : sess'[d] = sess[d]
      /\ up'[c] = <<>> /\ cvote'[c] = "NONE" /\ Drained(c)[c] = <<>>
      /\ \A d \in Conns \ {c} : /\ up'[d] = up[d] /\ cvote'[d] = cvote[d]
                                /\ Drained(c)[d] = down[d]
  BY <1>1, ReleaseHolders
<1>3. ff' \in Tables /\ Drained(c) \in Queues
  BY <1>1, ReleaseTypes
<1> HIDE DEF tp, i
<1>4. /\ \A j \in Used(ff') : tp[j] \in Conns /\ tp[j] # c
      /\ \A j, k \in Used(ff') : tp[j] = tp[k] => j = k
  BY <1>2, OwnTransports
<1>5. \A j \in Used(ff') :
        ClientOK(up'[tp[j]], Drained(c)[tp[j]], cvote'[tp[j]], s_seq[j],
                 s_st[j], ff'[j].node_id \in quorate)
  BY <1>1, <1>2, <1>4 DEF HolderInv, ClientsOK
<1>6. Recompute(ff', tp, Drained(c))
  BY <1>1, <1>2
<1>7. /\ ClientsOK'
      /\ \A d \in Conns : (\A j \in Used(ff') : tp[j] # d) =>
           down'[d] = Drained(c)[d]
  BY <1>2, <1>3, <1>4, <1>5, <1>6, RecomputeHolders
<1>8. Unserved'
  <2>1. ASSUME NEW d \in Conns, sess'[d].ff_idx = NoSlot
        PROVE  down'[d] = <<>> /\ up'[d] = <<>> /\ cvote'[d] = "NONE"
    <3>1. CASE d = c
      BY <1>2, <1>4, <1>7, <3>1
    <3>2. CASE d # c
      <4>1. sess[d].ff_idx = NoSlot
        BY <1>2, <2>1, <3>2
      <4>2. \A j \in Used(ff') : tp[j] # d
        BY <1>2, <4>1, OwnTransports
      <4>3. QED BY <1>2, <1>7, <3>2, <4>1, <4>2 DEF HolderInv, Unserved
    <3>3. QED BY <3>1, <3>2
  <2>2. QED BY <2>1 DEF Unserved
<1>9. QED BY <1>7, <1>8 DEF HolderInv

(* lms_refresh_others pushes to the transports of used slots only. *)
LEMMA RefreshQueues ==
    ASSUME NEW t, NEW tp, NEW last, NEW excl, NEW q,
           Refresh(t, tp, last, excl, q),
           \A i, j \in Used(t) : tp[i] = tp[j] => i = j,
           NEW d \in Conns, \A i \in Used(t) : tp[i] # d
    PROVE  down'[d] = q[d]
<1> DEFINE told == {i \in WaitingOthers(t, last, excl) :
                      LmsVote(t, i, last) # "WAIT"}
           vote == [i \in Slots |-> Vote(LmsVote(t, i, last) = "ACK")]
<1>1. PICK fail \in Failures : down' = Pushed(q, tp, told \ fail, vote)
  BY Zenon DEF Refresh
<1>2. told \subseteq Used(t)
  BY DEF WaitingOthers
<1> DEFINE S == told \ fail
<1> HIDE DEF told, vote
<1>3. S \subseteq Used(t)
  BY <1>2
<1> HIDE DEF S
<1>4. Pushed(q, tp, S, vote)[d] = q[d]
  BY <1>3, PushedTo
<1>5. QED BY <1>1, <1>4 DEF S

(* LMS: connections without a slot stay silent. *)
LEMMA LmsHolders ==
    ASSUME TypeOK, SlotInv, SlotFrame, HolderInv, NEW c \in Conns,
           sess[c].st = "ACTIVE", s_algo = "LMS", UNCHANGED <<up, cvote>>,
           NEW vote,
           \/ down' = WithReply(c, vote)
           \/ \E last, excl : Refresh(ff', s_tp, last, excl, WithReply(c, vote))
    PROVE  HolderInv'
<1>1. sess[c].ff_idx # NoSlot
  BY NoSlotIsNoSlot DEF SlotInv, ActiveHasSlot
<1>2. \A d \in Conns \ {c} : WithReply(c, vote)[d] = down[d]
  BY TypeParts DEF WithReply, PushTypes, Queues
<1>3. ASSUME NEW d \in Conns, sess[d].ff_idx = NoSlot
      PROVE  down'[d] = down[d]
  <2>1. d # c /\ \A i \in Used(ff') : s_tp[i] # d
    BY <1>1, <1>3, OwnTransports DEF SlotFrame
  <2>2. CASE down' = WithReply(c, vote)
    BY <1>2, <2>1, <2>2
  <2>3. ASSUME NEW last, NEW excl,
               Refresh(ff', s_tp, last, excl, WithReply(c, vote))
        PROVE  down'[d] = down[d]
    <3>1. \A i, j \in Used(ff') : s_tp[i] = s_tp[j] => i = j
      BY OwnTransports DEF SlotFrame
    <3>2. down'[d] = WithReply(c, vote)[d]
      BY <2>1, <2>3, <3>1, RefreshQueues
    <3>3. QED BY <1>2, <2>1, <3>2
  <2>4. QED BY <2>2, <2>3
<1>4. Unserved'
  BY <1>3 DEF HolderInv, Unserved, SlotFrame
<1>5. QED BY <1>4 DEF HolderInv, SlotFrame

(* The other ways a session ends. *)
LEMMA LeaveHolders ==
    ASSUME ~AllowOverlap, TypeOK, SlotInv, HolderInv, NEW c \in Conns,
           LeaveHandshake(c) \/ LeaveLast(c) \/ LeaveLms(c)
    PROVE  HolderInv'
<1>1. CASE LeaveHandshake(c)
  <2>1. /\ sess[c].ff_idx = NoSlot
        /\ sess' = [sess EXCEPT ![c] = FreeSession]
        /\ up' = [up EXCEPT ![c] = <<>>]
        /\ cvote' = [cvote EXCEPT ![c] = "NONE"]
        /\ down' = [down EXCEPT ![c] = <<>>]
        /\ UNCHANGED <<s_algo, ff, s_tp, s_seq, s_st, quorate>>
    BY <1>1 DEF LeaveHandshake, Hangup, Drained
  <2>2. /\ sess \in [Conns -> Session] /\ DOMAIN up = Conns
        /\ DOMAIN cvote = Conns /\ DOMAIN down = Conns
    BY TypeParts DEF RestTypes, PushTypes, Queues
  <2>3. \A d \in Conns : d # c =>
          sess'[d] = sess[d] /\ up'[d] = up[d] /\ cvote'[d] = cvote[d]
          /\ down'[d] = down[d]
    BY <2>1, <2>2
  <2>4. up'[c] = <<>> /\ cvote'[c] = "NONE" /\ down'[c] = <<>>
    BY <2>1, <2>2
  <2>5. \A i \in Used(ff) : s_tp[i] \in Conns /\ s_tp[i] # c
    BY <2>1, OwnTransports
  <2>6. Unserved'
    BY <2>3, <2>4 DEF HolderInv, Unserved
  <2>7. s_algo' = "FFSPLIT" => ClientsOK'
    BY <2>1, <2>3, <2>5 DEF HolderInv, ClientsOK
  <2>8. QED BY <2>6, <2>7 DEF HolderInv
<1>2. CASE LeaveLast(c) \/ LeaveLms(c)
  <2> DEFINE i == sess[c].ff_idx
             tp == [s_tp EXCEPT ![i] = NoConn]
             last == [s_lms_last EXCEPT ![i] = "NEW"]
  <2>1. /\ ReleaseSlot(c)
        /\ s_algo' # "FFSPLIT"
        /\ \/ down' = Drained(c)
           \/ Refresh(Remove(ff, i), tp, last, {}, Drained(c))
    <3>1. CASE LeaveLast(c)
      BY <3>1 DEF LeaveLast, AlgoAfterLeave
    <3>2. CASE LeaveLms(c)
      <4>1. /\ ReleaseSlot(c) /\ s_algo = "LMS"
            /\ s_algo' = AlgoAfterLeave(Remove(ff, i))
            /\ Refresh(Remove(ff, i), tp, last, {}, Drained(c))
        BY <3>2, Zenon DEF LeaveLms
      <4>2. QED BY <4>1 DEF AlgoAfterLeave
    <3>3. QED BY <1>2, <3>1, <3>2
  <2>2. /\ ff' = Remove(ff, i) /\ Used(ff') = Used(ff) \ {i}
        /\ s_tp' = tp
        /\ \A j \in Used(ff') : s_tp'[j] = s_tp[j] /\ s_tp[j] # c
        /\ \A d \in Conns \ {c} : sess'[d] = sess[d]
        /\ up'[c] = <<>> /\ cvote'[c] = "NONE" /\ Drained(c)[c] = <<>>
        /\ \A d \in Conns \ {c} : /\ up'[d] = up[d] /\ cvote'[d] = cvote[d]
                                  /\ Drained(c)[d] = down[d]
    BY <2>1, ReleaseHolders
  <2> HIDE DEF tp, i, last
  <2>3. ASSUME NEW d \in Conns, sess'[d].ff_idx = NoSlot
        PROVE  down'[d] = <<>> /\ up'[d] = <<>> /\ cvote'[d] = "NONE"
    <3>1. /\ Drained(c)[d] = <<>> /\ up'[d] = <<>> /\ cvote'[d] = "NONE"
          /\ \A j \in Used(ff') : tp[j] # d
      <4>1. CASE d = c
        BY <2>2, <4>1
      <4>2. CASE d # c
        <5>1. sess[d].ff_idx = NoSlot
          BY <2>2, <2>3, <4>2
        <5>2. \A j \in Used(ff') : tp[j] # d
          BY <2>2, <5>1, OwnTransports
        <5>3. QED BY <2>2, <4>2, <5>1, <5>2 DEF HolderInv, Unserved
      <4>3. QED BY <4>1, <4>2
    <3>2. CASE down' = Drained(c)
      BY <3>1, <3>2
    <3>3. CASE Refresh(ff', tp, last, {}, Drained(c))
      <4>1. \A j, k \in Used(ff') : tp[j] = tp[k] => j = k
        BY <2>2, OwnTransports
      <4>2. down'[d] = Drained(c)[d]
        BY <3>1, <3>3, <4>1, RefreshQueues
      <4>3. QED BY <3>1, <4>2
    <3>4. QED BY <2>1, <2>2, <3>2, <3>3
  <2>4. QED BY <2>1, <2>3 DEF HolderInv, Unserved
<1>3. QED BY <1>1, <1>2

LEMMA InitialHolders == Init => HolderInv
  BY DEF Init, HolderInv, Unserved

(* Every step keeps the holder invariant. *)
LEMMA HolderStep ==
    ASSUME ~SendMayFail, ~AllowOverlap, TypeOK, TypeOK', SlotInv, HolderInv,
           FewInFlight, FewInFlight', Next
    PROVE  HolderInv'
<1>0. PICK c \in Conns :
      \/ Connect(c)
      \/ \E name \in Names : Preinit(c, name)
      \/ \E name \in Names : PreinitRefused(c, name)
      \/ \E n \in NodeIds, algo \in Algos, tb \in TieBreakers :
            InitMsg(c, n, algo, tb)
      \/ \E cfg \in Configs : ConfigList(c, cfg)
      \/ \E v \in Views, h \in Heurs : MembershipList(c, v, h)
      \/ \E h \in Heurs : HeuristicsChange(c, h)
      \/ \E kap \in Kaps : SetOption(c, kap)
      \/ \E v \in Views, h \in Heurs : LmsMembershipList(c, v, h)
      \/ LmsQuorumList(c)
      \/ AskForVote(c)
      \/ VoteInfoReply(c)
      \/ ClientRecv(c)
      \/ Break(c)
      \/ LeaveHandshake(c)
      \/ LeaveLast(c)
      \/ LeaveFFSplit(c)
      \/ LeaveLms(c)
  BY Zenon DEF Next
<1> DEFINE i == sess[c].ff_idx
<1>types. sess[c] \in Session
  BY TypeParts DEF RestTypes
<1>1. ASSUME \/ Connect(c) \/ Break(c)
             \/ \E name \in Names : Preinit(c, name) \/ PreinitRefused(c, name)
             \/ \E kap \in Kaps : SetOption(c, kap)
      PROVE  HolderInv'
  <2>1. SlotFrame
    BY <1>1, FrameSteps
  <2>2. UNCHANGED <<down, up, cvote, s_seq, s_st, quorate>>
    BY <1>1 DEF Connect, Break, Preinit, PreinitRefused, SetOption, pushVars
  <2>3. QED BY <2>1, <2>2, FrameHolders
<1>2. ASSUME NEW cfg \in Configs, ConfigList(c, cfg) PROVE HolderInv'
  <2> DEFINE s == [sess[c] EXCEPT !.has_config = TRUE]
  <2>1. SlotFrame
    BY <1>2, FrameSteps
  <2>2. /\ RecomputeIfComplete(s, ff') /\ s_algo # "LMS"
        /\ UNCHANGED <<up, cvote>>
    BY <1>2, Zenon DEF ConfigList
  <2> HIDE DEF s
  <2>3. QED BY <2>1, <2>2, TailHolders
<1>3. ASSUME NEW v \in Views, NEW h \in Heurs, MembershipList(c, v, h)
      PROVE  HolderInv'
  <2> DEFINE s == [sess[c] EXCEPT !.has_memb = TRUE]
  <2>1. SlotFrame
    BY <1>3, FrameSteps
  <2>2. /\ RecomputeIfComplete(s, ff') /\ s_algo # "LMS"
        /\ UNCHANGED <<up, cvote>>
    BY <1>3, Zenon DEF MembershipList
  <2> HIDE DEF s
  <2>3. QED BY <2>1, <2>2, TailHolders
<1>4. ASSUME NEW h \in Heurs, HeuristicsChange(c, h) PROVE HolderInv'
  <2>1. SlotFrame
    BY <1>4, FrameSteps
  <2>2. /\ RecomputeIfComplete(sess[c], ff') /\ s_algo # "LMS"
        /\ UNCHANGED <<up, cvote>>
    BY <1>4, Zenon DEF HeuristicsChange
  <2>3. QED BY <2>1, <2>2, TailHolders
<1>5. ASSUME NEW v \in Views, NEW h \in Heurs, LmsMembershipList(c, v, h)
      PROVE  HolderInv'
  <2> DEFINE vote == LmsVote(ff', i, s_lms_last)
             last == [s_lms_last EXCEPT ![i] = LmsSaved(ff', i, s_lms_last)]
  <2>1. SlotFrame
    BY <1>5, FrameSteps
  <2>2. /\ sess[c].st = "ACTIVE" /\ s_algo = "LMS" /\ UNCHANGED <<up, cvote>>
        /\ LmsDecideAndRefresh(c, ff')
    BY <1>5, Zenon DEF LmsMembershipList, Reports
  <2>3. Refresh(ff', s_tp, last, {i}, WithReply(c, vote))
    BY <2>2, Zenon DEF LmsDecideAndRefresh
  <2> HIDE DEF vote, last
  <2>4. QED BY <2>1, <2>2, <2>3, LmsHolders
<1>6. CASE AskForVote(c)
  <2> DEFINE vote == LmsVote(ff', i, s_lms_last)
             last == [s_lms_last EXCEPT ![i] = LmsSaved(ff', i, s_lms_last)]
  <2>1. SlotFrame
    BY <1>6, FrameSteps
  <2>2. /\ sess[c].st = "ACTIVE" /\ s_algo = "LMS" /\ UNCHANGED <<up, cvote>>
        /\ LmsDecideAndRefresh(c, ff) /\ ff' = ff
    BY <1>6, Zenon DEF AskForVote, Reports
  <2>3. Refresh(ff', s_tp, last, {i}, WithReply(c, vote))
    BY <2>2, Zenon DEF LmsDecideAndRefresh
  <2> HIDE DEF vote, last
  <2>4. QED BY <2>1, <2>2, <2>3, LmsHolders
<1>7. CASE LmsQuorumList(c)
  <2> DEFINE vote == LmsVote(ff, i, s_lms_last)
  <2>1. SlotFrame
    BY <1>7, FrameSteps
  <2>2. /\ sess[c].st = "ACTIVE" /\ s_algo = "LMS" /\ UNCHANGED <<up, cvote>>
        /\ down' = WithReply(c, vote)
    BY <1>7, Zenon DEF LmsQuorumList, Reports
  <2> HIDE DEF vote
  <2>3. QED BY <2>1, <2>2, LmsHolders
<1>8. QED
  BY <1>0, <1>1, <1>2, <1>3, <1>4, <1>5, <1>6, <1>7, InitMsgHolders,
     ReplyHolders, RecvHolders, LeaveHolders, LeaveFFSplitHolders

(* Every reachable state satisfies the holder invariant, as long as no     *)
(* connection has more in flight than there are sequence numbers.          *)
THEOREM HolderInvariant ==
    ASSUME SendMayFail = FALSE, AllowOverlap = FALSE
    PROVE  Spec /\ []FewInFlight => []HolderInv
<1>1. Init => HolderInv
  BY InitialHolders
<1>2. TypeOK /\ SlotInv /\ FewInFlight /\ HolderInv
        /\ (TypeOK /\ SlotInv)' /\ FewInFlight' /\ [Next]_vars
      => HolderInv'
  <2> SUFFICES ASSUME TypeOK, TypeOK', SlotInv, HolderInv, FewInFlight,
                      FewInFlight', [Next]_vars
               PROVE  HolderInv'
    OBVIOUS
  <2>1. CASE UNCHANGED vars
    <3>1. UNCHANGED <<sess, s_algo, ff, s_tp, up, cvote, down, s_seq, s_st,
                      quorate>>
      BY <2>1 DEF vars, pushVars
    <3>2. QED BY <3>1 DEF HolderInv, Unserved, ClientsOK
  <2>2. QED BY <2>1, HolderStep
<1>3. QED BY <1>1, <1>2, SlotInvariant, PTL DEF Spec

(* The in-flight bound of the hypotheses keeps the sequence numbers of one *)
(* connection apart.                                                       *)
LEMMA FlightIsFew ==
    ASSUME IsFiniteSet(Conns), TypeOK, FlightInv,
           MaxInFlight + 3 + 2 * Cardinality(Conns) <= SeqMod
    PROVE  FewInFlight
<1> SUFFICES ASSUME NEW c \in Conns PROVE Len(down[c]) + Len(up[c]) <= SeqMod
  BY DEF FewInFlight
<1>1. InFlight(c) \in Nat
  BY FlightTypes
<1>2. Cardinality(Taken) \in Nat /\ Cardinality(Conns) \in Nat
  BY TakenTypes
<1>3. Opening \in Nat
  BY DEF Opening
<1>4. InFlight(c) + Opening + 2 * Cardinality(Taken)
        <= MaxInFlight + 3 + 2 * Cardinality(Conns)
  BY DEF FlightInv
<1>5. \A a, b, k, l \in Nat : a + b + 2 * k <= MaxInFlight + 3 + 2 * l =>
        a <= MaxInFlight + 3 + 2 * l
  BY MaxInFlightAssumption
<1>6. InFlight(c) <= MaxInFlight + 3 + 2 * Cardinality(Conns)
  BY <1>1, <1>2, <1>3, <1>4, <1>5
<1>7. \A a, l \in Nat : (/\ a <= MaxInFlight + 3 + 2 * l
                         /\ MaxInFlight + 3 + 2 * l <= SeqMod) => a <= SeqMod
  BY MaxInFlightAssumption, SeqModAssumption
<1>8. InFlight(c) <= SeqMod
  BY <1>1, <1>2, <1>6, <1>7
<1>9. QED BY <1>8 DEF InFlight

(* Outside the NACK phase nobody is being told NACK and nobody waits for   *)
(* an ACK to be sent, so what ClientOK says of Idle and AckPending counts. *)
LEMMA HoldersAreChosen ==
    ASSUME ~SendMayFail, TypeOK, VoteInv, HolderInv
    PROVE  AckHoldersChosen
<1> SUFFICES ASSUME s_algo = "FFSPLIT", s_phase # 1, NEW i \in Used(ff),
                    MayHoldAck(s_tp[i])
             PROVE  ff[i].node_id \in quorate
  BY DEF AckHoldersChosen
<1> DEFINE c == s_tp[i]
<1>1. s_st[i] \in {Idle, AckPending}
  BY DEF VoteInv, PhaseExact, PhaseStates
<1>2. ClientOK(up[c], down[c], cvote[c], s_seq[i], s_st[i],
               ff[i].node_id \in quorate)
  BY DEF HolderInv, ClientsOK
<1>3. HoldsAck(down[c], cvote[c])
  BY DEF HoldsAck, MayHoldAck
<1> HIDE DEF c
<1>4. QED BY <1>1, <1>2, <1>3 DEF ClientOK

(* FFSplit, as long as no push fails, no node has two sessions and one     *)
(* connection cannot hold as many unanswered pushes as there are sequence  *)
(* numbers (2^32 in the code): outside the NACK phase every connected      *)
(* client that holds an ACK, or has one on its way, is in the partition    *)
(* recompute has chosen last.                                              *)
THEOREM VotesStayInPartition ==
    ASSUME SendMayFail = FALSE, AllowOverlap = FALSE, IsFiniteSet(Conns),
           MaxInFlight + 3 + 2 * Cardinality(Conns) <= SeqMod
    PROVE  Spec => []AckHoldersChosen
<1>1. TypeOK /\ FlightInv => FewInFlight
  BY FlightIsFew
<1>2. TypeOK /\ VoteInv /\ HolderInv => AckHoldersChosen
  BY HoldersAreChosen
<1>3. QED
  BY <1>1, <1>2, SlotInvariant, FlightInvariant, VoteInvariant,
     HolderInvariant, PTL
-----------------------------------------------------------------------------
(* FFSplit implements VoteService *)

(* No step but a grant makes a client a holder. *)
NoNewHolder ==
    \A i \in Used(ff') : HoldsAck(down'[s_tp'[i]], cvote'[s_tp'[i]]) =>
      /\ i \in Used(ff)
      /\ ff'[i].node_id = ff[i].node_id
      /\ HoldsAck(down[s_tp[i]], cvote[s_tp[i]])

LEMMA NoNewHolders ==
    ASSUME NoNewHolder
    PROVE  Holders' \subseteq Holders
BY DEF NoNewHolder, Holders, MayHoldAck, HoldsAck

(* NACKs make nobody a holder. *)
LEMMA PushedNacks ==
    ASSUME TypeOK, NEW q \in Queues, NEW tp, NEW S \in SUBSET Slots, NEW vote,
           \A i \in S : vote[i] = "NACK", NEW c \in Conns, NEW v,
           HoldsAck(Pushed(q, tp, S, vote)[c], v)
    PROVE  HoldsAck(q[c], v)
<1> DEFINE i == CHOOSE j \in S : tp[j] = c
           m == [kind |-> "VOTE_INFO", seq |-> (s_seq[i] + 1) % SeqMod,
                 vote |-> vote[i]]
<1>1. CASE \E j \in S : tp[j] = c
  <2>1. i \in S
    BY <1>1
  <2>2. Pushed(q, tp, S, vote)[c] = Append(q[c], m)
    BY <1>1 DEF Pushed
  <2>3. m.vote = "NACK" /\ m \in Message
    <3> HIDE DEF i
    <3>1. s_seq[i] \in Seqs
      BY <2>1, TypeParts DEF PushTypes
    <3>2. (s_seq[i] + 1) % SeqMod \in Seqs
      BY <3>1, SeqsBasics
    <3>3. QED BY <2>1, <3>2 DEF Message, Seqs
  <2> HIDE DEF m
  <2>4. q[c] \in Seq(Message) /\ Len(q[c]) \in Nat
    BY LenProperties DEF Queues
  <2> DEFINE e == Append(q[c], m)
  <2>5. /\ Len(e) = Len(q[c]) + 1 /\ e[Len(q[c]) + 1] = m
        /\ \A k \in 1 .. Len(q[c]) : e[k] = q[c][k]
    BY <2>3, <2>4, AppendProperties
  <2> HIDE DEF e
  <2>6. \A k \in 1 .. Len(e) : k = Len(q[c]) + 1 \/ k \in 1 .. Len(q[c])
    BY <2>4, <2>5
  <2>7. HoldsAck(e, v)
    BY <2>2 DEF e
  <2>8. QED BY <2>3, <2>5, <2>6, <2>7 DEF HoldsAck
<1>2. CASE ~ \E j \in S : tp[j] = c
  BY <1>2 DEF Pushed
<1>3. QED BY <1>1, <1>2

(* recompute that starts, or leaves open, a NACK round pushes NACKs only.  *)
LEMMA RecomputeWithdraws ==
    ASSUME TypeOK, NEW t, NEW tp, NEW q \in Queues, Recompute(t, tp, q),
           s_phase' = 1, NEW c \in Conns, NEW v, HoldsAck(down'[c], v)
    PROVE  HoldsAck(q[c], v)
<1>1. CASE RecomputeUnstable(t, q)
  BY <1>1 DEF RecomputeUnstable
<1>2. CASE RecomputeStable(t, tp, q)
  <2> DEFINE chosen == Decide(t, quorate)
             acks == {i \in Used(t) : t[i].node_id \in chosen}
             nacks == Used(t) \ acks
             vote == [i \in Slots |-> Vote(i \in acks)]
  <2>1. PICK fail \in Failures :
          /\ s_phase' = IF nacks \ fail # {} THEN 1
                        ELSE IF AcksTried(nacks \ fail, acks) \ fail # {}
                             THEN 2 ELSE 0
          /\ down' = Pushed(q, tp, (nacks \ fail)
                                     \cup (AcksTried(nacks \ fail, acks) \ fail),
                            vote)
    BY <1>2, Zenon DEF RecomputeStable
  <2>2. nacks \ fail # {}
    BY <2>1
  <2>3. AcksTried(nacks \ fail, acks) = {}
    BY <2>2 DEF AcksTried
  <2>4. down' = Pushed(q, tp, nacks \ fail, vote)
    <3>1. (nacks \ fail) \cup (AcksTried(nacks \ fail, acks) \ fail)
            = nacks \ fail
      BY <2>3
    <3>2. QED BY <2>1, <3>1
  <2>5. /\ nacks \ fail \in SUBSET Slots
        /\ \A i \in nacks \ fail : vote[i] = "NACK"
    BY DEF Used, Vote
  <2> HIDE DEF nacks, vote
  <2>6. HoldsAck(Pushed(q, tp, nacks \ fail, vote)[c], v)
    BY <2>4
  <2>7. QED BY <2>5, <2>6, PushedNacks
<1>3. QED BY <1>1, <1>2 DEF Recompute

(* Every step that leaves the server in the NACK phase. *)
LEMMA WithdrawStep ==
    ASSUME ~AllowOverlap, TypeOK, SlotInv, HolderInv, Next, s_algo # "LMS",
           s_phase' = 1
    PROVE  NoNewHolder
<1>0. PICK c \in Conns :
      \/ Connect(c)
      \/ \E name \in Names : Preinit(c, name)
      \/ \E name \in Names : PreinitRefused(c, name)
      \/ \E n \in NodeIds, algo \in Algos, tb \in TieBreakers :
            InitMsg(c, n, algo, tb)
      \/ \E cfg \in Configs : ConfigList(c, cfg)
      \/ \E v \in Views, h \in Heurs : MembershipList(c, v, h)
      \/ \E h \in Heurs : HeuristicsChange(c, h)
      \/ \E kap \in Kaps : SetOption(c, kap)
      \/ \E v \in Views, h \in Heurs : LmsMembershipList(c, v, h)
      \/ LmsQuorumList(c)
      \/ AskForVote(c)
      \/ VoteInfoReply(c)
      \/ ClientRecv(c)
      \/ Break(c)
      \/ LeaveHandshake(c)
      \/ LeaveLast(c)
      \/ LeaveFFSplit(c)
      \/ LeaveLms(c)
  BY Zenon DEF Next
<1>types. /\ sess[c] \in Session /\ down \in Queues
          /\ s_tp \in [Slots -> Conns \cup {NoConn}]
          /\ cvote \in [Conns -> {"NONE", "ACK", "NACK"}]
          /\ Used(ff) \subseteq Slots
  BY TypeParts DEF RestTypes, PushTypes, Used
<1>own. \A i \in Used(ff) : s_tp[i] \in Conns
  BY OwnTransports
<1>1. ASSUME \/ Connect(c) \/ Break(c)
             \/ \E name \in Names : Preinit(c, name) \/ PreinitRefused(c, name)
             \/ \E kap \in Kaps : SetOption(c, kap)
      PROVE  NoNewHolder
  <2>1. SlotFrame
    BY <1>1, FrameSteps
  <2>2. UNCHANGED <<down, cvote>>
    BY <1>1 DEF Connect, Break, Preinit, PreinitRefused, SetOption, pushVars
  <2>3. QED BY <1>types, <2>1, <2>2 DEF SlotFrame, NoNewHolder
<1>2. ASSUME SlotFrame, UNCHANGED cvote,
             \E s : RecomputeIfComplete(s, ff')
      PROVE  NoNewHolder
  <2>1. UNCHANGED down \/ Recompute(ff', s_tp, down)
    BY <1>2 DEF RecomputeIfComplete, pushVars
  <2>2. ASSUME NEW d \in Conns, NEW v, HoldsAck(down'[d], v)
        PROVE  HoldsAck(down[d], v)
    BY <1>types, <2>1, <2>2, RecomputeWithdraws
  <2>3. QED BY <1>2, <1>types, <1>own, <2>2 DEF SlotFrame, NoNewHolder
<1>3. ASSUME NEW cfg \in Configs, ConfigList(c, cfg) PROVE NoNewHolder
  <2> DEFINE s == [sess[c] EXCEPT !.has_config = TRUE]
  <2>1. SlotFrame
    BY <1>3, FrameSteps
  <2>2. RecomputeIfComplete(s, ff') /\ UNCHANGED cvote
    BY <1>3, Zenon DEF ConfigList
  <2> HIDE DEF s
  <2>3. QED BY <1>2, <2>1, <2>2
<1>4. ASSUME NEW v \in Views, NEW h \in Heurs, MembershipList(c, v, h)
      PROVE  NoNewHolder
  <2> DEFINE s == [sess[c] EXCEPT !.has_memb = TRUE]
  <2>1. SlotFrame
    BY <1>4, FrameSteps
  <2>2. RecomputeIfComplete(s, ff') /\ UNCHANGED cvote
    BY <1>4, Zenon DEF MembershipList
  <2> HIDE DEF s
  <2>3. QED BY <1>2, <2>1, <2>2
<1>5. ASSUME NEW h \in Heurs, HeuristicsChange(c, h) PROVE NoNewHolder
  <2>1. SlotFrame
    BY <1>5, FrameSteps
  <2>2. RecomputeIfComplete(sess[c], ff') /\ UNCHANGED cvote
    BY <1>5, Zenon DEF HeuristicsChange
  <2>3. QED BY <1>2, <2>1, <2>2
<1>6. ASSUME \/ \E v \in Views, h \in Heurs : LmsMembershipList(c, v, h)
             \/ LmsQuorumList(c) \/ AskForVote(c) \/ LeaveLms(c)
      PROVE  NoNewHolder
  BY <1>6 DEF LmsMembershipList, LmsQuorumList, AskForVote, LeaveLms
<1>7. ASSUME NEW n \in NodeIds, NEW algo \in Algos, NEW tb \in TieBreakers,
             InitMsg(c, n, algo, tb)
      PROVE  NoNewHolder
  <2> DEFINE i == SlotFor(ff, n)
  <2>1. /\ sess[c].st = "PREINIT_DONE" /\ UNCHANGED <<down, cvote>>
        /\ i = NoSlot => UNCHANGED <<ff, s_tp>>
        /\ i # NoSlot => s_tp' = [s_tp EXCEPT ![i] = c]
    BY <1>7, Zenon DEF InitMsg
  <2>2. ~HoldsAck(down[c], cvote[c])
    <3>1. sess[c].ff_idx = NoSlot
      BY <2>1 DEF SlotInv, ActiveHasSlot
    <3>2. down[c] = <<>> /\ cvote[c] = "NONE"
      BY <3>1 DEF HolderInv, Unserved
    <3>3. QED BY <3>2 DEF HoldsAck
  <2>3. CASE i = NoSlot
    BY <2>1, <2>3 DEF NoNewHolder
  <2>4. CASE i # NoSlot
    <3>1. i \in Slots /\ \A j \in Slots \ {i} : ff'[j] = ff[j]
      BY <1>7, <2>4, InitMsgTable
    <3> HIDE DEF i
    <3>2. s_tp'[i] = c /\ \A j \in Slots \ {i} : s_tp'[j] = s_tp[j]
      BY <1>types, <2>1, <2>4, <3>1
    <3>3. \A j \in Used(ff') \ {i} : j \in Used(ff) /\ j \in Slots \ {i}
      BY <3>1 DEF Used
    <3>4. QED BY <2>1, <2>2, <3>1, <3>2, <3>3 DEF NoNewHolder
  <2>5. QED BY <2>3, <2>4
<1>8. CASE VoteInfoReply(c)
  <2>1. SlotFrame
    BY <1>8, FrameSteps
  <2>2. UNCHANGED <<down, cvote>>
    <3> DEFINE i == sess[c].ff_idx
               st == [s_st EXCEPT ![i] = Idle]
    <3>1. UNCHANGED cvote /\ (UNCHANGED down \/ AdvancePhase(st))
      BY <1>8, Zenon DEF VoteInfoReply
    <3> HIDE DEF st
    <3>2. CASE AdvancePhase(st)
      BY <3>1, <3>2 DEF AdvancePhase
    <3>3. QED BY <3>1, <3>2
  <2>3. QED BY <1>types, <2>1, <2>2 DEF SlotFrame, NoNewHolder
<1>9. CASE ClientRecv(c)
  <2> DEFINE m == Head(down[c])
  <2>1. /\ down[c] # <<>>
        /\ down' = [down EXCEPT ![c] = Tail(down[c])]
        /\ cvote' = [cvote EXCEPT ![c] = m.vote]
        /\ UNCHANGED <<ff, s_tp>>
    BY <1>9 DEF ClientRecv
  <2>2. ASSUME HoldsAck(Tail(down[c]), m.vote)
        PROVE  HoldsAck(down[c], cvote[c])
    <3>1. down[c] \in Seq(Message)
      BY <1>types DEF Queues
    <3>2. /\ Len(Tail(down[c])) = Len(down[c]) - 1
          /\ \A k \in 1 .. Len(Tail(down[c])) : Tail(down[c])[k] = down[c][k + 1]
      BY <2>1, <3>1, HeadTailProperties
    <3>3. Len(down[c]) \in Nat \ {0}
      BY <2>1, <3>1, EmptySeq, LenProperties
    <3>4. 1 \in 1 .. Len(down[c]) /\ m = down[c][1]
      BY <2>1, <3>1, <3>3, HeadTailProperties
    <3>5. \A k \in 1 .. Len(Tail(down[c])) : k + 1 \in 1 .. Len(down[c])
      BY <3>2, <3>3
    <3>6. QED BY <2>2, <3>2, <3>4, <3>5 DEF HoldsAck
  <2> HIDE DEF m
  <2>3. ASSUME NEW d \in Conns, HoldsAck(down'[d], cvote'[d])
        PROVE  HoldsAck(down[d], cvote[d])
    <3>1. CASE d = c
      <4>1. down'[c] = Tail(down[c]) /\ cvote'[c] = m.vote
        BY <1>types, <2>1 DEF Queues
      <4>2. QED BY <2>2, <2>3, <3>1, <4>1
    <3>2. CASE d # c
      <4>1. down'[d] = down[d] /\ cvote'[d] = cvote[d]
        BY <1>types, <2>1, <3>2 DEF Queues
      <4>2. QED BY <2>3, <4>1
    <3>3. QED BY <3>1, <3>2
  <2>4. QED BY <1>own, <2>1, <2>3 DEF NoNewHolder
<1>10. CASE LeaveHandshake(c)
  <2>1. /\ down' = [down EXCEPT ![c] = <<>>]
        /\ cvote' = [cvote EXCEPT ![c] = "NONE"]
        /\ UNCHANGED <<ff, s_tp>> /\ sess[c].ff_idx = NoSlot
    BY <1>10 DEF LeaveHandshake, Drained, Hangup
  <2>2. \A i \in Used(ff) : s_tp[i] # c
    BY <2>1, OwnTransports
  <2>3. \A d \in Conns \ {c} : down'[d] = down[d] /\ cvote'[d] = cvote[d]
    BY <1>types, <2>1 DEF Queues
  <2>4. QED BY <1>own, <2>1, <2>2, <2>3 DEF NoNewHolder
<1>11. CASE LeaveLast(c)
  BY <1>11 DEF LeaveLast
<1>12. CASE LeaveFFSplit(c)
  <2> DEFINE i == sess[c].ff_idx
             tp == [s_tp EXCEPT ![i] = NoConn]
  <2>1. ReleaseSlot(c) /\ Recompute(Remove(ff, i), tp, Drained(c))
    BY <1>12, Zenon DEF LeaveFFSplit
  <2>2. /\ Used(ff') = Used(ff) \ {i}
        /\ \A j \in Used(ff') : /\ s_tp'[j] = s_tp[j] /\ s_tp[j] # c
                                /\ ff'[j].node_id = ff[j].node_id
        /\ \A d \in Conns \ {c} : /\ cvote'[d] = cvote[d]
                                  /\ Drained(c)[d] = down[d]
    BY <2>1, ReleaseHolders
  <2>3. Drained(c) \in Queues
    <3>1. <<>> \in Seq(Message)
      OBVIOUS
    <3>2. QED BY <1>types, <3>1 DEF Drained, Queues
  <2> HIDE DEF i, tp
  <2>4. ASSUME NEW d \in Conns \ {c}, HoldsAck(down'[d], cvote'[d])
        PROVE  HoldsAck(down[d], cvote[d])
    <3>1. HoldsAck(Drained(c)[d], cvote'[d])
      BY <2>1, <2>3, <2>4, RecomputeWithdraws
    <3>2. QED BY <2>2, <3>1
  <2>5. QED BY <1>own, <2>2, <2>4 DEF NoNewHolder
<1>13. QED
  BY <1>0, <1>1, <1>3, <1>4, <1>5, <1>6, <1>7, <1>8, <1>9, <1>10, <1>11,
     <1>12

(* The cluster is only ever bound to an algorithm a client asked for.      *)
AlgoAsked == s_algo \in Algos \cup {"NONE"}

LEMMA AlgoStep ==
    ASSUME AlgoAsked, [Next]_vars
    PROVE  AlgoAsked'
<1>1. ASSUME NEW c \in Conns, NEW n \in NodeIds, NEW algo \in Algos,
             NEW tb \in TieBreakers, InitMsg(c, n, algo, tb)
      PROVE  s_algo' \in {s_algo, "NONE"} \cup Algos
  BY <1>1, Zenon DEF InitMsg
<1>2. ASSUME NEW c \in Conns,
             \/ LeaveLast(c) \/ LeaveFFSplit(c) \/ LeaveLms(c)
      PROVE  s_algo' \in {s_algo, "NONE"}
  BY <1>2 DEF LeaveLast, LeaveFFSplit, LeaveLms, AlgoAfterLeave
<1>3. ASSUME NEW c \in Conns,
             \/ Connect(c) \/ Break(c)
             \/ \E name \in Names : Preinit(c, name) \/ PreinitRefused(c, name)
             \/ \E cfg \in Configs : ConfigList(c, cfg)
             \/ \E v \in Views, h \in Heurs : MembershipList(c, v, h)
             \/ \E h \in Heurs : HeuristicsChange(c, h)
             \/ \E kap \in Kaps : SetOption(c, kap)
             \/ \E v \in Views, h \in Heurs : LmsMembershipList(c, v, h)
             \/ LmsQuorumList(c) \/ AskForVote(c)
             \/ VoteInfoReply(c) \/ ClientRecv(c) \/ LeaveHandshake(c)
      PROVE  s_algo' = s_algo
  BY <1>3 DEF Connect, Break, Preinit, PreinitRefused, ConfigList,
     MembershipList, HeuristicsChange, SetOption, LmsMembershipList,
     LmsQuorumList, AskForVote, VoteInfoReply, ClientRecv, LeaveHandshake
<1>4. CASE UNCHANGED vars
  BY <1>4 DEF vars, AlgoAsked
<1>5. CASE Next
  <2>1. s_algo' \in {s_algo, "NONE"} \cup Algos
    BY <1>1, <1>2, <1>3, <1>5, Zenon DEF Next
  <2>2. QED BY <2>1 DEF AlgoAsked
<1>6. QED BY <1>4, <1>5

(* Every step of an FFSplit server is a step of the vote service: one that *)
(* leaves a NACK round open takes votes away and gives none, and after any *)
(* other one all holders are chosen.                                       *)
LEMMA ServiceStep ==
    ASSUME ~AllowOverlap, Algos \subseteq {"FFSPLIT"}, TypeOK, TypeOK',
           SlotInv, SlotInv', HolderInv, AlgoAsked, AlgoAsked',
           AckHoldersChosen', Holders \subseteq NodeIds, [Next]_vars
    PROVE  [VS!Next]_(VS!vars) /\ Holders' \subseteq NodeIds
<1>1. CASE UNCHANGED vars
  <2>1. UNCHANGED <<ff, s_tp, cvote, down, quorate>>
    BY <1>1 DEF vars, pushVars
  <2>2. UNCHANGED <<quorate, Holders>>
    BY <2>1 DEF Holders, MayHoldAck
  <2>3. QED BY <2>2 DEF VS!vars
<1>2. CASE Next
  <2>1. quorate' \in SUBSET NodeIds
    BY TypeParts DEF PushTypes
  <2>2. s_algo # "LMS" /\ s_algo' \in {"NONE", "FFSPLIT"}
    BY DEF AlgoAsked
  <2>3. CASE s_algo' = "FFSPLIT" /\ s_phase' = 1
    <3>1. Holders' \subseteq Holders
      BY <1>2, <2>2, <2>3, WithdrawStep, NoNewHolders
    <3>2. VS!Withdraw(quorate', Holders')
      BY <3>1 DEF VS!Withdraw
    <3>3. QED BY <2>1, <3>1, <3>2 DEF VS!Next
  <2>4. CASE s_algo' = "NONE" \/ s_phase' # 1
    <3>1. Holders' \subseteq quorate'
      <4>1. CASE s_algo' = "NONE"
        <5>1. Used(ff') = {}
          BY <4>1 DEF SlotInv, AlgoBoundWhileUsed
        <5>2. QED BY <5>1 DEF Holders
      <4>2. CASE s_algo' = "FFSPLIT" /\ s_phase' # 1
        BY <4>2 DEF AckHoldersChosen, Holders
      <4>3. QED BY <2>2, <2>4, <4>1, <4>2
    <3>2. VS!Grant(quorate', Holders')
      BY <3>1 DEF VS!Grant
    <3>3. QED BY <2>1, <3>1, <3>2 DEF VS!Next
  <2>5. QED BY <2>2, <2>3, <2>4
<1>3. QED BY <1>1, <1>2

(* A server whose clients ask for FFSplit implements VoteService, as long  *)
(* as no push fails, no node has two sessions, and a connection cannot     *)
(* hold as many unanswered pushes as there are sequence numbers.           *)
THEOREM FFSplitImplementsVoteService ==
    ASSUME SendMayFail = FALSE, AllowOverlap = FALSE,
           Algos \subseteq {"FFSPLIT"}, IsFiniteSet(Conns),
           MaxInFlight + 3 + 2 * Cardinality(Conns) <= SeqMod
    PROVE  Spec => ImplementsVoteService
<1>1. Init => VS!Init /\ AlgoAsked /\ Holders \subseteq NodeIds
  <2> SUFFICES ASSUME Init
               PROVE  VS!Init /\ AlgoAsked /\ Holders \subseteq NodeIds
    OBVIOUS
  <2>1. ff = EmptyTable /\ quorate = {} /\ s_algo = "NONE"
    BY DEF Init
  <2>2. Used(ff) = {}
    BY <2>1 DEF EmptyTable, ZeroClient, Used
  <2>3. QED BY <2>1, <2>2 DEF VS!Init, Holders, AlgoAsked
<1>2. AlgoAsked /\ [Next]_vars => AlgoAsked'
  BY AlgoStep
<1>3. TypeOK /\ FlightInv => FewInFlight
  BY FlightIsFew
<1>4. /\ TypeOK /\ SlotInv /\ HolderInv /\ AlgoAsked
      /\ (TypeOK /\ SlotInv)' /\ AlgoAsked' /\ AckHoldersChosen'
      /\ Holders \subseteq NodeIds /\ [Next]_vars
      => [VS!Next]_(VS!vars) /\ (Holders \subseteq NodeIds)'
  BY ServiceStep
<1>5. QED
  BY <1>1, <1>2, <1>3, <1>4, SlotInvariant, FlightInvariant, HolderInvariant,
     VotesStayInPartition, PTL DEF Spec, ImplementsVoteService, VS!Spec
=============================================================================
