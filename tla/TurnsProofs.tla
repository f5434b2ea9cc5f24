---------------------------- MODULE TurnsProofs ----------------------------
(***************************************************************************)
(* For any number of sessions, any receive and watchdog timeout, sends and *)
(* TLS handshakes of any length and any heartbeat intervals: SessionTurns  *)
(* never gives up a client that keeps a heartbeat of at most one and a     *)
(* half times the interval of its INIT.                                    *)
(*                                                                         *)
(* The invariant relates the two clocks of a session.  The server's, idle, *)
(* runs from the last frame it received, the client's, quiet, from the     *)
(* last frame it sent: if no frame waits in the socket, idle is not ahead  *)
(* of quiet.                                                               *)
(***************************************************************************)
EXTENDS SessionTurns, TLAPS

(* s_mux is held by a session that wants it. *)
HolderOpen == mux \in Conns => Open(mux) /\ st[mux] # "UPGRADE"

(* A client that runs is within its interval, and the server has heard     *)
(* what it sent.                                                           *)
ActiveClocks ==
    \A c \in Conns : st[c] = "ACTIVE" =>
        /\ hb[c] \in Hbs
        /\ alive[c] => quiet[c] <= chb[c]
        /\ (alive[c] /\ rx[c] = 0) => idle[c] <= quiet[c]

(* In the handshake a client that runs answers within Rtt, and a turn that *)
(* waits for it has not waited longer than it has been quiet.              *)
HandshakeClocks ==
    \A c \in Conns : (InHandshake(c) /\ alive[c] /\ rx[c] = 0) =>
        /\ quiet[c] <= Rtt
        /\ (mux = c /\ turn = "RECV") => RecvTicks <= quiet[c] + left

(* A client that has not spoken yet has been quiet for no time: it is not  *)
(* its turn.                                                               *)
Unheard ==
    \A c \in Conns : st[c] \in {"CLOSED", "UPGRADE"} => quiet[c] = 0

(* Only a session that has left its loop has been given up. *)
Running == \A c \in Conns : st[c] # "ENDING" => end[c] = "NONE"

IInv ==
    /\ TypeOK /\ HolderOpen /\ ActiveClocks /\ HandshakeClocks
    /\ Unheard /\ Running /\ NoFalseDeath

(* The initial state: every connection is closed. *)
LEMMA InitIInv == Init => IInv
  BY ConnsAssumption, TicksAssumption
  DEF Init, IInv, TypeOK, HolderOpen, Open, ActiveClocks, HandshakeClocks,
      InHandshake, Handshake, Unheard, Running, NoFalseDeath, GivenUp

USE ConnsAssumption, TicksAssumption, PromptAssumption, HbsAssumption
USE DEF IInv, TypeOK, HolderOpen, Open, ActiveClocks, HandshakeClocks,
    InHandshake, Handshake, Unheard, Running, NoFalseDeath, GivenUp,
    vars, clientVars, sessVars, Take, Give, Feed, Work

(* Clients: connecting, sending, dying. *)
LEMMA ClientSteps ==
  ASSUME IInv, NEW c \in Conns, Start(c) \/ ClientSend(c) \/ Die(c)
  PROVE  IInv'
<1>1. CASE Start(c)  BY <1>1 DEF Start
<1>2. CASE ClientSend(c)  BY <1>2 DEF ClientSend, MaySend
<1>3. CASE Die(c)  BY <1>3 DEF Die
<1> QED  BY <1>1, <1>2, <1>3

(* s_mux is taken; a TLS handshake ends. *)
LEMMA TakeSteps ==
  ASSUME IInv, NEW c \in Conns,
         \/ BeginTurn(c) \/ Epilogue(c) \/ EndTurn(c)
         \/ Upgraded(c) \/ UpgradeFails(c)
  PROVE  IInv'
<1>1. CASE BeginTurn(c)  BY <1>1 DEF BeginTurn
<1>2. CASE Epilogue(c)  BY <1>2 DEF Epilogue
<1>3. CASE EndTurn(c)  BY <1>3 DEF EndTurn
<1>4. CASE Upgraded(c)  BY <1>4 DEF Upgraded
<1>5. CASE UpgradeFails(c)  BY <1>5 DEF UpgradeFails
<1> QED  BY <1>1, <1>2, <1>3, <1>4, <1>5

(* A frame is received. *)
LEMMA FrameSteps ==
  ASSUME IInv, NEW c \in Conns,
         \/ HandshakeFrame(c) \/ StartTlsFrame(c) \/ WorkFrame(c) \/ BadFrame(c)
         \/ \E h \in Hbs : InitFrame(c, h)
         \/ \E h \in SetHbs : SetOptionFrame(c, h)
  PROVE  IInv'
<1>1. CASE HandshakeFrame(c)  BY <1>1 DEF HandshakeFrame, Receives, Stamp
<1>2. CASE StartTlsFrame(c)  BY <1>2 DEF StartTlsFrame, Receives, Stamp
<1>3. CASE WorkFrame(c)  BY <1>3 DEF WorkFrame, Receives, Stamp
<1>4. CASE BadFrame(c)  BY <1>4 DEF BadFrame, Receives
<1>5. CASE \E h \in Hbs : InitFrame(c, h)
  BY <1>5 DEF InitFrame, Receives, Stamp
<1>6. CASE \E h \in SetHbs : SetOptionFrame(c, h)
  BY <1>6 DEF SetOptionFrame, Receives, Stamp
<1> QED  BY <1>1, <1>2, <1>3, <1>4, <1>5, <1>6

(* A session that is given up has a client that died, or one whose         *)
(* interval has grown too long: its clocks say so.                         *)
LEMMA GiveUpSteps ==
  ASSUME IInv, NEW c \in Conns,
         DeadPeer(c) \/ SlowHandshake(c) \/ IdleTurn(c) \/ Leave(c)
  PROVE  IInv'
<1>1. CASE DeadPeer(c)
  <2>1. alive[c] => 2 * chb[c] > 3 * hb[c]
    BY <1>1 DEF DeadPeer, TimedOut, Dead
  <2> QED  BY <1>1, <2>1 DEF DeadPeer, TimedOut, Break
<1>2. CASE SlowHandshake(c)
  <2>1. ~alive[c]  BY <1>2 DEF SlowHandshake, TimedOut
  <2> QED  BY <1>2, <2>1 DEF SlowHandshake, TimedOut, Break
<1>3. CASE IdleTurn(c)  BY <1>3 DEF IdleTurn
<1>4. CASE Leave(c)  BY <1>4 DEF Leave, Break
<1> QED  BY <1>1, <1>2, <1>3, <1>4

(* A session ends, or all do. *)
LEMMA ForgetStep ==
  ASSUME IInv, NEW cs \in SUBSET Conns, Forget(cs),
         mux \in cs \/ cs = Conns
  PROVE  IInv'
BY DEF Forget

(* Time passes for both clocks, and only while no client is overdue. *)
LEMMA TickStep == ASSUME IInv, Tick PROVE IInv'
  BY DEF Tick, Overdue, Speaks, MaySend, Unwanted

(* Every step keeps the invariant. *)
LEMMA NextIInv == IInv /\ [Next]_vars => IInv'
<1> SUFFICES ASSUME IInv, [Next]_vars PROVE IInv'
  OBVIOUS
<1>1. CASE UNCHANGED vars  BY <1>1
<1>2. CASE Next
  <2>1. CASE Tick  BY <2>1, TickStep
  <2>2. CASE Reset  BY <2>2, ForgetStep DEF Reset
  <2>3. CASE TakesMux  BY <2>3, TakeSteps DEF TakesMux
  <2>4. ASSUME NEW c \in Conns, Close(c) PROVE IInv'
    BY <2>4, ForgetStep DEF Close
  <2> QED
    BY <1>2, <2>1, <2>2, <2>3, <2>4, ClientSteps, TakeSteps, FrameSteps,
       GiveUpSteps DEF Next, Turn
<1> QED  BY <1>1, <1>2

(* A client that keeps its heartbeat, of at most one and a half times the  *)
(* interval the dead-peer check uses, is never closed as dead or slow      *)
(* (session_task).                                                         *)
THEOREM KeepsLiveClients == Spec => []NoFalseDeath
<1>1. IInv => NoFalseDeath  OBVIOUS
<1> QED  BY <1>1, InitIInv, NextIInv, PTL DEF Spec

(* The type invariant of SessionTurns. *)
THEOREM TurnsTyped == Spec => []TypeOK
<1>1. IInv => TypeOK  OBVIOUS
<1> QED  BY <1>1, InitIInv, NextIInv, PTL DEF Spec
=============================================================================
