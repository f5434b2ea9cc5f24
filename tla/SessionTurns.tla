---------------------------- MODULE SessionTurns ----------------------------
(***************************************************************************)
(* session_task of firmware/qdevice/server.c in time: sessions share s_mux *)
(* for their whole turn and for their epilogue, a turn waits for a frame   *)
(* at most the receive timeout, and a silent peer is given up by the       *)
(* dead-peer check or, while it has not finished its handshake, at the     *)
(* first timeout.  The TLS handshake runs without s_mux and without a      *)
(* deadline; the sends of a turn have none over TLS either.  The task      *)
(* watchdog resets the device when a session has not come round its loop   *)
(* for too long.                                                           *)
(*                                                                         *)
(* Time is counted in ticks.  External, from how the code uses them: s_mux *)
(* goes to any session that wants it, the one that just gave it included;  *)
(* the watchdog; a client that is alive sends something it can be          *)
(* understood by at least once per heartbeat interval from INIT on, and    *)
(* goes on with the handshake within Rtt.                                  *)
(***************************************************************************)
EXTENDS Naturals

CONSTANTS Conns, NoConn,
          RecvTicks,     \* SO_RCVTIMEO, or TLS_IO_DEADLINE_MS after it
          SendsBlock,    \* may the sends of a turn block?
          Wdt,           \* CONFIG_ESP_TASK_WDT_TIMEOUT_S
          Hbs,           \* heartbeat intervals a client may ask for in INIT
          SetHbs,        \* ... and change to with SET_OPTION
          Rtt,           \* how fast a client goes on with its handshake
          MaxRx,         \* bound: frames waiting in a socket
          Cap            \* bound: where a silent peer's clock stops

ASSUME ConnsAssumption == NoConn \notin Conns
ASSUME TicksAssumption ==
    /\ RecvTicks \in Nat /\ Rtt \in Nat /\ Wdt \in Nat
    /\ MaxRx \in Nat \ {0} /\ Cap \in Nat
ASSUME SendsBlockAssumption == SendsBlock \in BOOLEAN
ASSUME PromptAssumption == Rtt < RecvTicks
ASSUME HbsAssumption ==
    /\ Hbs \subseteq Nat \ {0} /\ SetHbs \subseteq Nat \ {0}
    /\ \A h \in Hbs : 3 * h < 2 * Cap

VARIABLES st,       \* sess_t.st
          hb,       \* sess_t.hb_ms
          idle,     \* time since sess_t.last_rx_us
          fed,      \* time since the task last fed its watchdog
          end,      \* why the session has left its loop
          mux,      \* who holds s_mux
          turn,     \* what the holder does: waits for a frame or works
          left,     \* how long it still waits
          rx,       \* frames waiting in each socket
          alive,    \* does the client still run?
          chb,      \* the interval the client keeps
          quiet     \* time since the client last sent

clientVars == <<alive, chb, quiet>>
sessVars == <<st, hb, idle, fed, end>>
vars == <<sessVars, mux, turn, left, rx, clientVars>>

Init ==
    /\ st = [c \in Conns |-> "CLOSED"]
    /\ hb = [c \in Conns |-> 0]
    /\ idle = [c \in Conns |-> 0]
    /\ fed = [c \in Conns |-> 0]
    /\ end = [c \in Conns |-> "NONE"]
    /\ mux = NoConn
    /\ turn = "NONE"
    /\ left = 0
    /\ rx = [c \in Conns |-> 0]
    /\ alive = [c \in Conns |-> FALSE]
    /\ chb = [c \in Conns |-> 0]
    /\ quiet = [c \in Conns |-> 0]

Open(c) == st[c] # "CLOSED"
Handshake == {"CONNECTED", "PREINIT_DONE"}
InHandshake(c) == st[c] \in Handshake
Take(c, what, t) == mux' = c /\ turn' = what /\ left' = t
Give == mux' = NoConn /\ turn' = "NONE" /\ left' = 0

(* quorumesp_watchdog_feed, at the top of the loop. *)
Feed(c) == fed' = [fed EXCEPT ![c] = 0]

-----------------------------------------------------------------------------
(* The clients *)

(* A new client connects and its session_task starts. *)
Start(c) ==
    /\ ~Open(c)
    /\ st' = [st EXCEPT ![c] = "CONNECTED"]
    /\ alive' = [alive EXCEPT ![c] = TRUE]
    /\ UNCHANGED <<hb, idle, fed, end, mux, turn, left, rx, chb, quiet>>

(* In the handshake a client waits for the answer to each frame. *)
MaySend(c) ==
    \/ st[c] = "ACTIVE"
    \/ InHandshake(c) /\ rx[c] = 0 /\ ~(mux = c /\ turn = "WORK")

(* Beyond MaxRx frames the model no longer counts those that wait. *)
ClientSend(c) ==
    /\ alive[c] /\ MaySend(c)
    /\ rx' = [rx EXCEPT ![c] = IF @ < MaxRx THEN @ + 1 ELSE @]
    /\ quiet' = [quiet EXCEPT ![c] = 0]
    /\ UNCHANGED <<sessVars, mux, turn, left, alive, chb>>

(* A client dies, or its network does, without closing the connection. *)
Die(c) ==
    /\ Open(c) /\ alive[c]
    /\ alive' = [alive EXCEPT ![c] = FALSE]
    /\ quiet' = [quiet EXCEPT ![c] = 0]
    /\ UNCHANGED <<sessVars, mux, turn, left, rx, chb>>

(* It is the client's turn to say something, and this is the last moment. *)
Speaks(c) == alive[c] /\ MaySend(c)
Overdue(c) ==
    Speaks(c) /\ quiet[c] >= (IF st[c] = "ACTIVE" THEN chb[c] ELSE Rtt)

-----------------------------------------------------------------------------
(* The turns of session_task *)

BeginTurn(c) ==
    /\ mux = NoConn /\ (InHandshake(c) \/ st[c] = "ACTIVE")
    /\ Take(c, "RECV", RecvTicks)
    /\ UNCHANGED <<sessVars, rx, clientVars>>

(* recv_frame returns a frame, in a session of one of these states. *)
Receives(c, states) ==
    /\ mux = c /\ turn = "RECV" /\ rx[c] > 0 /\ st[c] \in states
    /\ rx' = [rx EXCEPT ![c] = @ - 1]

(* The turn goes on with on_frame, its pushes and the reply. *)
Work(c) == Take(c, "WORK", 0)

StampOnlyInHandshake(c) == idle

(* on_frame: last_rx_us = now_us(). *)
Stamp(c) == [idle EXCEPT ![c] = 0]

(* PREINIT, or a frame that is answered with an error.  The client goes on *)
(* when it has the answer.                                                 *)
HandshakeFrame(c) ==
    /\ Receives(c, Handshake)
    /\ st' \in {st, [st EXCEPT ![c] = "PREINIT_DONE"]}
    /\ idle' = Stamp(c)
    /\ quiet' = [quiet EXCEPT ![c] = 0]
    /\ Work(c)
    /\ UNCHANGED <<hb, fed, end, alive, chb>>

(* STARTTLS: session_task gives s_mux and runs the TLS handshake. *)
StartTlsFrame(c) ==
    /\ Receives(c, {"PREINIT_DONE"})
    /\ st' = [st EXCEPT ![c] = "UPGRADE"]
    /\ idle' = Stamp(c)
    /\ quiet' = [quiet EXCEPT ![c] = 0]
    /\ Give
    /\ UNCHANGED <<hb, fed, end, alive, chb>>

(* network_tls_upgrade returns, after as long as the client lets it run    *)
(* (at least a tick) and when s_mux is free again: upgraded, or failed.    *)
Upgraded(c) ==
    /\ mux = NoConn /\ st[c] = "UPGRADE" /\ alive[c] /\ idle[c] > 0
    /\ st' = [st EXCEPT ![c] = "PREINIT_DONE"]
    /\ Feed(c)
    /\ UNCHANGED <<hb, idle, end, mux, turn, left, rx, clientVars>>

UpgradeFails(c) ==
    /\ mux = NoConn /\ st[c] = "UPGRADE"
    /\ st' = [st EXCEPT ![c] = "ENDING"]
    /\ end' = [end EXCEPT ![c] = "LEFT"]
    /\ UNCHANGED <<hb, idle, fed, mux, turn, left, rx, clientVars>>

(* INIT with heartbeat interval h. *)
InitFrame(c, h) ==
    /\ Receives(c, {"PREINIT_DONE"})
    /\ st' = [st EXCEPT ![c] = "ACTIVE"]
    /\ hb' = [hb EXCEPT ![c] = h]
    /\ idle' = Stamp(c)
    /\ chb' = [chb EXCEPT ![c] = h]
    /\ quiet' = [quiet EXCEPT ![c] = 0]
    /\ Work(c)
    /\ UNCHANGED <<fed, end, alive>>

(* SET_OPTION with heartbeat interval h: granted, hb_ms stays. *)
SetOptionFrame(c, h) ==
    /\ Receives(c, {"ACTIVE"})
    /\ idle' = Stamp(c)
    /\ chb' = [chb EXCEPT ![c] = h]
    /\ quiet' = [quiet EXCEPT ![c] = 0]
    /\ Work(c)
    /\ UNCHANGED <<st, hb, fed, end, alive>>

(* Any other frame. *)
WorkFrame(c) ==
    /\ Receives(c, {"ACTIVE"})
    /\ idle' = Stamp(c)
    /\ Work(c)
    /\ UNCHANGED <<st, hb, fed, end, clientVars>>

(* A frame that does not decode is answered and not stamped.  A client     *)
(* that is alive sends none.                                               *)
BadFrame(c) ==
    /\ Receives(c, {st[c]}) /\ ~alive[c]
    /\ Work(c)
    /\ UNCHANGED <<sessVars, clientVars>>

(* The reply is sent: the loop begins again. *)
EndTurn(c) ==
    /\ mux = c /\ turn = "WORK" /\ st[c] # "ENDING"
    /\ Give
    /\ Feed(c)
    /\ UNCHANGED <<st, hb, idle, end, rx, clientVars>>

(* session_task leaves its loop: the epilogue has to wait for s_mux. *)
Break(c, why) ==
    /\ st' = [st EXCEPT ![c] = "ENDING"]
    /\ end' = [end EXCEPT ![c] = why]
    /\ Give
    /\ UNCHANGED <<hb, idle, fed, rx, clientVars>>

(* The peer closed, or the reply could not be sent. *)
Leave(c) ==
    /\ mux = c /\ st[c] # "ENDING"
    /\ Break(c, "LEFT")

(* The epilogue: the slot is given back and the others hear of it. *)
Epilogue(c) ==
    /\ mux = NoConn /\ st[c] = "ENDING"
    /\ Take(c, "WORK", 0)
    /\ UNCHANGED <<sessVars, rx, clientVars>>

(* Sessions cs are gone, and what was known of their clients with them. *)
Forget(cs) ==
    /\ st' = [c \in Conns |-> IF c \in cs THEN "CLOSED" ELSE st[c]]
    /\ end' = [c \in Conns |-> IF c \in cs THEN "NONE" ELSE end[c]]
    /\ alive' = [c \in Conns |-> alive[c] /\ c \notin cs]
    /\ LET Zero(f) == [c \in Conns |-> IF c \in cs THEN 0 ELSE f[c]]
       IN  /\ hb' = Zero(hb) /\ idle' = Zero(idle) /\ fed' = Zero(fed)
           /\ rx' = Zero(rx) /\ chb' = Zero(chb) /\ quiet' = Zero(quiet)
    /\ Give

Close(c) ==
    /\ mux = c /\ st[c] = "ENDING"
    /\ Forget({c})

TimedOut(c) == mux = c /\ turn = "RECV" /\ left = 0 /\ rx[c] = 0

NeverDead(c) == FALSE

(* The dead-peer check: idle for more than one and a half intervals. *)
Dead(c) == 2 * idle[c] > 3 * hb[c]

DeadPeer(c) ==
    /\ TimedOut(c) /\ st[c] = "ACTIVE" /\ Dead(c)
    /\ Break(c, "DEAD")

IdleTurn(c) ==
    /\ TimedOut(c) /\ st[c] = "ACTIVE" /\ ~Dead(c)
    /\ Give
    /\ Feed(c)
    /\ UNCHANGED <<st, hb, idle, end, rx, clientVars>>

(* "handshake must be prompt" *)
SlowHandshake(c) ==
    /\ TimedOut(c) /\ InHandshake(c)
    /\ Break(c, "SLOW")

-----------------------------------------------------------------------------
(* Nobody wants s_mux. *)
Unwanted == \A c \in Conns : st[c] \in {"CLOSED", "UPGRADE"}

Expired(c) == Open(c) /\ fed[c] >= Wdt

(* Time passes.  Tasks are fast: nobody leaves s_mux free that wants it,   *)
(* and a frame that is there is received at once.  A live client keeps its *)
(* promise, and the watchdog is prompt.                                    *)
Tick ==
    /\ mux = NoConn => Unwanted
    /\ turn = "RECV" => left > 0 /\ rx[mux] = 0
    /\ turn = "WORK" => SendsBlock
    /\ \A c \in Conns : ~Overdue(c) /\ ~Expired(c)
    /\ left' = IF turn = "RECV" THEN left - 1 ELSE left
    /\ idle' = [c \in Conns |-> IF Open(c) /\ idle[c] < Cap THEN idle[c] + 1
                                                           ELSE idle[c]]
    /\ fed' = [c \in Conns |-> IF Open(c) THEN fed[c] + 1 ELSE fed[c]]
    /\ quiet' = [c \in Conns |-> IF Speaks(c) THEN quiet[c] + 1 ELSE quiet[c]]
    /\ UNCHANGED <<st, hb, end, mux, turn, rx, alive, chb>>

(* The watchdog of a session's task expires: panic, and the device starts  *)
(* again without sessions.                                                 *)
Reset ==
    /\ \E c \in Conns : Expired(c)
    /\ Forget(Conns)

(* What a session does while its turn does not hang in a send. *)
Turn(c) ==
    \/ HandshakeFrame(c)
    \/ StartTlsFrame(c)
    \/ \E h \in Hbs : InitFrame(c, h)
    \/ \E h \in SetHbs : SetOptionFrame(c, h)
    \/ WorkFrame(c)
    \/ BadFrame(c)
    \/ DeadPeer(c)
    \/ IdleTurn(c)
    \/ SlowHandshake(c)

TakesMux == \E c \in Conns : BeginTurn(c) \/ Epilogue(c)

Next ==
    \/ Tick
    \/ Reset
    \/ TakesMux
    \/ \E c \in Conns :
         \/ Start(c) \/ ClientSend(c) \/ Die(c)
         \/ Turn(c) \/ Upgraded(c) \/ UpgradeFails(c)
         \/ EndTurn(c) \/ Leave(c) \/ Close(c)

(* Time goes on, however much happens in it; a free s_mux is taken, by     *)
(* whomever; a wait for a frame ends, and so does the patience of the      *)
(* watchdog; clients that run keep their promise.  Nothing makes a send or *)
(* a TLS handshake end, or gives a particular session its turn.            *)
Fairness ==
    /\ SF_vars(Tick)
    /\ WF_vars(Reset)
    /\ WF_vars(TakesMux)
    /\ \A c \in Conns : /\ WF_vars(Turn(c))
                        /\ WF_vars(Overdue(c) /\ ClientSend(c))

Spec == Init /\ [][Next]_vars /\ Fairness

-----------------------------------------------------------------------------
TypeOK ==
    /\ st \in [Conns -> Handshake \cup {"CLOSED", "UPGRADE", "ACTIVE", "ENDING"}]
    /\ hb \in [Conns -> Nat]
    /\ idle \in [Conns -> 0 .. Cap]
    /\ fed \in [Conns -> Nat]
    /\ end \in [Conns -> {"NONE", "LEFT", "DEAD", "SLOW"}]
    /\ mux \in Conns \cup {NoConn}
    /\ turn \in {"NONE", "RECV", "WORK"}
    /\ left \in Nat
    /\ rx \in [Conns -> Nat]
    /\ alive \in [Conns -> BOOLEAN]
    /\ chb \in [Conns -> Nat]
    /\ quiet \in [Conns -> Nat]

GivenUp(c) == end[c] \in {"DEAD", "SLOW"}

(* A client that runs and keeps its heartbeat is never closed as dead, nor *)
(* as slow while it keeps the pace of the handshake, whatever interval     *)
(* SET_OPTION has granted it ("change option at runtime",                  *)
(* docs/protocol.md).  The code does not keep it: hb_ms stays the interval *)
(* of INIT.                                                                *)
LiveClientsKept == \A c \in Conns : GivenUp(c) => ~alive[c]

(* It holds for every client whose interval is at most one and a half      *)
(* times the one of its INIT, however long other sessions hold s_mux and   *)
(* whoever gets it next: what it sent meanwhile is received before the     *)
(* dead-peer check looks at the clock ("DPD and heartbeats tolerate this   *)
(* with wide margin", session_task).                                       *)
NoFalseDeath ==
    \A c \in Conns : GivenUp(c) /\ 2 * chb[c] <= 3 * hb[c] => ~alive[c]

(* The session of a client that died silently ends, and with it its place  *)
(* and its vote: by the dead-peer check, at the handshake timeout or, if   *)
(* its TLS handshake or somebody's send hangs or it never gets s_mux, by   *)
(* the watchdog (session_task).                                            *)
SilentPeersEnd == \A c \in Conns : (Open(c) /\ ~alive[c]) ~> ~Open(c)

(* The watchdog is fed in time unless a task has stalled: "loops wake at   *)
(* <=5 s, so a missed feed always means a real stall" (watchdog.h).  A     *)
(* peer that is slow or gone is not a stall.  The code does not keep it:   *)
(* a TLS handshake waits for its peer without feeding the watchdog.        *)
LoopsWake == \A c \in Conns : ~Expired(c)
=============================================================================
