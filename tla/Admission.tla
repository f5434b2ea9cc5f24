----------------------------- MODULE Admission -----------------------------
(***************************************************************************)
(* Sockets and session tasks of firmware/qdevice/server.c: the accept loop *)
(* of server_task, the life of session_task around its turns, and who owns *)
(* a descriptor through the TLS upgrade of firmware/network/tls.c.         *)
(*                                                                         *)
(* Critical sections (s_mux, s_sock_spin) are single steps.  A close and   *)
(* the sock_closed that follows it are two: between them the number may be *)
(* given to the next connection.  accept and its sock_opened are one.  The *)
(* heap is external: any allocation, task creation or heap check may go    *)
(* either way.  What the turns do to the votes is QnetServer.              *)
(***************************************************************************)
EXTENDS Integers, FiniteSets

CONSTANTS Fds,             \* descriptors of the LWIP pool
          NoFd,            \* fd = -1
          Tasks,           \* session tasks that may exist at once
          MaxSessions      \* CONFIG_QUORUMESP_MAX_SESSIONS

ASSUME FdsAssumption == IsFiniteSet(Fds) /\ NoFd \notin Fds
ASSUME TasksAssumption == IsFiniteSet(Tasks)
ASSUME MaxSessionsAssumption == MaxSessions \in Nat \ {0}

VARIABLES open,         \* descriptors open in the network stack
          acc,          \* where server_task is, and the descriptor it holds
          task,         \* where each session task is, and its transport
          s_nsessions,  \* sessions counted against the ceiling
          s_nsocks      \* sockets counted for the status log

vars == <<open, acc, task, s_nsessions, s_nsocks>>

(* server_task: in select, past accept, past admission, turning the        *)
(* connection down, and past the close of its descriptor.                  *)
Acceptor == [pc : {"SELECT", "ADMIT", "SPAWN", "DROP", "CLOSED"},
             fd : Fds \cup {NoFd}]

(* session_task: not running, at the head of its loop, in the TLS          *)
(* handshake (without s_mux), waiting for s_mux after it failed, out of    *)
(* the loop, past its epilogue, past the close of its descriptor.          *)
Task == [pc  : {"NONE", "TURN", "UPGRADE", "FAILED", "LEAVE", "CLOSE", "CLOSED"},
         st  : {"CONNECTED", "PREINIT_DONE", "ACTIVE"},
         fd  : Fds \cup {NoFd},
         tls : BOOLEAN]

NoTask == [pc |-> "NONE", st |-> "CONNECTED", fd |-> NoFd, tls |-> FALSE]

Idle == [pc |-> "SELECT", fd |-> NoFd]

Init ==
    /\ open = {}
    /\ acc = Idle
    /\ task = [t \in Tasks |-> NoTask]
    /\ s_nsessions = 0
    /\ s_nsocks = 0

SockUncounted == UNCHANGED s_nsocks

(* sock_closed *)
SockClosed == s_nsocks' = IF s_nsocks > 0 THEN s_nsocks - 1 ELSE s_nsocks

-----------------------------------------------------------------------------
(* server_task *)

Accept(f) ==
    /\ acc.pc = "SELECT"
    /\ f \notin open
    /\ open' = open \cup {f}
    /\ s_nsocks' = s_nsocks + 1
    /\ acc' = [pc |-> "ADMIT", fd |-> f]
    /\ UNCHANGED <<task, s_nsessions>>

(* accept fails while the pool is exhausted. *)
AcceptFails ==
    /\ acc.pc = "SELECT"
    /\ open = Fds
    /\ UNCHANGED vars

(* The slot ceiling. *)
HasRoom == s_nsessions < MaxSessions

(* Under the ceiling, and the heap above its floor. *)
Admit ==
    /\ acc.pc = "ADMIT"
    /\ HasRoom
    /\ s_nsessions' = s_nsessions + 1
    /\ acc' = [acc EXCEPT !.pc = "SPAWN"]
    /\ UNCHANGED <<open, task, s_nsocks>>

(* The ceiling is reached, or the heap is below its floor. *)
Refuse ==
    /\ acc.pc = "ADMIT"
    /\ acc' = [acc EXCEPT !.pc = "DROP"]
    /\ UNCHANGED <<open, task, s_nsessions, s_nsocks>>

(* xTaskCreate; the session starts. *)
Spawn(t) ==
    /\ acc.pc = "SPAWN"
    /\ task[t].pc = "NONE"
    /\ task' = [task EXCEPT ![t] = [NoTask EXCEPT !.pc = "TURN", !.fd = acc.fd]]
    /\ acc' = Idle
    /\ UNCHANGED <<open, s_nsessions, s_nsocks>>

SessionsKept == s_nsessions

(* What a failed spawn leaves of the count. *)
SessionsAfterFailure == s_nsessions - 1

(* malloc or xTaskCreate failed. *)
SpawnFails ==
    /\ acc.pc = "SPAWN"
    /\ s_nsessions' = SessionsAfterFailure
    /\ acc' = [acc EXCEPT !.pc = "DROP"]
    /\ UNCHANGED <<open, task, s_nsocks>>

(* A connection that was refused or not started: close, then sock_closed.  *)
Drop ==
    /\ acc.pc = "DROP"
    /\ open' = open \ {acc.fd}
    /\ acc' = [acc EXCEPT !.pc = "CLOSED"]
    /\ UNCHANGED <<task, s_nsessions, s_nsocks>>

Dropped ==
    /\ acc.pc = "CLOSED"
    /\ SockClosed
    /\ acc' = Idle
    /\ UNCHANGED <<open, task, s_nsessions>>

-----------------------------------------------------------------------------
(* session_task *)

(* A turn whose frame moves the handshake on. *)
Advance(t) ==
    /\ task[t].pc = "TURN"
    /\ task[t].st # "ACTIVE"
    /\ task' = [task EXCEPT ![t].st = IF @ = "CONNECTED" THEN "PREINIT_DONE"
                                                         ELSE "ACTIVE"]
    /\ UNCHANGED <<open, acc, s_nsessions, s_nsocks>>

(* STARTTLS: s_mux is given back for the handshake.  A session that is on  *)
(* TLS already is not refused.                                             *)
StartTls(t) ==
    /\ task[t].pc = "TURN"
    /\ task[t].st = "PREINIT_DONE"
    /\ task' = [task EXCEPT ![t].pc = "UPGRADE"]
    /\ UNCHANGED <<open, acc, s_nsessions, s_nsocks>>

Upgraded(t) ==
    /\ task[t].pc = "UPGRADE"
    /\ task' = [task EXCEPT ![t].pc = "TURN", ![t].tls = TRUE]
    /\ UNCHANGED <<open, acc, s_nsessions, s_nsocks>>

(* network_tls_upgrade, the handshake or one of its steps failed: the TLS  *)
(* layer closes the descriptor and returns NULL.                           *)
UpgradeFails(t) ==
    /\ task[t].pc = "UPGRADE"
    /\ open' = open \ {task[t].fd}
    /\ task' = [task EXCEPT ![t].pc = "FAILED"]
    /\ UNCHANGED <<acc, s_nsessions, s_nsocks>>

(* network_tls_upgrade, the early returns (no TLS, no memory): NULL, and   *)
(* the descriptor stays open.                                              *)
UpgradeRefused(t) ==
    /\ task[t].pc = "UPGRADE"
    /\ task' = [task EXCEPT ![t].pc = "FAILED"]
    /\ UNCHANGED <<open, acc, s_nsessions, s_nsocks>>

FdKept(t) == [task[t] EXCEPT !.pc = "LEAVE", !.tls = FALSE]

(* NULL: the caller takes the descriptor for dead. *)
AfterFailedUpgrade(t) ==
    [task[t] EXCEPT !.pc = "LEAVE", !.tls = FALSE, !.fd = NoFd]

(* s_mux taken again after the failed upgrade. *)
UpgradeFailed(t) ==
    /\ task[t].pc = "FAILED"
    /\ task' = [task EXCEPT ![t] = AfterFailedUpgrade(t)]
    /\ SockClosed
    /\ UNCHANGED <<open, acc, s_nsessions>>

(* Every break of the receive loop. *)
Break(t) ==
    /\ task[t].pc = "TURN"
    /\ task' = [task EXCEPT ![t].pc = "LEAVE"]
    /\ UNCHANGED <<open, acc, s_nsessions, s_nsocks>>

(* The epilogue, under s_mux; the transport is closed after it. *)
Epilogue(t) ==
    /\ task[t].pc = "LEAVE"
    /\ task' = [task EXCEPT ![t].pc = "CLOSE"]
    /\ s_nsessions' = s_nsessions - 1
    /\ UNCHANGED <<open, acc, s_nsocks>>

(* tp_close, where the TLS layer or close() closes the descriptor. *)
TpClose(t) ==
    /\ task[t].pc = "CLOSE"
    /\ open' = open \ {task[t].fd}
    /\ task' = [task EXCEPT ![t].pc = "CLOSED"]
    /\ UNCHANGED <<acc, s_nsessions, s_nsocks>>

(* tp_close, sock_closed unless there was no descriptor; the task ends. *)
TaskEnds(t) ==
    /\ task[t].pc = "CLOSED"
    /\ IF task[t].fd = NoFd THEN UNCHANGED s_nsocks ELSE SockClosed
    /\ task' = [task EXCEPT ![t] = NoTask]
    /\ UNCHANGED <<open, acc, s_nsessions>>

Next ==
    \/ \E f \in Fds : Accept(f)
    \/ AcceptFails
    \/ Admit
    \/ Refuse
    \/ SpawnFails
    \/ Drop
    \/ Dropped
    \/ \E t \in Tasks :
         \/ Spawn(t) \/ Advance(t) \/ StartTls(t) \/ Upgraded(t)
         \/ UpgradeFails(t) \/ UpgradeRefused(t) \/ UpgradeFailed(t)
         \/ Break(t) \/ Epilogue(t) \/ TpClose(t) \/ TaskEnds(t)

Spec == Init /\ [][Next]_vars

-----------------------------------------------------------------------------
(* Properties *)

TypeOK ==
    /\ open \subseteq Fds
    /\ acc \in Acceptor
    /\ task \in [Tasks -> Task]
    /\ s_nsessions \in Int
    /\ s_nsocks \in Nat

(* Sessions between admission and epilogue; the accept loop's included. *)
Counted ==
    {t \in Tasks : task[t].pc \in {"TURN", "UPGRADE", "FAILED", "LEAVE"}}
Pending == IF acc.pc = "SPAWN" THEN 1 ELSE 0

(* s_nsessions is exact whichever way a session began, failed to begin or  *)
(* ended, and never above the ceiling: neither is a place lost for good,   *)
(* nor is the vote table outgrown (server_task, session_task's epilogue).  *)
SessionsCounted ==
    /\ s_nsessions = Cardinality(Counted) + Pending
    /\ s_nsessions <= MaxSessions

(* Who still has a descriptor to close, and who has seen one closed and    *)
(* has yet to count it.                                                    *)
AccOwns == acc.pc \in {"ADMIT", "SPAWN", "DROP"}
Owns(t) == /\ task[t].fd # NoFd
           /\ task[t].pc \in {"TURN", "UPGRADE", "LEAVE", "CLOSE"}
Owned == {f \in Fds : \/ AccOwns /\ acc.fd = f
                      \/ \E t \in Tasks : Owns(t) /\ task[t].fd = f}
Late == {t \in Tasks : /\ task[t].fd # NoFd
                       /\ task[t].pc \in {"FAILED", "CLOSED"}}
AccLate == IF acc.pc = "CLOSED" THEN 1 ELSE 0

(* s_nsocks is the number of sockets that somebody will close or has just  *)
(* seen closed, through every way a socket is given up and whoever got its *)
(* number meanwhile ("decremented wherever that fd is closed").  What it   *)
(* says of the sockets that are open is LeaksShow.                         *)
SocketsCounted == s_nsocks = Cardinality(Owned) + Cardinality(Late) + AccLate

(* Whoever is to close a descriptor finds it open and is the only one to:  *)
(* closing a transport never closes the socket of a later session that was *)
(* given the same number (server_task, tp_close, network_tls_upgrade).     *)
NoStrayClose ==
    /\ AccOwns => /\ acc.fd \in open
                  /\ \A t \in Tasks : Owns(t) => task[t].fd # acc.fd
    /\ \A t \in Tasks : Owns(t) =>
         /\ task[t].fd \in open
         /\ \A u \in Tasks \ {t} : Owns(u) => task[u].fd # task[t].fd

(* While nobody is between a close and its count, s_nsocks is the number   *)
(* of open sockets: "If accept later fails ENFILE while this stays low,    *)
(* the leak is outside qdevice" (the comment on s_nsocks), and a failed    *)
(* upgrade has "consumed" its descriptor on "all failure paths"            *)
(* (session_task).  The code does not keep it: the early returns of        *)
(* network_tls_upgrade leave the descriptor open.                          *)
LeaksShow ==
    (AccLate = 0 /\ \A t \in Tasks : task[t].pc \notin {"FAILED", "CLOSED"})
      => s_nsocks = Cardinality(open)
=============================================================================
