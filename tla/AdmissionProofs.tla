-------------------------- MODULE AdmissionProofs --------------------------
(***************************************************************************)
(* Sockets and session counts, for any pool, any number of tasks and any   *)
(* ceiling.                                                                *)
(***************************************************************************)
EXTENDS Admission, FiniteSetTheorems, TLAPS

LEMMA TypeInit == Init => TypeOK
BY FdsAssumption DEF Init, TypeOK, Idle, NoTask, Acceptor, Task

(* Every action keeps the types. *)
LEMMA TypeStep ==
    ASSUME TypeOK, [Next]_vars
    PROVE  TypeOK'
<1> USE DEF TypeOK, Acceptor, Task, NoTask, Idle
<1>1. ASSUME NEW f \in Fds, Accept(f) PROVE TypeOK'
  BY <1>1 DEF Accept
<1>2. CASE AcceptFails
  BY <1>2 DEF AcceptFails, vars
<1>3. CASE Admit
  BY <1>3 DEF Admit
<1>4. CASE Refuse \/ Drop \/ Dropped
  BY <1>4 DEF Refuse, Drop, Dropped, SockClosed
<1>5. CASE SpawnFails
  BY <1>5 DEF SpawnFails, SessionsAfterFailure
<1>6. ASSUME NEW t \in Tasks, Spawn(t) PROVE TypeOK'
  BY <1>6 DEF Spawn
<1>7. ASSUME NEW t \in Tasks,
             Advance(t) \/ StartTls(t) \/ Upgraded(t) \/ Break(t) \/ Epilogue(t)
      PROVE  TypeOK'
  <2>1. CASE Advance(t) BY <2>1 DEF Advance
  <2>2. CASE StartTls(t) BY <2>2 DEF StartTls
  <2>3. CASE Upgraded(t) BY <2>3 DEF Upgraded
  <2>4. CASE Break(t) BY <2>4 DEF Break
  <2>5. CASE Epilogue(t) BY <2>5 DEF Epilogue
  <2>6. QED BY <1>7, <2>1, <2>2, <2>3, <2>4, <2>5
<1>8. ASSUME NEW t \in Tasks,
             \/ UpgradeFails(t) \/ UpgradeRefused(t) \/ UpgradeFailed(t)
             \/ TpClose(t) \/ TaskEnds(t)
      PROVE  TypeOK'
  <2>0. AfterFailedUpgrade(t) \in Task
    BY DEF AfterFailedUpgrade
  <2>1. CASE UpgradeFails(t)
    BY <2>1 DEF UpgradeFails
  <2>2. CASE UpgradeRefused(t)
    BY <2>2 DEF UpgradeRefused
  <2>3. CASE UpgradeFailed(t)
    BY <2>0, <2>3 DEF UpgradeFailed, SockClosed
  <2>4. CASE TpClose(t)
    BY <2>4 DEF TpClose
  <2>5. CASE TaskEnds(t)
    BY <2>5 DEF TaskEnds, SockClosed
  <2>6. QED BY <1>8, <2>1, <2>2, <2>3, <2>4, <2>5
<1>9. CASE UNCHANGED vars
  BY <1>9 DEF vars
<1>10. QED BY <1>1, <1>2, <1>3, <1>4, <1>5, <1>6, <1>7, <1>8, <1>9 DEF Next

-----------------------------------------------------------------------------
(* Descriptors *)

(* Who must hold a descriptor and who cannot. *)
Placed ==
    /\ acc.pc = "SELECT" <=> acc.fd = NoFd
    /\ \A t \in Tasks :
         /\ task[t].pc = "NONE" => task[t].fd = NoFd
         /\ task[t].pc \in {"TURN", "UPGRADE", "FAILED"} => task[t].fd # NoFd

LEMMA PlacedStep ==
    ASSUME TypeOK, Placed, [Next]_vars
    PROVE  Placed'
<1> USE FdsAssumption DEF TypeOK, Acceptor, Task, Placed
<1>1. CASE (\E f \in Fds : Accept(f)) \/ Admit \/ Refuse \/ SpawnFails
  BY <1>1 DEF Accept, Admit, Refuse, SpawnFails
<1>2. CASE Drop \/ Dropped
  BY <1>2 DEF Drop, Dropped, Idle
<1>3. CASE AcceptFails \/ UNCHANGED vars
  BY <1>3 DEF AcceptFails, vars
<1>4. ASSUME NEW t \in Tasks, Spawn(t) PROVE Placed'
  BY <1>4 DEF Spawn, Idle, NoTask
<1>5. ASSUME NEW t \in Tasks,
             \/ Advance(t) \/ StartTls(t) \/ Upgraded(t) \/ Break(t) \/ Epilogue(t)
             \/ UpgradeFails(t) \/ UpgradeRefused(t) \/ UpgradeFailed(t)
             \/ TpClose(t) \/ TaskEnds(t)
      PROVE  Placed'
  <2>1. CASE Advance(t) BY <2>1 DEF Advance
  <2>2. CASE StartTls(t) BY <2>2 DEF StartTls
  <2>3. CASE Upgraded(t) BY <2>3 DEF Upgraded
  <2>4. CASE Break(t) BY <2>4 DEF Break
  <2>5. CASE Epilogue(t) BY <2>5 DEF Epilogue
  <2>6. CASE UpgradeFails(t) BY <2>6 DEF UpgradeFails
  <2>7. CASE UpgradeRefused(t) BY <2>7 DEF UpgradeRefused
  <2>8. CASE UpgradeFailed(t)
    <3>1. AfterFailedUpgrade(t).pc = "LEAVE"
      BY DEF AfterFailedUpgrade
    <3>2. QED BY <2>8, <3>1 DEF UpgradeFailed
  <2>9. CASE TpClose(t) BY <2>9 DEF TpClose
  <2>10. CASE TaskEnds(t) BY <2>10 DEF TaskEnds, NoTask
  <2>11. QED BY <1>5, <2>1, <2>2, <2>3, <2>4, <2>5, <2>6, <2>7, <2>8, <2>9, <2>10
<1>6. QED BY <1>1, <1>2, <1>3, <1>4, <1>5 DEF Next

(* Steps of session_task that leave its descriptor in its hands. *)
Keeps(t) == \/ Advance(t) \/ StartTls(t) \/ Upgraded(t)
            \/ Break(t) \/ Epilogue(t)

(* Steps after which the number t holds is no longer its own to close:     *)
(* it was closed or, where the upgrade was refused, is left to nobody.     *)
Parts(t) == UpgradeFails(t) \/ UpgradeRefused(t) \/ TpClose(t)

(* Steps by which the number is forgotten and counted. *)
Forgets(t) == UpgradeFailed(t) \/ TaskEnds(t)

LEMMA KeepsEffect ==
    ASSUME TypeOK, NEW t \in Tasks, Keeps(t)
    PROVE  /\ UNCHANGED <<open, acc, s_nsocks>>
           /\ \A u \in Tasks : task'[u].fd = task[u].fd
           /\ \A u \in Tasks : Owns(u)' <=> Owns(u)
           /\ Late' = Late
<1> USE DEF TypeOK, Task, Owns, Late
<1>1. CASE Advance(t) BY <1>1 DEF Advance
<1>2. CASE StartTls(t) BY <1>2 DEF StartTls
<1>3. CASE Upgraded(t) BY <1>3 DEF Upgraded
<1>4. CASE Break(t) BY <1>4 DEF Break
<1>5. CASE Epilogue(t) BY <1>5 DEF Epilogue
<1>6. QED BY <1>1, <1>2, <1>3, <1>4, <1>5 DEF Keeps

LEMMA PartsEffect ==
    ASSUME TypeOK, Placed, NEW t \in Tasks, Parts(t)
    PROVE  /\ UNCHANGED <<acc, s_nsocks>>
           /\ open' = open \/ open' = open \ {task[t].fd}
           /\ \A u \in Tasks : task'[u].fd = task[u].fd
           /\ \A u \in Tasks \ {t} : Owns(u)' <=> Owns(u)
           /\ Owns(t) <=> task[t].fd # NoFd
           /\ ~Owns(t)'
           /\ Late' = IF task[t].fd = NoFd THEN Late ELSE Late \cup {t}
           /\ t \notin Late
<1> USE DEF TypeOK, Task, Owns, Late, Placed
<1>1. CASE UpgradeFails(t) BY <1>1 DEF UpgradeFails
<1>2. CASE UpgradeRefused(t) BY <1>2 DEF UpgradeRefused
<1>3. CASE TpClose(t) BY <1>3 DEF TpClose
<1>4. QED BY <1>1, <1>2, <1>3 DEF Parts

LEMMA ForgetsEffect ==
    ASSUME TypeOK, Placed, NEW t \in Tasks, Forgets(t)
    PROVE  /\ UNCHANGED <<open, acc>>
           /\ \A u \in Tasks \ {t} : task'[u] = task[u]
           /\ ~Owns(t) /\ ~Owns(t)'
           /\ Late' = Late \ {t}
           /\ IF t \in Late THEN SockClosed ELSE UNCHANGED s_nsocks
<1> USE DEF TypeOK, Task, Owns, Late, Placed
<1>1. CASE UpgradeFailed(t)
  <2>1. AfterFailedUpgrade(t).fd = NoFd
    BY DEF AfterFailedUpgrade
  <2>2. QED BY <1>1, <2>1 DEF UpgradeFailed
<1>2. CASE TaskEnds(t) BY <1>2 DEF TaskEnds, NoTask
<1>3. QED BY <1>1, <1>2 DEF Forgets

(* Every action keeps descriptors apart. *)
LEMMA StrayStep ==
    ASSUME TypeOK, Placed, NoStrayClose, [Next]_vars
    PROVE  NoStrayClose'
<1> USE FdsAssumption DEF TypeOK, Acceptor, Placed, NoStrayClose, AccOwns
<1>1. ASSUME NEW f \in Fds, Accept(f) PROVE NoStrayClose'
  BY <1>1 DEF Accept, Owns
<1>2. CASE AcceptFails \/ UNCHANGED vars
  BY <1>2 DEF AcceptFails, vars, Owns
<1>3. CASE Admit \/ Refuse \/ SpawnFails
  BY <1>3 DEF Admit, Refuse, SpawnFails, Owns
<1>4. CASE Drop
  BY <1>4 DEF Drop, Owns
<1>5. CASE Dropped
  BY <1>5 DEF Dropped, Idle, Owns
<1>6. ASSUME NEW t \in Tasks, Spawn(t) PROVE NoStrayClose'
  <2>1. task'[t].fd = acc.fd /\ acc.fd \in open /\ ~AccOwns' /\ open' = open
    BY <1>6 DEF Spawn, Idle, NoTask
  <2>2. \A u \in Tasks \ {t} : task'[u] = task[u]
    BY <1>6 DEF Spawn
  <2>3. AccOwns
    BY <1>6 DEF Spawn
  <2>4. QED BY <2>1, <2>2, <2>3 DEF Owns
<1>7. ASSUME NEW t \in Tasks, Keeps(t) PROVE NoStrayClose'
  <2>1. /\ UNCHANGED <<open, acc>>
        /\ \A u \in Tasks : task'[u].fd = task[u].fd
        /\ \A u \in Tasks : Owns(u)' <=> Owns(u)
    BY <1>7, KeepsEffect
  <2>2. QED BY <2>1
<1>8. ASSUME NEW t \in Tasks, Parts(t) PROVE NoStrayClose'
  <2>1. /\ UNCHANGED acc
        /\ open' = open \/ open' = open \ {task[t].fd}
        /\ \A u \in Tasks : task'[u].fd = task[u].fd
        /\ \A u \in Tasks \ {t} : Owns(u)' <=> Owns(u)
        /\ Owns(t) <=> task[t].fd # NoFd
        /\ ~Owns(t)'
    BY <1>8, PartsEffect
  <2>2. QED BY <2>1
<1>9. ASSUME NEW t \in Tasks, Forgets(t) PROVE NoStrayClose'
  <2>1. /\ UNCHANGED <<open, acc>>
        /\ \A u \in Tasks \ {t} : task'[u] = task[u]
        /\ ~Owns(t)'
    BY <1>9, ForgetsEffect
  <2>2. \A u \in Tasks : Owns(u)' => Owns(u) /\ task'[u].fd = task[u].fd
    BY <2>1 DEF Owns
  <2>3. QED BY <2>1, <2>2
<1>10. QED BY <1>1, <1>2, <1>3, <1>4, <1>5, <1>6, <1>7, <1>8, <1>9
           DEF Next, Keeps, Parts, Forgets

(* Initially nobody holds anything. *)
LEMMA InitPlaced == Init => Placed /\ NoStrayClose
BY FdsAssumption DEF Init, Placed, NoStrayClose, AccOwns, Owns, Idle, NoTask

(* A transport that is closed is always its own session's: no descriptor   *)
(* has two owners, and none is closed while it has one, although a failed  *)
(* TLS upgrade closes it behind the session's back and the number may be   *)
(* given to the next connection before the session hears of it.            *)
THEOREM StrayCloseSafety == Spec => []NoStrayClose
BY InitPlaced, TypeInit, TypeStep, PlacedStep, StrayStep, PTL DEF Spec

-----------------------------------------------------------------------------
(* Counting *)

LEMMA CountedFinite == IsFiniteSet(Counted) /\ Cardinality(Counted) \in Nat
BY TasksAssumption, FS_Subset, FS_CardinalityType DEF Counted

(* A task that begins or stops to be counted. *)
LEMMA CountedGains ==
    ASSUME NEW t \in Tasks, t \notin Counted, Counted' = Counted \cup {t}
    PROVE  Cardinality(Counted') = Cardinality(Counted) + 1
BY CountedFinite, FS_AddElement

LEMMA CountedLoses ==
    ASSUME NEW t \in Tasks, t \in Counted, Counted' = Counted \ {t}
    PROVE  Cardinality(Counted') = Cardinality(Counted) - 1
BY CountedFinite, FS_RemoveElement

(* Every action keeps the count exact and under the ceiling. *)
LEMMA CountStep ==
    ASSUME TypeOK, SessionsCounted, [Next]_vars
    PROVE  SessionsCounted'
<1> USE MaxSessionsAssumption DEF TypeOK, Acceptor, Task, SessionsCounted, Pending
<1> DEFINE Same == Counted' = Counted
<1>0. Cardinality(Counted) \in Nat
  BY CountedFinite
<1>1. ASSUME NEW f \in Fds, Accept(f) PROVE SessionsCounted'
  <2>1. Same BY <1>1 DEF Accept, Counted
  <2>2. QED BY <1>1, <2>1 DEF Accept
<1>2. CASE AcceptFails \/ UNCHANGED vars
  <2>1. Same BY <1>2 DEF AcceptFails, vars, Counted
  <2>2. QED BY <1>2, <2>1 DEF AcceptFails, vars
<1>3. CASE Admit
  <2>1. Same BY <1>3 DEF Admit, Counted
  <2>2. acc'.pc = "SPAWN" BY <1>3 DEF Admit
  <2>3. QED BY <1>3, <2>1, <2>2, <1>0 DEF Admit, HasRoom
<1>4. CASE Refuse \/ Drop \/ Dropped
  <2>1. Same BY <1>4 DEF Refuse, Drop, Dropped, Counted
  <2>2. QED BY <1>4, <2>1 DEF Refuse, Drop, Dropped, Idle
<1>5. CASE SpawnFails
  <2>1. Same BY <1>5 DEF SpawnFails, Counted
  <2>2. QED BY <1>5, <2>1, <1>0 DEF SpawnFails, SessionsAfterFailure
<1>6. ASSUME NEW t \in Tasks, Spawn(t) PROVE SessionsCounted'
  <2>1. t \notin Counted /\ Counted' = Counted \cup {t}
    BY <1>6 DEF Spawn, Counted, NoTask
  <2>2. Cardinality(Counted') = Cardinality(Counted) + 1
    BY <2>1, CountedGains
  <2>3. QED BY <1>6, <2>2, <1>0 DEF Spawn, Idle
<1>7. ASSUME NEW t \in Tasks,
             \/ Advance(t) \/ StartTls(t) \/ Upgraded(t) \/ Break(t)
             \/ UpgradeFails(t) \/ UpgradeRefused(t) \/ UpgradeFailed(t)
             \/ TpClose(t) \/ TaskEnds(t)
      PROVE  SessionsCounted'
  <2>1. Same
    <3> USE DEF Counted
    <3>1. CASE Advance(t) BY <3>1 DEF Advance
    <3>2. CASE StartTls(t) BY <3>2 DEF StartTls
    <3>3. CASE Upgraded(t) BY <3>3 DEF Upgraded
    <3>4. CASE Break(t) BY <3>4 DEF Break
    <3>5. CASE UpgradeFails(t) BY <3>5 DEF UpgradeFails
    <3>6. CASE UpgradeRefused(t) BY <3>6 DEF UpgradeRefused
    <3>7. CASE UpgradeFailed(t)
      BY <3>7 DEF UpgradeFailed, AfterFailedUpgrade
    <3>8. CASE TpClose(t) BY <3>8 DEF TpClose
    <3>9. CASE TaskEnds(t) BY <3>9 DEF TaskEnds, NoTask
    <3>10. QED BY <1>7, <3>1, <3>2, <3>3, <3>4, <3>5, <3>6, <3>7, <3>8, <3>9
  <2>2. UNCHANGED <<acc, s_nsessions>>
    BY <1>7 DEF Advance, StartTls, Upgraded, Break, UpgradeFails,
                UpgradeRefused, UpgradeFailed, TpClose, TaskEnds
  <2>3. QED BY <2>1, <2>2
<1>8. ASSUME NEW t \in Tasks, Epilogue(t) PROVE SessionsCounted'
  <2>1. t \in Counted /\ Counted' = Counted \ {t}
    BY <1>8 DEF Epilogue, Counted
  <2>2. Cardinality(Counted') = Cardinality(Counted) - 1
    BY <2>1, CountedLoses
  <2>3. QED BY <1>8, <2>2, <1>0 DEF Epilogue
<1>9. QED BY <1>1, <1>2, <1>3, <1>4, <1>5, <1>6, <1>7, <1>8 DEF Next

(* s_nsessions is exact and within the ceiling, whichever way sessions are *)
(* refused, fail to start, fail their TLS upgrade or end.                  *)
THEOREM SessionCountSafety == Spec => []SessionsCounted
<1>1. Init => SessionsCounted
  <2>1. ASSUME Init PROVE Counted = {}
    BY <2>1 DEF Init, Counted, NoTask
  <2>2. QED BY <2>1, FS_EmptySet, MaxSessionsAssumption
            DEF Init, SessionsCounted, Pending, Idle
<1>2. QED BY <1>1, TypeInit, TypeStep, CountStep, PTL DEF Spec
-----------------------------------------------------------------------------
(* Sockets *)

LEMMA SocketSetsFinite ==
    /\ IsFiniteSet(Owned) /\ Cardinality(Owned) \in Nat
    /\ IsFiniteSet(Late) /\ Cardinality(Late) \in Nat
    /\ AccLate \in {0, 1}
BY FdsAssumption, TasksAssumption, FS_Subset, FS_CardinalityType
   DEF Owned, Late, AccLate

LEMMA OwnedLoses ==
    ASSUME NEW f \in Owned, Owned' = Owned \ {f}
    PROVE  Cardinality(Owned') = Cardinality(Owned) - 1
BY SocketSetsFinite, FS_RemoveElement

LEMMA LateGains ==
    ASSUME NEW t, t \notin Late, Late' = Late \cup {t}
    PROVE  Cardinality(Late') = Cardinality(Late) + 1
BY SocketSetsFinite, FS_AddElement

LEMMA LateLoses ==
    ASSUME NEW t \in Late, Late' = Late \ {t}
    PROVE  Cardinality(Late') = Cardinality(Late) - 1 /\ Cardinality(Late') \in Nat
BY SocketSetsFinite, FS_RemoveElement, FS_CardinalityType

(* Nothing changes hands. *)
LEMMA SameSockets ==
    ASSUME SocketsCounted, Owned' = Owned, Late' = Late, AccLate' = AccLate,
           s_nsocks' = s_nsocks
    PROVE  SocketsCounted'
BY DEF SocketsCounted

(* Every action keeps the count of sockets exact. *)
LEMMA SocketStep ==
    ASSUME TypeOK, Placed, NoStrayClose, SocketsCounted, [Next]_vars
    PROVE  SocketsCounted'
<1> USE FdsAssumption DEF TypeOK, Acceptor, Placed
<1>1. ASSUME NEW f \in Fds, Accept(f) PROVE SocketsCounted'
  <2>1. f \notin Owned
    BY <1>1 DEF Accept, Owned, NoStrayClose, AccOwns
  <2>2. Owned' = Owned \cup {f}
    BY <1>1 DEF Accept, Owned, AccOwns, Owns
  <2>3. Cardinality(Owned') = Cardinality(Owned) + 1
    BY <2>1, <2>2, SocketSetsFinite, FS_AddElement
  <2>4. Late' = Late /\ AccLate' = AccLate /\ s_nsocks' = s_nsocks + 1
    BY <1>1 DEF Accept, Late, AccLate
  <2>5. QED BY <2>3, <2>4, SocketSetsFinite DEF SocketsCounted
<1>2. CASE AcceptFails \/ Admit \/ Refuse \/ SpawnFails \/ UNCHANGED vars
  <2>1. Owned' = Owned
    BY <1>2 DEF AcceptFails, Admit, Refuse, SpawnFails, vars, Owned, Owns, AccOwns
  <2>2. Late' = Late /\ AccLate' = AccLate /\ s_nsocks' = s_nsocks
    BY <1>2 DEF AcceptFails, Admit, Refuse, SpawnFails, vars, Late, AccLate
  <2>3. QED BY <2>1, <2>2, SameSockets
<1>3. CASE Drop
  <2>1. acc.fd \in Owned
    BY <1>3 DEF Drop, Owned, AccOwns
  <2>2. Owned' = Owned \ {acc.fd}
    BY <1>3 DEF Drop, Owned, AccOwns, Owns, NoStrayClose
  <2>3. Late' = Late /\ AccLate = 0 /\ AccLate' = 1 /\ s_nsocks' = s_nsocks
    BY <1>3 DEF Drop, Late, AccLate
  <2>4. Cardinality(Owned') = Cardinality(Owned) - 1
    BY <2>1, <2>2, OwnedLoses
  <2>5. QED BY <2>3, <2>4, SocketSetsFinite DEF SocketsCounted
<1>4. CASE Dropped
  <2>1. Owned' = Owned
    BY <1>4 DEF Dropped, Idle, Owned, AccOwns, Owns
  <2>2. Late' = Late /\ AccLate = 1 /\ AccLate' = 0 /\ SockClosed
    BY <1>4 DEF Dropped, Idle, Late, AccLate
  <2>3. QED BY <2>1, <2>2, SocketSetsFinite DEF SocketsCounted, SockClosed
<1>5. ASSUME NEW t \in Tasks, Spawn(t) PROVE SocketsCounted'
  <2>1. /\ task'[t].fd = acc.fd /\ task'[t].pc = "TURN" /\ acc.fd # NoFd
        /\ task[t].fd = NoFd /\ AccOwns /\ ~AccOwns'
    BY <1>5 DEF Spawn, Idle, NoTask, AccOwns
  <2>2. \A u \in Tasks \ {t} : task'[u] = task[u]
    BY <1>5 DEF Spawn
  <2>3. Owned' = Owned
    BY <2>1, <2>2 DEF Owned, Owns
  <2>4. Late' = Late
    BY <2>1, <2>2 DEF Late
  <2>5. AccLate' = AccLate /\ s_nsocks' = s_nsocks
    BY <1>5 DEF Spawn, Idle, AccLate
  <2>6. QED BY <2>3, <2>4, <2>5, SameSockets
<1>6. ASSUME NEW t \in Tasks, Keeps(t) PROVE SocketsCounted'
  <2>1. /\ UNCHANGED <<acc, s_nsocks>>
        /\ \A u \in Tasks : task'[u].fd = task[u].fd
        /\ \A u \in Tasks : Owns(u)' <=> Owns(u)
        /\ Late' = Late
    BY <1>6, KeepsEffect
  <2>2. Owned' = Owned
    BY <2>1 DEF Owned, AccOwns
  <2>3. QED BY <2>1, <2>2, SameSockets DEF AccLate
<1>7. ASSUME NEW t \in Tasks, Parts(t) PROVE SocketsCounted'
  <2>1. /\ UNCHANGED <<acc, s_nsocks>>
        /\ \A u \in Tasks : task'[u].fd = task[u].fd
        /\ \A u \in Tasks \ {t} : Owns(u)' <=> Owns(u)
        /\ Owns(t) <=> task[t].fd # NoFd
        /\ ~Owns(t)'
        /\ Late' = IF task[t].fd = NoFd THEN Late ELSE Late \cup {t}
        /\ t \notin Late
    BY <1>7, PartsEffect
  <2>2. CASE task[t].fd = NoFd
    <3>1. Owned' = Owned
      BY <2>1, <2>2 DEF Owned, AccOwns
    <3>2. QED BY <2>1, <2>2, <3>1, SameSockets DEF AccLate
  <2>3. CASE task[t].fd # NoFd
    <3>1. task[t].fd \in Owned
      BY <2>1, <2>3 DEF Owned, Task
    <3>2. Owned' = Owned \ {task[t].fd}
      BY <2>1, <2>3 DEF Owned, AccOwns, NoStrayClose
    <3>3. Cardinality(Owned') = Cardinality(Owned) - 1
      BY <3>1, <3>2, OwnedLoses
    <3>4. Cardinality(Late') = Cardinality(Late) + 1
      BY <2>1, <2>3, LateGains
    <3>5. QED BY <2>1, <3>3, <3>4, SocketSetsFinite DEF SocketsCounted, AccLate
  <2>4. QED BY <2>2, <2>3
<1>8. ASSUME NEW t \in Tasks, Forgets(t) PROVE SocketsCounted'
  <2>1. /\ UNCHANGED acc
        /\ \A u \in Tasks \ {t} : task'[u] = task[u]
        /\ ~Owns(t) /\ ~Owns(t)'
        /\ Late' = Late \ {t}
        /\ IF t \in Late THEN SockClosed ELSE UNCHANGED s_nsocks
    BY <1>8, ForgetsEffect
  <2>2. Owned' = Owned
    BY <2>1 DEF Owned, Owns, AccOwns
  <2>3. AccLate' = AccLate
    BY <2>1 DEF AccLate
  <2>4. CASE t \in Late
    <3>1. /\ Cardinality(Late') = Cardinality(Late) - 1
          /\ Cardinality(Late') \in Nat
      BY <2>1, <2>4, LateLoses
    <3>2. SockClosed
      BY <2>1, <2>4
    <3>3. QED BY <2>2, <2>3, <3>1, <3>2, SocketSetsFinite
              DEF SocketsCounted, SockClosed
  <2>5. CASE t \notin Late
    <3>1. Late' = Late /\ s_nsocks' = s_nsocks
      BY <2>1, <2>5
    <3>2. QED BY <2>2, <2>3, <3>1, SameSockets
  <2>6. QED BY <2>4, <2>5
<1>9. QED BY <1>1, <1>2, <1>3, <1>4, <1>5, <1>6, <1>7, <1>8
          DEF Next, Keeps, Parts, Forgets

(* s_nsocks is exactly the number of sockets with an owner plus those      *)
(* closed and not yet counted, through every refusal, failed start, failed *)
(* upgrade and end of a session.  Sockets without an owner, which only the *)
(* early returns of network_tls_upgrade leave, are not in it.              *)
THEOREM SocketCountSafety == Spec => []SocketsCounted
<1>1. Init => SocketsCounted
  <2>1. ASSUME Init PROVE Owned = {} /\ Late = {} /\ AccLate = 0
    BY <2>1, FdsAssumption DEF Init, Owned, Owns, AccOwns, Late, AccLate, Idle, NoTask
  <2>2. QED BY <2>1, FS_EmptySet DEF Init, SocketsCounted
<1>2. QED BY <1>1, InitPlaced, TypeInit, TypeStep, PlacedStep, StrayCloseSafety,
             SocketStep, PTL DEF Spec
=============================================================================
