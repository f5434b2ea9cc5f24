\* A ceiling of two sessions, three tasks, four descriptors.
CONSTANTS
  Fds = {f1, f2, f3, f4}
  NoFd = NoFd
  Tasks = {t1, t2, t3}
  MaxSessions = 2
SYMMETRY PoolSymmetry
SPECIFICATION Spec
INVARIANTS
  SessionsCounted
  SocketsCounted
  NoStrayClose
