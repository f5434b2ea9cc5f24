\* Sessions that come and go: a node may reconnect beside its old session,
\* pushes may fail, clusters of either algorithm, one turned away.
CONSTANTS
  NodeIds = {1, 2}
  Rings = {1, 2, 3}
  MaxClients = 2
  SizeMod = 65536
  Conns = {c1, c2}
  NoConn = NoConn
  Names <- TwoNames
  Algos = {"FFSPLIT", "LMS"}
  TieBreakers <- OnlyLowest
  Configs <- TwoNodeConfig
  Views <- TwoNodeViews
  Heurs = {"ABSENT"}
  Kaps = {}
  SeqMod = 1
  MaxInFlight = 0
  SendMayFail = TRUE
  AllowOverlap = TRUE
VIEW Observable
SYMMETRY ConnSymmetry
SPECIFICATION Spec
INVARIANTS
  SlotsAccounted
  NoStalledWaiter
  NodeIdsUnique
  AlgoBoundWhileUsed
  NoAckInNackPhase
