\* FFSplit, a node reconnects before its old session has ended.
CONSTANTS
  NodeIds = {1, 2}
  Rings = {1, 2, 3}
  MaxClients = 2
  SizeMod = 65536
  Conns = {c1, c2}
  NoConn = NoConn
  Names <- OneName
  Algos = {"FFSPLIT"}
  TieBreakers <- OnlyLowest
  Configs <- TwoNodeConfig
  Views <- TwoNodeViews
  Heurs = {"ABSENT"}
  Kaps = {}
  SeqMod = 4
  MaxInFlight = 1
  SendMayFail = FALSE
  AllowOverlap = TRUE
SYMMETRY ConnSymmetry
SPECIFICATION Spec
INVARIANT
  SessionsIndependent
