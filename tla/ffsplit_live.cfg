\* Two nodes under FFSplit that split and report heuristics, fair delivery.
CONSTANTS
  NodeIds = {1, 2}
  Rings = {1, 2, 3}
  MaxClients = 2
  SizeMod = 65536
  Conns = {c1, c2}
  NoConn = NoConn
  Names <- OneName
  Algos = {"FFSPLIT"}
  TieBreakers <- OnlyLowest
  Configs <- TwoNodeConfig
  Views <- SplitViews
  Heurs = {"PASS"}
  Kaps = {}
  SeqMod = 3
  MaxInFlight = 1
  SendMayFail = FALSE
  AllowOverlap = FALSE
SPECIFICATION LiveSpec
PROPERTY
  Converges
\* Quiet clients have nothing left to do.
CHECK_DEADLOCK FALSE
