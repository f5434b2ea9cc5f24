\* Two nodes under FFSplit, no push fails, one session per node; they may
\* disagree on the configuration, report heuristics and ask for keep-active.
CONSTANTS
  NodeIds = {1, 2}
  Rings = {1, 2, 3}
  MaxClients = 2
  SizeMod = 65536
  Conns = {c1, c2}
  NoConn = NoConn
  Names <- OneName
  Algos = {"FFSPLIT"}
  TieBreakers <- OnlyLowest
  Configs <- TwoNodeConfigs
  Views <- TwoNodeViews
  Heurs = {"PASS"}
  Kaps = {TRUE}
  SeqMod = 2
  MaxInFlight = 1
  SendMayFail = FALSE
  AllowOverlap = FALSE
VIEW Observable
SYMMETRY ConnSymmetry
SPECIFICATION Spec
INVARIANTS
  TypeOK
  SessionsIndependent
  NacksBeforeAcks
  AckHoldersChosen
  AckNeedsMembership
PROPERTY
  ImplementsVoteService
  IncumbentKeeps
