\* Two sessions; any send and any TLS handshake may hang; SET_OPTION grants the
\* longest interval the dead-peer check tolerates.
CONSTANTS
  Conns = {c1, c2}
  NoConn = NoConn
  RecvTicks = 2
  SendsBlock = TRUE
  Wdt = 3
  Hbs = {2}
  SetHbs = {3}
  Rtt = 0
  MaxRx = 1
  Cap = 4
SPECIFICATION Spec
INVARIANT
  NoFalseDeath
PROPERTY
  SilentPeersEnd
