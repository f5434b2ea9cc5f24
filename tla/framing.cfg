\* An empty, a small, an exactly fitting and an oversize frame, and one
\* whose size wraps.
CONSTANTS
  HeaderLen = 2
  Cap = 4
  SizeMod = 16
  Lengths = {0, 1, 2, 3, 14}
  MaxInFlight = 3
SPECIFICATION Spec
\* A closed session reads no more.
CHECK_DEADLOCK FALSE
INVARIANTS
  FitsUnlessWrapped
  HandshakeInSync
