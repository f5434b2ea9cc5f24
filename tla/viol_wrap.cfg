\* A frame that fits, and one whose size wraps.
CONSTANTS
  HeaderLen = 2
  Cap = 4
  SizeMod = 16
  Lengths = {1, 14}
  MaxInFlight = 3
SPECIFICATION Spec
\* A closed session reads no more.
CHECK_DEADLOCK FALSE
INVARIANT
  FitsStash
