\* Base 8: a field of four bytes holds 4095, one of two 63.
CONSTANTS
  Base = 8
  SizeMod = 4096
  RxSize = 130
  MaxNodes = 2
  MaxList = 2
  ListRoom = 3
  Messages <- MCMessages
  Caps = {5, 6, 14, 40, 130}
  Earlier <- MCEarlier
  Unknown <- MCUnknown
  Noise = {0, 1, 5}
SPECIFICATION Spec
\* One frame is decoded.
CHECK_DEADLOCK FALSE
INVARIANTS
  RoundTrip
  CutBetweenOptions
  OnlyTheFrame
  DecodedInRange
