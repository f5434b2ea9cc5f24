\* One slot, so that a second address has none; a ring of three lines, two shown.
CONSTANTS
  Ips = {ip1, ip2}
  Unknown = Unknown
  RateMax = 1
  MaxFail = 2
  MaxCount = 3
  Block = 2
  Stream = 2
  RingN = 3
  Show = 2
  HeadMod = 16
  MaxLines = 6
SPECIFICATION Spec
INVARIANTS
  TypeOK
  LoginBudget
  EventFaithful
PROPERTIES
  SilenceEnds
  StreamEnds
