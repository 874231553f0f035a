CONSTANTS
  Ports = {p1, p2}
  Callers = {c1, c2}
  None = None
  Other = Other
  Faults = {"timeout", "load"}
  MaxPr = 2
SPECIFICATION FairSpec
INVARIANTS
  CountIsReset
  HeldInReset
  LocksReleased
PROPERTIES
  PrEnds
