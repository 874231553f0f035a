CONSTANTS
  Ports = {p1, p2}
  Callers = {c1, c2}
  None = None
  Other = Other
  Faults = {"load"}
  MaxPr = 1
SPECIFICATION Spec
INVARIANT ResetRecovers
