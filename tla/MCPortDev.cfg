SPECIFICATION Spec
CONSTANTS
  Ports = {p1, p2}
  Files = {f1, f2}
  NoPort = NoPort
  MaxGen = 2
  MaxVfs = 2
SYMMETRY Symmetry
INVARIANTS
  UseCountExact
  ReleasedCountExact
  ReleasedPortClean
PROPERTIES
  ModeChangesOnlyWhenReleased
