SPECIFICATION MCSpec
CONSTANTS
  MgrUsers = {"u1", "u2"}
  MgrImages <- MCImages
  MgrHeaders = {0, 1, 2}
  MachPage = 2
  SvcBufs = {1, 2}
  SvcPool = {"b1", "b2", "b3"}
  SvcFifo = 2
  DmaQueue = 2
  CreditWrap = 3
  Fifo = 2
  PrMaxWaits = 2
  Regions = {"r1","r2"}
  Bridges <- MCBridges
  BridgeKind <- MCKind
  ParentBridge <- MCParent
  RegionBridges <- MCRegBridges
  Overlays <- MCOverlays
  Boards <- MCBoards
  NrIrqs = 2
  NumBars = 2
  DfhSize = 2
  SizeUnknown = 4
  FDevs <- MCFDevs
  FKind <- MCFKind
  FFeats <- MCFFeats
  FDrvs <- MCFDrvs
  DflDrvs <- MCDflDrvs
  OpsUsers = {"u1"}
  Units = {"any", "serial", "s10", "zynq", "soc", "credit", "regions", "own", "enum", "bus"}
INVARIANTS
  MgrLoadTrue
  SerialLoadTrue
  S10BuffersSafe
  ZynqLoadTrue
  SocLoadTrue
  CreditLoadTrue
  RegionIsolation
  EnumSound
  BusSound
CHECK_DEADLOCK FALSE
