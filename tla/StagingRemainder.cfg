SPECIFICATION MCSpec
CONSTANTS
  DmaThreads = {1, 2}
  Procs = {1, 2}
  ProcOf <- MCProcOf
  Pages = {1, 2, 3}
  Pfn <- MCPfn
  Iovas = {1, 2}
  Legacy = FALSE
  MaxRegions = 2
  MemLock = 3
  CxlPages = {1, 2, 3}
  CxlPfn <- MCCxlPfn
  CxlCsrs = {"c1"}
  MaxBuffers = 3
  MaxCxlDevs = 2
  SvaFiles = {f1, f2}
  SvaProcs = {p1, p2}
  SvaNull = SvaNull
  MaxSvaDevs = 2
  NrIrqs = 3
  Eventfds = {e1, e2}
  NoTrigger = NoTrigger
  AvAddrs <- MCAvAddrs
  AvVals <- MCAvVals
  AvNext <- MCAvNext
  MaxIdle = 1
  QSFP_CHK_RDY_CNT = 3
  PfEvents = {"p1", "p2"}
  PfCpus = {1, 2}
  PfKinds <- MCPfKinds
  PfId = "iperf"
  MaxCount = 1
  IrRegs = {"x", "y"}
  IrVals = {0, 1}
  NiosVersions = {0, 2, 3}
  FecModes = {"kr", "rs"}
  MaxProbes = 3
  StWord = 4
  StBlock = 16
  StFifo = 2
  StReadBlock = 12
  StSizes = {1, 4, 6, 8, 12, 17, 18, 20, 24, 32, 34, 40}
  Units = {"staging"}
INVARIANT StagingWhole
CHECK_DEADLOCK FALSE
