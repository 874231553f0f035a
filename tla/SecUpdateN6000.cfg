CONSTANTS
  MaxUploads = 2
  Sizes = {2, 3}
  WordMod = 8
  Errors <- SecErrors
  Client = "quiesced"
  StagingSize = 2
  Board = "N6000"
  Faults = {"rw", "slow"}
  MaxLoads = 2
SPECIFICATION SecFairSpec
INVARIANTS
  EraseWriteProtected
  UpdateStateReleased
  OutcomeTrue
PROPERTIES
  ProgramsWholeImage
  ImplementsImageLoad
CHECK_DEADLOCK FALSE
