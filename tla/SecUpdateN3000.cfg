CONSTANTS
  MaxUploads = 2
  Sizes = {2, 3}
  WordMod = 8
  Errors <- SecErrors
  Client = "waits"
  StagingSize = 2
  Board = "N3000"
  Faults = {"rw", "slow"}
  MaxLoads = 1
SPECIFICATION SecSpec
INVARIANTS
  SecUpdateTrue
PROPERTIES
  ProgramsWholeImage
CHECK_DEADLOCK FALSE
