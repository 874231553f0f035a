CONSTANTS
  MaxUploads = 2
  Sizes = {2, 3}
  WordMod = 8
  Errors <- SecErrors
  Client = "quiesced"
  StagingSize = 2
  Board = "N3000"
  Faults = {}
  MaxLoads = 1
SPECIFICATION SecSpec
INVARIANT EraseWriteProtected
CHECK_DEADLOCK FALSE
