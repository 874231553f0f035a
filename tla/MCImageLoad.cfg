CONSTANTS
  MaxUploads = 3
  Sizes = {1, 3}
  WordMod = 16
  Errors = {"RW_ERROR", "CANCELED"}
  Client = "quiesced"
SPECIFICATION FairSpec
INVARIANTS
  RefsBalanced
  UploadTrue
  StopsWait
PROPERTIES
  FlushReturns
  ImplementsUploadSpec
CHECK_DEADLOCK FALSE
