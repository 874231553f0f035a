CONSTANTS
  MaxUploads = 3
  Sizes = {1, 3}
  WordMod = 16
  Errors = {"RW_ERROR", "CANCELED"}
  Client = "waits"
SPECIFICATION Spec
INVARIANTS
  EventfdInstalled
CHECK_DEADLOCK FALSE
