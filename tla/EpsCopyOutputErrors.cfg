\* HadError() after Trim() of a stream to a file that could not be written.
SPECIFICATION Spec
CONSTANTS
  Outputs <- MCOutputs
  MinimumSize = 3
  MinBlockSize = 3
  Slop = 2
  CordToCopy = 3
  Sizes = {0, 1, 3, 5}
  MaxBytes = 6
  MaxSkipped = 2
INVARIANTS
  HadErrorTells
CHECK_DEADLOCK FALSE
