\* ReadCord() is called although a buffer that overshot a limit was returned.
SPECIFICATION Spec
CONSTANTS
  Source <- MCSource
  Count = {1, 2, 4}
  MaxLimits = 2
  Careless = {"cord"}
INVARIANTS
  NothingBeyondLimit
