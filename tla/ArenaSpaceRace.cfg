\* Only strings are allocated while another thread calls SpaceUsed.
CONSTANTS
  ObjectSizes = {}
  kBlockHeaderSize = 1
  StartBlockSize = 4
  MaxBlockSize = 8
  StringHeaderSize = 1
  StringSize = 2
  MinStringBlock = 4
  MaxStringBlock = 8
  Word = 64
  MaxUsed = 12
SPECIFICATION SpaceSpec
INVARIANT OverestimateIsBounded
