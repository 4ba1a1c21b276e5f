\* An arena without blocks hands out strings from string blocks on the heap.
CONSTANTS
  ObjectSizes = {1, 3}
  kBlockHeaderSize = 1
  StartBlockSize = 4
  MaxBlockSize = 8
  StringHeaderSize = 1
  StringSize = 2
  MinStringBlock = 4
  MaxStringBlock = 8
  Word = 64
  MaxUsed = 12
SPECIFICATION SpaceSpec
INVARIANT SpaceUsedIsTotal
