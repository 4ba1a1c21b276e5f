\* The parts of an arena, one at a time: array sizes on both sides of the powers of
\* two and one whose list array is capped; blocks of four bytes and more; four
\* SerialArenas, three of them on chunks of two, objects that fill two cleanup chunks
\* and strings that fill two string blocks.  The containers are in MCMemory.
CONSTANTS
  Sizes = {16, 24, 40, 1040}
  PointerSize = 8
  MaxRegions = 4
  ObjectSizes = {1, 3}
  kBlockHeaderSize = 1
  StartBlockSize = 4
  MaxBlockSize = 8
  StringHeaderSize = 1
  StringSize = 2
  MinStringBlock = 4
  MaxStringBlock = 8
  Word = 64
  MaxUsed = 12
  ChunkSerials = 2
  FirstNodes = 1
  MaxNodes = 2
  StringsPerBlock = 2
  MaxSerials = 4
  MaxObjects = 3
  MaxStrings = 3
SPECIFICATION MCSpec
INVARIANTS CountersAreExact SteadyReadIsBracketed ArraysHaveTheirMemory ConstructedIsDestroyed EveryObjectHasOneOwner
PROPERTIES CachedUntilReused DestroyedInOrder ImplementsContainers
