\* Every input of up to MaxLength bytes in every chunking, for each entry point,
\* parsed into fields of every size, nested two deep; strings of more than
\* kMaxCordBytesToCopy bytes are taken from the stream itself.
CONSTANTS
  kSlopBytes = 2
  kMaxCordBytesToCopy = 4
  IntMax = 100
  Kinds = {"flat", "stream", "bounded", "coded"}
  MaxLength = 6
  MaxDepth = 2
SPECIFICATION Spec
INVARIANTS TypeOK WindowIsStream LimitsAreAbsolute AcceptedExactly StreamStandsAtParser
PROPERTY BackUpsAreAllowed
