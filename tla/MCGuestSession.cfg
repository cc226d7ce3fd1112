SPECIFICATION SessionSpec
CONSTANTS
  MaxAllocations = 2
  PoolBytes = 10
  WordMod = 64
  MaxJobs = 2
  QueueDepth = 2
  PayloadBytes = 0
  BlockBytes = 24
  DescriptorBytes = 4
  Bytes = {0}
  RegWrites <- MCNone
  PayloadWrites <- MCNone
  Commands <- MCNone
  Blocks <- MCNone
  Reads <- MCNone
  AllocSizes = {5, 8, 9}
  BlockWords = 6
  InlineBytes = 5
INVARIANT SessionIsClean
PROPERTY SessionEnds
