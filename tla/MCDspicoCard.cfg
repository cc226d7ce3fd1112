SPECIFICATION CardSpec
CONSTANTS
  MaxAllocations = 2
  PoolBytes = 10
  WordMod = 64
  MaxJobs = 1
  QueueDepth = 1
  PayloadBytes = 4
  BlockBytes = 8
  DescriptorBytes = 4
  Bytes = {0, 1}
  F4Mod = 2
  RegWrites <- MCRegWrites
  PayloadWrites <- MCPayloadWrites
  Commands <- MCCommands
  Blocks <- MCBlocks
  Reads <- MCReads
INVARIANT MemorySound
PROPERTIES F4Agrees BuffersIsolated
