SPECIFICATION Spec
CONSTANTS
  MaxAllocations = 2
  PoolBytes = 8
  WordMod = 64
  MaxJobs = 2
  QueueDepth = 2
  PayloadBytes = 0
  BlockBytes = 12
  DescriptorBytes = 4
  Bytes = {0, 1}
  RegWrites <- MCRegWrites
  PayloadWrites <- MCPayloadWrites
  Commands <- MCCommands
  Blocks <- MCBlocks
  Reads <- MCReads
INVARIANTS JobTableSound CompletionsNameJobs BatchAnswered BatchWithinBlock
PROPERTIES AnswersStable RefusedBlockIsNoOp
