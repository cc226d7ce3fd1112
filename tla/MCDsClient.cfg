SPECIFICATION ClientSpec
CONSTANTS
  MaxAllocations = 2
  PoolBytes = 8
  WordMod = 64
  MaxJobs = 2
  QueueDepth = 2
  PayloadBytes = 4
  BlockBytes = 12
  DescriptorBytes = 4
  Bytes = {0, 1}
  F4Mod = 1
  RegWrites <- MCNone
  PayloadWrites <- MCNone
  Commands <- MCNone
  Blocks <- MCNone
  Reads <- MCNone
  Retries = 2
  DrainRounds = 2
  MaxAttempts = 2
  MaxPolls = 2
  PatternBytes = 3
INVARIANTS RunsAtMostOnce PassIsHonest BuffersReturned AnswerWaits
PROPERTIES ReadsAreTrue StageEnds
