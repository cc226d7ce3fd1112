SPECIFICATION Spec
CONSTANTS
  Words <- MCWords
  AllocSize = 5
  LocalMemory = 6
  MaxFrames = 14
INVARIANTS
  CompleteIsTrue
  FramesSuffice
PROPERTIES
  ServedWhole
  AnswerIsOwn
CHECK_DEADLOCK FALSE
