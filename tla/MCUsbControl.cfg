SPECIFICATION UsbSpec
CONSTANTS
  Ep0Size = 2
  PacketSize = 2
  TxDepth = 2
  RxDepth = 3
  QueueSize = 3
  CtlDepth = 2
  OutSizes = {1, 2}
  DiagStart = 0
  DiagCap = 0
  MaxResets = 1
  MaxSuspends = 0
  MaxGiveUps = 1
  Requests <- ControlRequests
INVARIANTS ControlAnswers ReceivedKept AddressTaken
PROPERTY ControlEnds
