SPECIFICATION UsbSpec
CONSTANTS
  Ep0Size = 2
  PacketSize = 2
  TxDepth = 2
  RxDepth = 3
  QueueSize = 3
  CtlDepth = 2
  OutSizes = {}
  DiagStart = 3
  DiagCap = 4
  MaxResets = 1
  MaxSuspends = 1
  MaxGiveUps = 0
  Requests <- StreamRequests
INVARIANTS StreamWhole
PROPERTY TranscriptArrives
