SPECIFICATION UsbSpec
CONSTANTS
  Blk = 2
  Lengths = {0, 2, 4, 5}
INVARIANTS InDelivered OutDelivered
PROPERTY TransfersEnd
