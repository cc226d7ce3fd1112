SPECIFICATION AzaharSpec
CONSTANTS
  Values = {0, 1}
  Indices = {0}
  BlockWords = 2
  CounterMod = 2
  HeadStores <- MCHeadStores
  RomCntStores <- MCRomCntStores
  CompleteIndex = 0
  TraceEnabled = TRUE
INVARIANT LogAgrees
PROPERTIES RefinesCardBus BitsFollowTransfer
