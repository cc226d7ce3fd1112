SPECIFICATION FairSpec
CONSTANTS
  MaxAllocations = 3
  PoolBytes = 18
  WordMod = 64
  Requests <- MCRequests
INVARIANTS AllocationsSound ScanSkipsNoFit
PROPERTIES GrantCoversRequest CallIsAnswered RefinesAllocatorSpec
