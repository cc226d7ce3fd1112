SPECIFICATION Spec
CONSTANTS
  Records = {r1, r2, r3}
  NoRecord = blank
  Depth = 4
INVARIANT IndicesAgree
PROPERTY RefinesBoundedFifo
