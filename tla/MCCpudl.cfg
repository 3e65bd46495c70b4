CONSTANTS
  N = 5
  Wrap = 8
  Deadlines <- AcrossWrap
SPECIFICATION CallsSpec
INVARIANTS HeapOK FindIsLatest
PROPERTIES OthersKeepDeadline
