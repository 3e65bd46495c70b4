CONSTANTS
  HEAD = HEAD
  NULL = NULL
  MaxTwoKeys = 8
  MaxThreeKeys = 6
  LongLengths = {13, 20, 27}
  Sizes = {4, 6}
  Inputs <- MCInputs
SPECIFICATION Spec
CHECK_DEADLOCK FALSE
INVARIANTS MergesAreScheduled HeapInvariant SortsAgree
PROPERTY SortsReturn
