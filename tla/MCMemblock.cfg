CONSTANTS
  MaxPhys = 5
  PageSize = 1
  MaxRegions = 4
  MaxReserved = 4
  SlabAvailable = TRUE
  Node = {}
  MAX_NUMNODES = MAX_NUMNODES
  NUMA_NO_NODE = NUMA_NO_NODE
  Sizes = {2}
  AllocSizes = {1}
  Aligns = {2}
  Windows <- MCAnywhere
  Limits = {5}
  Marks = {"NOMAP"}
SPECIFICATION CutSpec
INVARIANTS IteratorsAgree
  LimitKeepsLowest
PROPERTIES TotalsOK
