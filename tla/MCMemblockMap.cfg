CONSTANTS
  MaxPhys = 5
  PageSize = 1
  MaxRegions = 3
  MaxReserved = 3
  SlabAvailable = FALSE
  Node = {n0}
  MAX_NUMNODES = MAX_NUMNODES
  NUMA_NO_NODE = NUMA_NO_NODE
  Sizes = {2}
  AllocSizes = {1}
  Aligns = {1}
  Windows <- MCPreferHigh
  Limits = {4}
  Marks = {"MIRROR"}
SPECIFICATION Spec
INVARIANTS ArraysOK AllocIsHighestFit

PROPERTIES ImplementsMap
