CONSTANTS
  Root = Root
  d1 = d1
  d2 = d2
  Drv = {d1, d2}
  Pool = {1, 2}
  MaxLive = 1
  NULL = NULL
  MaxAddr = 3
  RootStart = 0
  RootEnd = 3
  MCBusy = {d2}
  DrvFlags <- MCDrvFlags
  Sizes = {1, 2}
  Aligns = {1, 2}
  Bounds <- MCBounds
SPECIFICATION Spec
INVARIANTS RemoveUndoesInsert TreeOK
  AllocateIsLowestFit ExpandAlwaysFits
  WalkReportsMatches SplitCoversRequest
