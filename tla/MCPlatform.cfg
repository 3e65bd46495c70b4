CONSTANTS
  Root = Root
  a1 = a1
  a2 = a2
  b1 = b1
  A = A
  B = B
  Drv = {a1, a2, b1}
  Pool = {1}
  MaxLive = 1
  NULL = NULL
  MaxAddr = 3
  RootStart = 0
  RootEnd = 3
  DrvFlags <- MCDrvFlags
  Sizes = {1, 2}
  Aligns = {1}
  Bounds <- MCBounds
  Dev = {A, B}
  DevRes <- MCDevRes
  MaxId = 1
  AUTO = AUTO
SPECIFICATION PSpec
INVARIANT ClaimsMatchDevices
PROPERTY FailedAddLeavesNoTrace
