CONSTANTS
  N = 3
  Wrap = 8
  Deadlines = {1, 2}
  Task = {t1, t2, t3}
  RootDomain = {def, r1}
  Def = def
  Hotplug = {1, 2}
  Movable = {2}
  NoCpu = NoCpu
SPECIFICATION Spec
INVARIANTS FoundIsLater
SYMMETRY Symmetric
