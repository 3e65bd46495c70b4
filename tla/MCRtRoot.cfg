CONSTANTS
  CPU = {0, 1}
  Hotplug = {1}
  MaxRtPrio = 2
  MaxPrio = 4
  t1 = t1
  t2 = t2
  t3 = t3
  Task = {t1, t2, t3}
  Other = Other
  Allowed <- MCAllowed
SPECIFICATION Spec
INVARIANTS MapsAgree FindIsLowest QueuesOK RootMatchesQueues
SYMMETRY Symmetric
PROPERTY PushedWherePossible
