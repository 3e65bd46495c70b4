CONSTANTS
  NULL = NULL
  freezable = freezable
  intensive = intensive
  WqList <- MCWqList
  Freezable = {freezable}
  CpuIntensive = {intensive}
  Work = {w1, w2, w3}
  Worker = {1, 2, 3, 4, 5}
  MaxActives = {1, 2}
  AddressBits <- MCAddressBits
SPECIFICATION Spec
INVARIANTS CountersAgree PendingInOnePlace NoneStranded
PROPERTIES FifoPerWorkqueue CallsReturn
