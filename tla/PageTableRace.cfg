SPECIFICATION Spec
CONSTANTS
  NULL = NULL
  Kernel = Kernel
  k1 = k1
  k2 = k2
  p1 = p1
  p2 = p2
  KThreads = {k1, k2}
  Procs = {p1, p2}
  Groups <- BothLocks
  KernelBytes = 5
  UserBytes = 5
  SpaceBytes = 4
  StackPage = 5
  TablePages = 4
  MaxPages = 2
  MaxRegions = 2
INVARIANT
  PteClear
CHECK_DEADLOCK FALSE
