SPECIFICATION FairSpec
CONSTANTS
  NULL = NULL
  pool = pool
  Threads = {t1, t2, t3}
  Locks = {pool}
  LockOrder <- NoNesting
  MaxRepeat = 2
INVARIANTS
  TypeOK
  MutualExclusion
  WaitersInv
  NoLostWakeup
  ReadyListInv
  NoPanic
PROPERTY
  ImplementsMutex
  EventuallyWoken
