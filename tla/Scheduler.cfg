SPECIFICATION SFairSpec
CONSTANTS
  NULL = NULL
  main = main
  thread_a = thread_a
  thread_b = thread_b
  prog_a = prog_a
  pool = pool
  pid_lock = pid_lock
  Threads = {main, thread_a, thread_b, prog_a}
  Procs = {prog_a}
  Prio <- Priorities
  Starts <- TwoKernelThreads
  Locks = {pool, pid_lock}
  LockOrder <- NoNesting
  MaxRepeat = 1
INVARIANTS
  STypeOK
  ThreadListsInv
  OwnAddressSpace
  UniquePids
  WalkInReadyList
  NoPanic
PROPERTY
  ReadyRuns
