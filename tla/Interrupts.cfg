SPECIFICATION FairSpec
CONSTANTS
  main = main
  p = p
  q = q
  Threads = {main, p, q}
  Procs = {p, q}
  Lines = {0, 1, 4}
  Calls = {"SYS_GETPID", "SYS_WRITE"}
  AddrSpace = 4194304
  BiosMaps <- Machines
INVARIANTS
  IntrTypeOK
  ContextRestored
  MemoryLayout
PROPERTY
  RightHandler
  TimerServed
