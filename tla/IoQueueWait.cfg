SPECIFICATION WaitingSpec
CONSTANTS
  NULL = NULL
  ioq = ioq
  Threads = {p1, p2, c}
  Producers = {p1, p2}
  Consumers = {c}
  Chars = {"a", "A", "1", "!"}
  ThreadChars = {"1"}
  bufsize = 3
  Locks = {ioq}
  LockOrder = {}
  MaxRepeat = 1
INVARIANT
  ConsumerSleeps
