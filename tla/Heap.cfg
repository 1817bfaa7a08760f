SPECIFICATION Spec
CONSTANTS
  Sizes = {1024, 1025, 4085, 40000}
  HeapBytes = 6
  PoolSize = 30000
  MaxLive = 5
INVARIANTS
  HeapTypeOK
  NoOverlap
  FreeListsInv
  NoPageLeaked
CHECK_DEADLOCK FALSE
