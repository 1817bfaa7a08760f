SPECIFICATION Spec
CONSTANTS
  Bits = {0, 1, 2, 3, 4, 5, 6, 7}
  Lengths = {2}
  Counts = {1}
INVARIANT
  EveryBitUsable
CHECK_DEADLOCK FALSE
