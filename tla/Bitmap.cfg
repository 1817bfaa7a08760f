SPECIFICATION Spec
CONSTANTS
  Bits = {0, 1, 2, 3, 4, 5, 6, 7}
  Lengths = {0, 1, 2, 4, 7, 9}
  Counts = {1, 2, 3, 8}
INVARIANTS
  ScanInv
  ScanCorrect
PROPERTY
  ScanTerminates
CHECK_DEADLOCK FALSE
