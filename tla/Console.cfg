SPECIFICATION Spec
CONSTANTS
  NULL = NULL
  Printers = {t1, t2}
  Strings <- Texts
  Chars = {"x", "CR"}
  Numbers <- Values
  Formats <- Printfs
  Nibbles = 2
  Width = 2
  Height = 2
  MaxCalls = 3
INVARIANTS
  ConsoleTypeOK
  ScreenShowsStrings
  FaultOnlyPastTop
CHECK_DEADLOCK FALSE
