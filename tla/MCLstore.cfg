SPECIFICATION Spec
CONSTANTS
  DataBlocks = 3
  BlockCap = 2
  MaxDelta = 1
  TornWrites = FALSE
  SharedTimes = FALSE
  MaxEntries = 6
  MaxTime = 3
  MaxRestarts = 2
CHECK_DEADLOCK FALSE
INVARIANTS
  LogIsSuffix
PROPERTIES
  BlocksInPlace
