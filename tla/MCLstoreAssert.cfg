SPECIFICATION Spec
CONSTANTS
  DataBlocks = 3
  BlockCap = 2
  MaxDelta = 1
  TornWrites = FALSE
  SharedTimes = FALSE
  MaxEntries = 5
  MaxTime = 3
  MaxRestarts = 2
CHECK_DEADLOCK FALSE
INVARIANTS
  NoAssertFails
