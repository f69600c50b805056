SPECIFICATION Spec
CONSTANTS
  Cells = 1
  Patterns = {0, 1}
  Intensities = {0, 1}
CHECK_DEADLOCK FALSE
INVARIANTS
  SleepsOnlyInProcess
