SPECIFICATION Spec
CONSTANTS
  Cells = 2
  Patterns = {0, 1}
  Intensities = {1}
INVARIANTS
  SleepsOnlyInProcess
  DisplayCatchesUp
PROPERTIES
  SensorGetsGoing
