SPECIFICATION Spec
CONSTANTS
  v1 = v1
  v2 = v2
  Keys = {k1, k2}
  LargeKeys = {l1}
  Values = {v1, v2}
  Size <- MCSize
  HalfSpace = 18
  DataPages = 1
  LargePages = {}
  TornWrites = TRUE
  None = None
  MaxGen = 3
  MaxCrashes = 1
SYMMETRY KeySymmetry
CHECK_DEADLOCK FALSE
INVARIANTS
  SettingsSurvive
