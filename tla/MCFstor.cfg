SPECIFICATION Spec
CONSTANTS
  v1 = v1
  v2 = v2
  Keys = {k1, k2}
  LargeKeys = {l1, l2}
  Values = {v1, v2}
  Size <- MCSize
  HalfSpace = 15
  DataPages = 4
  LargePages = {1, 2, 5}
  TornWrites = FALSE
  None = None
  MaxGen = 3
  MaxCrashes = 2
SYMMETRY KeySymmetry
CHECK_DEADLOCK FALSE
INVARIANTS
  SettingsSurvive
  AreasApart
