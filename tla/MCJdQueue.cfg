SPECIFICATION Spec
CONSTANTS
  QSize = 56
  Ids = {1, 2}
  PayloadSizes = {4, 7}
CHECK_DEADLOCK TRUE
INVARIANTS
  AssertsHold
  AcceptedIntact
  HeldIsOldest
  GrantHolds
  EmptyAccepts
PROPERTIES
  FifoSpec
