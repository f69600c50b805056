SPECIFICATION Spec
CONSTANTS
  MAX_RETRIES = 2
  CounterMod = 3
  FrameCap = 2
  MaxPorts = 2
  MaxPackets = 3
  MaxTransit = 2
CHECK_DEADLOCK FALSE
INVARIANTS
  ExactlyOnceInOrder
  NothingForgotten
PROPERTIES
  CloseDelivers
