SPECIFICATION Spec
CONSTANTS
  PAYLOAD = 24
  Sizes = {0, 1, 4, 5}
  Bytes = {7, 255}
  MaxSent = 5
CHECK_DEADLOCK FALSE
INVARIANT EveryPacketHandled
