SPECIFICATION Spec
CONSTANTS
  Builds <- MCBuilds
  RAW_FRAME = TRUE
  MaxPackets = 3
  MaxRefusals = 1
  MaxRaw = 1
INVARIANTS
  NoPanic
  TimerNeverLost
  HalfDuplex
  NoTearing
  Conservation
PROPERTIES
  EventuallySent
  ReceptionEnds
