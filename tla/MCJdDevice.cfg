SPECIFICATION Spec
CHECK_DEADLOCK FALSE
INVARIANTS
  PowerSound
  BridgeDelivers
  CacheInSync
  BuffersKeepOrder
  EventsDelivered
  SensorsSound
  InputsSound
  LightsSound
  PicturesRight
  OutputsRight
  ConfigSound
  Computes
  ControlSound
  ThreadsSound
