SPECIFICATION Spec
CONSTANTS
  Streams = {s1}
  Peers = {}
  NoStream = NoStream
  MaxCommands = 3
  MaxClicks = 3
  FrameReachesHost = FALSE
CHECK_DEADLOCK FALSE
INVARIANTS
  WaitsWithTimeout
PROPERTIES
  AnswersOwnRequest
  QueuedStopStops
  StoppedCapturesNothing
