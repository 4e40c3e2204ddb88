SPECIFICATION Spec
CONSTANT MaxEvents = 5
CHECK_DEADLOCK FALSE
INVARIANT PlaybackTypeOK
PROPERTIES
  InterruptedIsRetried
  NegotiationEnds
