SPECIFICATION ShareSpec
CONSTANTS
  Streams = {s1, s2}
  Peers = {p1}
  NoStream = NoStream
  MaxCommands = 3
CHECK_DEADLOCK FALSE
INVARIANTS
  NothingElseCaptured
  PeersSeeScreen
PROPERTIES
  OldTrackStopsNothing
  CommandsAreRun
