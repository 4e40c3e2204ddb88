SPECIFICATION Spec
CONSTANTS
  Ports = {"p1", "p2"}
  Names = {"n1", "n2"}
  DefaultPort = "p1"
  Binds = {"any"}
  DefaultBind = "any"
  Requests <- MCRequests
  Draws <- MCDraws
  MaxCommands = 3
  MaxMoves = 1
  MaxViewers = 1
INVARIANTS
  ReaderHandlesOpen
  PollsAreSingle
  ShownIsSo
PROPERTIES
  AppSettles
CHECK_DEADLOCK FALSE
