SPECIFICATION ServerSpec
CONSTANTS
  r1 = r1
  h1 = h1
  h2 = h2
  p1 = p1
  p2 = p2
  v1 = v1
  v2 = v2
  Rooms = {r1}
  Sessions = {h1, h2, p1, p2}
  Hosts = {h1, h2}
  ViewerIds = {v1, v2}
  PageRoom <- AllInRoom
  RoomOptional = TRUE
  Tokens = {"t1"}
  NoToken = "none"
  NoRoom = NoRoom
  NoSession = NoSession
  MaxViewers = 1
  MaxSends = 1
  LaterTypes = {"session.end"}
  HostsOverlap = TRUE
  IdsCollide = FALSE
CHECK_DEADLOCK FALSE
SYMMETRY RoomSymmetry
INVARIANTS
  EntriesOwned
  NothingLeftBehind
  HandlersNeverBlock
PROPERTIES
  KeepsRegistry
