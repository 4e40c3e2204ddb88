SPECIFICATION Safety
CONSTANTS
  r1 = r1
  h1 = h1
  h2 = h2
  h3 = h3
  p1 = p1
  v1 = v1
  Rooms <- MCRooms
  Sessions <- ThreeHosts
  Hosts <- ThreeHosts
  ViewerIds <- OneViewerId
  PageRoom <- AllInRoom
  RoomOptional = FALSE
  Tokens = {"t1"}
  NoToken = "none"
  NoRoom = NoRoom
  NoSession = NoSession
  MaxViewers = 1
  MaxSends = 0
  LaterTypes = {}
  HostsOverlap = TRUE
  IdsCollide = FALSE
CHECK_DEADLOCK FALSE
INVARIANT OneHostPerRoom
