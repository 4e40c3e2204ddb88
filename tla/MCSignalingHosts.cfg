SPECIFICATION Spec
CONSTANTS
  r1 = r1
  h1 = h1
  h2 = h2
  h3 = h3
  p1 = p1
  v1 = v1
  Rooms <- MCRooms
  Sessions <- TwoAndOne
  Hosts <- TwoHosts
  ViewerIds <- OneViewerId
  PageRoom <- AllInRoom
  RoomOptional = FALSE
  Tokens = {"t1"}
  NoToken = "none"
  NoRoom = NoRoom
  NoSession = NoSession
  MaxViewers = 1
  MaxSends = 1
  LaterTypes = {}
  HostsOverlap = FALSE
  IdsCollide = FALSE
CHECK_DEADLOCK FALSE
INVARIANTS
  MembersAnnounced
  EvictedAreTold
  NoticesInOrder
PROPERTIES
  GhostsVanish
  MembersGetOffers
