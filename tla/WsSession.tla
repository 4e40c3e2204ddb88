----------------------------- MODULE WsSession -----------------------------
(***************************************************************************)
(* The signaling server: one WsSession per connected page, all of them     *)
(* calling the hub of WsHub (src/core/server/ws_session.cpp,               *)
(* ws_session_handlers.cpp).                                               *)
(*                                                                         *)
(* A session runs its handlers on a strand of its own, so the handlers of  *)
(* one session follow one another while the handlers of two sessions run   *)
(* on two threads of the io_context and interleave between any two calls   *)
(* into the hub.  A handler is therefore not one step: its first critical  *)
(* section of the hub is the step that takes the message, and the calls it *)
(* still has to make (posting a message to a session, looking up the       *)
(* session behind a peer id) wait in todo[s], each of them one more step.  *)
(* Nothing else of a session is touched by two threads.                    *)
(*                                                                         *)
(* inbox and outbox are the two directions of the connection.  outbox[s]   *)
(* holds what was posted with Send to the strand of s and did not reach    *)
(* the page yet; that this path is first-in first-out is shown in          *)
(* WsOutbox.                                                               *)
(***************************************************************************)
EXTENDS WsHub, Sequences

CONSTANTS
  Hosts,         \* the sessions of host pages; the others belong to viewer pages
  PageRoom,      \* PageRoom[s]: the room in the URL of the page behind s
  RoomOptional,  \* may a client name no room?  (the pages do not connect then)
  NoRoom,        \* an empty room name
  Tokens,        \* non-empty host tokens
  NoToken,       \* an empty token
  MaxSends,      \* bound: messages a client sends after its first one
  LaterTypes,    \* bound: the types of these
  HostsOverlap,  \* may a second host page of a room be open beside the first?
  IdsCollide     \* may GenViewerId draw an id that was drawn before?

NoPeer == "nobody"     \* peerId_ before the session registered or joined
Viewers == Sessions \ Hosts

ASSUME HostsAssumption    == Hosts \subseteq Sessions
ASSUME PageRoomAssumption == PageRoom \in [Sessions -> Rooms]
ASSUME NoRoomAssumption   == NoRoom \notin Rooms
ASSUME NoTokenAssumption  == NoToken \notin Tokens
ASSUME NoPeerAssumption   == NoPeer \notin ViewerIds
ASSUME MaxSendsAssumption == MaxSends \in Nat
ASSUME FlagsAssumption    == {HostsOverlap, IdsCollide, RoomOptional} \subseteq BOOLEAN
\* There is something to draw, and ids for all when no id is drawn twice.
ASSUME EnoughIdsAssumption ==
  IF IdsCollide THEN ViewerIds # {}
  ELSE IsFiniteSet(Viewers) /\ Cardinality(Viewers) <= Cardinality(ViewerIds)

VARIABLES
  conn,     \* conn[s]: "none", "open", "closing" (the page is gone, the server
            \* has not noticed), "closed" (the read loop has ended)
  sess,     \* sess[s]: the fields room_, peerId_, isHost_, hostToken_
  todo,     \* todo[s]: the calls the running handler of s has still to make
  inbox,    \* inbox[s]: sent by the page, not yet read
  outbox,   \* outbox[s]: posted with Send, not yet received by the page
  sends     \* sends[s]: how much the page has sent after its first message

sessionVars == <<conn, sess, todo, inbox, outbox, sends>>
serverVars  == <<hubVars, sessionVars>>

----------------------------------------------------------------------------
(* Messages and calls *)

Peers == ViewerIds \cup {HostId}

\* Server to page: a type and the one argument that matters.
Msg(type, arg) == [type |-> type, arg |-> arg]
HostRegistered  == Msg("host.registered", "")
RoomJoined(id)  == Msg("room.joined", id)
PeerJoined(id)  == Msg("peer.joined", id)
PeerLeft(id)    == Msg("peer.left", id)
SessionEnded(why) == Msg("session.ended", why)
SessionEndAck   == Msg("session.end.ack", "")
Error(code)     == Msg("error", code)

\* Page to server.
Relayed == {"webrtc.offer", "webrtc.answer", "webrtc.ice"}
Request(type, room, token, to) ==
  [type |-> type, room |-> room, token |-> token, to |-> to]

\* Send(msg) to each session of a set, in any order.
SendTo(to, msg) == IF to = {} THEN <<>> ELSE <<[op |-> "send", to |-> to, msg |-> msg]>>
Reply(s, msg) == SendTo({s}, msg)

\* ForwardTo(room, peer, msg), and BroadcastViewers(room, msg) when peer is
\* AllViewers: the lookup comes first, in a critical section of its own.  In the
\* code these are two methods, so the mark is no peer id.
AllViewers == "viewers"
ASSUME AllViewersAssumption == AllViewers \notin Peers
Forward(room, peer, msg) ==
  <<[op |-> "find", room |-> room, peer |-> peer, msg |-> msg]>>

Found(room, peer) ==
  IF peer = AllViewers THEN LiveViewers(room) ELSE Lookup(room, peer)

----------------------------------------------------------------------------
(* The handlers of one message *)

Call(s, calls) == todo' = [todo EXCEPT ![s] = calls]

\* HandleMessage stores the room of every message before it dispatches.
KeepRoom(s, m) == sess' = [sess EXCEPT ![s].room = m.room]

HandleHostRegister(s, m) ==
  \/ /\ m.room = NoRoom \/ m.token = NoToken
     /\ KeepRoom(s, m)
     /\ Call(s, Reply(s, Error("BAD_REQUEST")))
     /\ UNCHANGED hubVars
  \/ /\ m.room # NoRoom /\ m.token # NoToken
     \* the identity is taken before the hub has agreed
     /\ sess' = [sess EXCEPT ![s] = [room |-> m.room, peerId |-> HostId,
                                     isHost |-> TRUE, hostToken |-> m.token]]
     /\ \/ /\ RegisterHost(m.room, s)
           /\ Call(s, Reply(s, HostRegistered))
        \/ /\ ~CanRegister(m.room)
           /\ Call(s, Reply(s, Error("HOST_ALREADY_EXISTS")))
           /\ UNCHANGED hubVars

DrawnIds == IF IdsCollide THEN ViewerIds
            ELSE ViewerIds \ {sess[t].peerId : t \in Sessions}

JoinFails(s, m) ==
  \/ /\ m.room = NoRoom
     /\ KeepRoom(s, m)
     /\ Call(s, Reply(s, Error("BAD_REQUEST")))
     /\ UNCHANGED hubVars
  \/ /\ m.room # NoRoom /\ ~HasHost(m.room)
     /\ KeepRoom(s, m)
     /\ Call(s, Reply(s, Error("ROOM_NOT_FOUND")))
     /\ UNCHANGED hubVars
  \/ /\ m.room # NoRoom /\ JoinFull(m.room)
     /\ KeepRoom(s, m)
     /\ Call(s, Reply(s, Error("ROOM_FULL")))

\* What a viewer and its host are told, in this order.
JoinNoticesSilent(s, r, id) == Reply(s, RoomJoined(id))     \* seeded fault: host not told
JoinNoticesSwapped(s, r, id) ==                             \* seeded fault: host told first
  Forward(r, HostId, PeerJoined(id)) \o Reply(s, RoomJoined(id))
JoinNotices(s, r, id) ==
  Reply(s, RoomJoined(id)) \o Forward(r, HostId, PeerJoined(id))

\* Seeded fault: the id the hub gave is not kept.
HandleRoomJoinNoId(s, m) ==
  \/ JoinFails(s, m)
  \/ /\ m.room # NoRoom
     /\ \E id \in DrawnIds :
          /\ JoinViewer(m.room, s, id)
          /\ KeepRoom(s, m)
          /\ Call(s, JoinNotices(s, m.room, id))

HandleRoomJoin(s, m) ==
  \/ JoinFails(s, m)
  \/ /\ m.room # NoRoom
     /\ \E id \in DrawnIds :
          /\ JoinViewer(m.room, s, id)
          /\ sess' = [sess EXCEPT ![s].room = m.room, ![s].peerId = id]
          /\ Call(s, JoinNotices(s, m.room, id))

ValidateHostToken(s, m) == sess[s].isHost /\ m.token = sess[s].hostToken

HandleSessionEnd(s, m) ==
  /\ KeepRoom(s, m)
  /\ Call(s, IF ~sess[s].isHost THEN <<>>
             ELSE IF ~ValidateHostToken(s, m) THEN Reply(s, Error("UNAUTHORIZED_HOST"))
             ELSE IF m.room = NoRoom THEN Reply(s, Error("BAD_REQUEST"))
             ELSE Forward(m.room, AllViewers, SessionEnded("host_stopped"))
                    \o Reply(s, SessionEndAck))
  /\ UNCHANGED hubVars

\* The relayed message carries the peer id of its sender as "from".
HandleWebrtcForward(s, m) ==
  /\ KeepRoom(s, m)
  /\ Call(s, IF m.room = NoRoom THEN Reply(s, Error("BAD_REQUEST"))
             ELSE IF m.to = NoPeer THEN <<>>
             ELSE IF sess[s].isHost /\ ~ValidateHostToken(s, m)
                  THEN Reply(s, Error("UNAUTHORIZED_HOST"))
             ELSE Forward(m.room, m.to, Msg(m.type, sess[s].peerId)))
  /\ UNCHANGED hubVars

HandleMessage(s, m) ==
  \/ m.type = "host.register" /\ HandleHostRegister(s, m)
  \/ m.type = "room.join"     /\ HandleRoomJoin(s, m)
  \/ m.type = "session.end"   /\ HandleSessionEnd(s, m)
  \/ m.type \in Relayed       /\ HandleWebrtcForward(s, m)

----------------------------------------------------------------------------
(* The steps of a session *)

Reading(s) == conn[s] \in {"open", "closing"}

\* OnRead with a message.  What the page sent before it went away is still read.
OnRead(s) ==
  /\ Reading(s) /\ todo[s] = <<>> /\ inbox[s] # <<>>
  /\ inbox' = [inbox EXCEPT ![s] = Tail(@)]
  /\ HandleMessage(s, Head(inbox[s]))
  /\ UNCHANGED <<conn, outbox, sends>>

\* Seeded faults: the viewers are not told, the host is not told, the host is
\* told although there is none.
LeaveNoticesHostOnly(r, peer) ==
  IF peer = HostId THEN <<>> ELSE SendTo(Lookup(r, HostId), PeerLeft(peer))
LeaveNoticesViewersOnly(r, peer) ==
  IF peer = HostId THEN SendTo(LiveViewers(r), SessionEnded("host_disconnected")) ELSE <<>>
LeaveNoticesUnchecked(r, peer) ==
  IF peer = HostId THEN SendTo(LiveViewers(r), SessionEnded("host_disconnected"))
  ELSE <<[op |-> "send", to |-> Lookup(r, HostId), msg |-> PeerLeft(peer)]>>

\* What Leave sends after its critical section.
LeaveNotices(r, peer) ==
  IF peer = HostId THEN SendTo(LiveViewers(r), SessionEnded("host_disconnected"))
  ELSE SendTo(Lookup(r, HostId), PeerLeft(peer))

\* Seeded fault: only a session that joined a room ends its read loop.
OnReadErrorJoined(s) ==
  LET r == sess[s].room
      peer == sess[s].peerId
  IN  /\ conn[s] = "closing" /\ todo[s] = <<>> /\ inbox[s] = <<>>
      /\ r # NoRoom /\ peer # NoPeer
      /\ conn' = [conn EXCEPT ![s] = "closed"]
      /\ Leave(r, peer) /\ Call(s, LeaveNotices(r, peer))
      /\ UNCHANGED <<sess, inbox, outbox, sends>>

\* OnRead with an error: the read loop ends.
OnReadError(s) ==
  LET r == sess[s].room
      peer == sess[s].peerId
  IN  /\ conn[s] = "closing" /\ todo[s] = <<>> /\ inbox[s] = <<>>
      /\ conn' = [conn EXCEPT ![s] = "closed"]
      /\ IF r # NoRoom /\ peer # NoPeer
         THEN Leave(r, peer) /\ Call(s, LeaveNotices(r, peer))
         ELSE UNCHANGED <<hubVars, todo>>
      /\ UNCHANGED <<sess, inbox, outbox, sends>>

\* Post(t, msg) puts a message behind the others for t; the message is lost when
\* the page is already gone.
PostFirst(t, msg) ==                  \* seeded fault: the last one goes first
  outbox' = IF conn[t] = "open" THEN [outbox EXCEPT ![t] = <<msg>> \o @] ELSE outbox
Post(t, msg) ==
  outbox' = IF conn[t] = "open" THEN [outbox EXCEPT ![t] = Append(@, msg)] ELSE outbox

\* One Send.
RunSend(s) ==
  /\ todo[s] # <<>> /\ Head(todo[s]).op = "send"
  /\ LET c == Head(todo[s]) IN \E t \in c.to :
       /\ Post(t, c.msg)
       /\ Call(s, SendTo(c.to \ {t}, c.msg) \o Tail(todo[s]))
  /\ UNCHANGED <<hubVars, conn, sess, inbox, sends>>

\* One lookup of ForwardTo or BroadcastViewers.
RunFind(s) ==
  /\ todo[s] # <<>> /\ Head(todo[s]).op = "find"
  /\ LET c == Head(todo[s]) IN
       Call(s, SendTo(Found(c.room, c.peer), c.msg) \o Tail(todo[s]))
  /\ UNCHANGED <<hubVars, conn, sess, inbox, outbox, sends>>

\* The session object goes when no handler and no other session refers to it.
Held(s) ==
  \/ conn[s] # "closed" \/ todo[s] # <<>>
  \/ \E t \in Sessions : \E i \in DOMAIN todo[t] :
       todo[t][i].op = "send" /\ s \in todo[t][i].to

Destroy(s) == ~Held(s) /\ Free(s) /\ UNCHANGED sessionVars

ServerStep(s) == OnRead(s) \/ OnReadError(s) \/ RunSend(s) \/ RunFind(s) \/ Destroy(s)

----------------------------------------------------------------------------
(* The client side of the connection *)

\* Without overlap, a host page of a room is opened only after the server has
\* noticed that the page before it is gone.
MayOpen(s) ==
  s \in Hosts /\ ~HostsOverlap
    => \A t \in Hosts \ {s} : PageRoom[t] = PageRoom[s] => ~Reading(t)

\* The room the first request of a client names.
OthersQuiet(s) == \A t \in Sessions \ {s} : sends[t] = 0
NamedRooms(s) == {PageRoom[s]} \cup (IF RoomOptional THEN {NoRoom} ELSE {})

\* The socket opens and the page sends its first message.  Bound: one client
\* sends more than its first request, or an incomplete one.
Connect(s, token) ==
  /\ conn[s] = "none" /\ MayOpen(s)
  /\ conn' = [conn EXCEPT ![s] = "open"]
  /\ \E room \in NamedRooms(s) :
       LET incomplete == room = NoRoom \/ (s \in Hosts /\ token = NoToken)
       IN  /\ inbox' = [inbox EXCEPT ![s] =
                <<IF s \in Hosts THEN Request("host.register", room, token, NoPeer)
                  ELSE Request("room.join", room, NoToken, NoPeer)>>]
           /\ incomplete => OthersQuiet(s)
           /\ sends' = IF incomplete THEN [sends EXCEPT ![s] = MaxSends] ELSE sends
  /\ UNCHANGED <<hubVars, sess, todo, outbox>>

\* wsSend: nothing is sent on a socket that is not open.
PageSends(s, requests) ==
  inbox' = IF conn[s] = "open" THEN [inbox EXCEPT ![s] = @ \o requests] ELSE inbox

\* The page is closed or the network fails: some of what it sent last is lost,
\* and so is all it was sent.
Disconnect(s) ==
  /\ conn[s] = "open"
  /\ conn' = [conn EXCEPT ![s] = "closing"]
  /\ outbox' = [outbox EXCEPT ![s] = <<>>]
  /\ \E n \in 0..Len(inbox[s]) : inbox' = [inbox EXCEPT ![s] = SubSeq(@, 1, n)]
  /\ UNCHANGED <<hubVars, sess, todo, sends>>

\* Any client that keeps to its role and its room.  A webrtc.ice is relayed as an
\* offer or an answer is.
LaterRequests(s) ==
  IF s \in Hosts
  THEN {Request("session.end", PageRoom[s], token, NoPeer) : token \in Tokens}
         \cup {Request("webrtc.offer", PageRoom[s], token, id) :
                 token \in Tokens, id \in ViewerIds}
  ELSE {Request("webrtc.answer", PageRoom[s], NoToken, HostId)}

\* Bound: MaxSends messages, all of one client and of the LaterTypes.
ClientSends(s, m) ==
  /\ m.type \in LaterTypes
  /\ conn[s] = "open" /\ sends[s] < MaxSends /\ OthersQuiet(s)
  /\ sends' = [sends EXCEPT ![s] = @ + 1]
  /\ PageSends(s, <<m>>)
  /\ UNCHANGED <<hubVars, conn, sess, todo, outbox>>

ClientReceives(s) ==
  /\ conn[s] = "open" /\ outbox[s] # <<>>
  /\ outbox' = [outbox EXCEPT ![s] = Tail(@)]
  /\ UNCHANGED <<hubVars, conn, sess, todo, inbox, sends>>

----------------------------------------------------------------------------
NewSession == [room |-> NoRoom, peerId |-> NoPeer, isHost |-> FALSE, hostToken |-> NoToken]

ServerInit ==
  /\ HubInit
  /\ conn = [s \in Sessions |-> "none"]
  /\ sess = [s \in Sessions |-> NewSession]
  /\ todo = [s \in Sessions |-> <<>>]
  /\ inbox = [s \in Sessions |-> <<>>]
  /\ outbox = [s \in Sessions |-> <<>>]
  /\ sends = [s \in Sessions |-> 0]

ServerNext ==
  \E s \in Sessions :
    \/ ServerStep(s)
    \/ \E token \in Tokens \cup {NoToken} : Connect(s, token)
    \/ Disconnect(s)
    \/ \E m \in LaterRequests(s) : ClientSends(s, m)
    \/ ClientReceives(s)

\* Each io_context thread keeps running ready handlers, and a broken
\* connection is reported to its pending read.
ServerFairness == \A s \in Sessions : WF_serverVars(ServerStep(s))

ServerSpec == ServerInit /\ [][ServerNext]_serverVars /\ ServerFairness

----------------------------------------------------------------------------
(* Properties *)

Requests ==
  [type : {"host.register", "room.join", "session.end"} \cup Relayed,
   room : Rooms \cup {NoRoom}, token : Tokens \cup {NoToken}, to : Peers \cup {NoPeer}]

Messages ==
  [type : {"host.registered", "room.joined", "peer.joined", "peer.left", "session.ended",
           "session.end.ack", "error"} \cup Relayed,
   arg : Peers \cup {NoPeer, "", "host_stopped", "host_disconnected", "BAD_REQUEST",
          "HOST_ALREADY_EXISTS", "ROOM_NOT_FOUND", "ROOM_FULL", "UNAUTHORIZED_HOST"}]

Calls ==
  [op : {"send"}, to : (SUBSET Sessions) \ {{}}, msg : Messages] \cup
  [op : {"find"}, room : Rooms, peer : Peers \cup {AllViewers}, msg : Messages]

SessionTypeOK ==
  /\ conn \in [Sessions -> {"none", "open", "closing", "closed"}]
  /\ sess \in [Sessions -> [room : Rooms \cup {NoRoom}, peerId : Peers \cup {NoPeer},
                            isHost : BOOLEAN, hostToken : Tokens \cup {NoToken}]]
  /\ todo \in [Sessions -> Seq(Calls)]
  /\ inbox \in [Sessions -> Seq(Requests)]
  /\ outbox \in [Sessions -> Seq(Messages)]
  /\ sends \in [Sessions -> 0..MaxSends]

ServerTypeOK == HubTypeOK /\ SessionTypeOK

\* The hub never refers to a session that will not leave it: behind each entry
\* is a session that is still being read, that knows the room and the id it is
\* entered under, and that will therefore call Leave with exactly these
\* (ws_session.cpp:50-54).  With this, no weak reference of the hub ever
\* expires, whatever the pages and the network do.
HostEntryOwned ==
  \A r \in Rooms : hostOf[r] # NoSession =>
    LET s == hostOf[r]
    IN  Reading(s) /\ sess[s].room = r /\ sess[s].peerId = HostId /\ sess[s].isHost

ViewerEntryOwned ==
  \A r \in Rooms, id \in ViewerIds : viewersOf[r][id] # NoSession =>
    LET s == viewersOf[r][id]
    IN  Reading(s) /\ sess[s].room = r /\ sess[s].peerId = id /\ ~sess[s].isHost

EntriesOwned == ServerTypeOK /\ HostEntryOwned /\ ViewerEntryOwned

\* A host is never told that a peer left before it is told that it joined, in
\* spite of the two lookups being made by different handlers and the posts by
\* different threads (ws_session_handlers.cpp:98-102, ws_hub.cpp:104-129): once
\* a peer.left is on its way, no peer.joined for that id is.
Announcing(id) ==
  \E s \in Sessions : \E i \in DOMAIN todo[s] : todo[s][i].msg = PeerJoined(id)
NoLateJoin ==
  \A s \in Sessions : \A i, j \in DOMAIN outbox[s], id \in ViewerIds :
    outbox[s][i] = PeerLeft(id)
      => ~Announcing(id) /\ (outbox[s][j] = PeerJoined(id) => j < i)

\* The server keeps the promise of RoomRegistry: who is in which room changes
\* only as that specification allows, through all the interleavings of the
\* handlers: a full room refuses, nobody is put out of a room but by its host's
\* leave (or, where host pages overlap, by that of one that was turned away), and
\* the next host finds the room empty.  It needs IdsCollide = FALSE: an id drawn
\* twice puts a viewer out.
Registry == INSTANCE RoomRegistry WITH
  online  <- {s \in Sessions : conn[s] = "open"},
  left    <- {s \in Sessions : conn[s] \in {"closing", "closed"}},
  host    <- hostOf,
  members <- [r \in Rooms |-> {viewersOf[r][id] : id \in Entries(r)}]

KeepsRegistry == Registry!RegistrySafety

\* Something waits for session s: a call of its running handler, a request, the
\* error of a closed connection, its own end.
Busy(s) ==
  \/ todo[s] # <<>>
  \/ conn[s] = "closing"
  \/ conn[s] = "open" /\ inbox[s] # <<>>
  \/ ~Held(s) /\ s \notin freed

\* What the steps of s ask for, guard by guard: a request has a handler and a
\* viewer that is let in draws an id, the identity that leaves is one that can be
\* entered, a message still goes to somebody.
CanHandle(s, m) ==
  \/ m.type \in {"host.register", "session.end"} \cup Relayed
  \/ /\ m.type = "room.join"
     /\ m.room # NoRoom /\ HasHost(m.room) /\ HasSpace(m.room) => DrawnIds # {}
CanLeave(s) ==
  sess[s].room \in rooms /\ sess[s].peerId # NoPeer => sess[s].peerId \in Peers

Ready(s) ==
  \/ Reading(s) /\ todo[s] = <<>> /\ inbox[s] # <<>> /\ CanHandle(s, Head(inbox[s]))
  \/ conn[s] = "closing" /\ todo[s] = <<>> /\ inbox[s] = <<>> /\ CanLeave(s)
  \/ todo[s] # <<>> /\ Head(todo[s]).op = "send" /\ Head(todo[s]).to # {}
  \/ todo[s] # <<>> /\ Head(todo[s]).op = "find"
  \/ ~Held(s) /\ s \notin freed

\* As long as a page that is gone is not forgotten, the server has something left
\* to do: no session waits for a call that nobody makes, is kept alive by a
\* message nobody delivers, or stays in the hub (ws_session.cpp:36-54,
\* ws_hub.cpp:94-131).
GoneIsForgotten ==
  (\E s \in Sessions : conn[s] \in {"closing", "closed"} /\ s \notin freed)
    => \E s \in Sessions : Ready(s)

\* Nothing outlives the pages: a room goes with its last member, viewers go with
\* their host (ws_hub.cpp:106-120), and a page that is gone is forgotten.
NothingLeftBehind == RoomsAreInhabited /\ GoneIsForgotten

\* A session that something waits for takes a step: whatever the page sent and
\* whenever it went, a handler is found for each request, comes to its end over
\* all its calls, and the end of the connection is noticed
\* (ws_session.cpp:36-61, ws_session_handlers.cpp:21-47).
HandlersNeverBlock == \A s \in Sessions : Busy(s) => ENABLED ServerStep(s)
=============================================================================
