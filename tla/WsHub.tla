------------------------------- MODULE WsHub -------------------------------
(***************************************************************************)
(* The signaling hub of the local server (src/core/server/ws_hub.cpp): the *)
(* table rooms_ behind one mutex.  Every action is one critical section of *)
(* a WsHub method; what a method sends after it has released the mutex     *)
(* belongs to the calling session and is modelled in WsSession.            *)
(*                                                                         *)
(* The table holds weak references.  A reference to a session that was     *)
(* destroyed is "expired": the entry is still there, but lock() finds      *)
(* nothing behind it.  freed is the set of the destroyed sessions.         *)
(***************************************************************************)
EXTENDS Integers, FiniteSets

CONSTANTS
  Rooms,        \* non-empty room names
  Sessions,     \* WsSession objects
  ViewerIds,    \* the ids GenViewerId can draw
  MaxViewers,   \* maxViewersPerRoom_
  NoSession     \* an empty weak_ptr, or no entry at all

HostId == "host"

ASSUME MaxViewersAssumption == MaxViewers \in Nat
ASSUME ViewerIdsAssumption  == IsFiniteSet(ViewerIds) /\ HostId \notin ViewerIds
ASSUME NoSessionAssumption  == NoSession \notin Sessions

VARIABLES
  rooms,        \* the keys of rooms_
  hostOf,       \* hostOf[r]: RoomState::host
  viewersOf,    \* viewersOf[r][id]: RoomState::viewers, NoSession where id is no key
  freed         \* the sessions already destroyed

hubVars == <<rooms, hostOf, viewersOf, freed>>

Reference == Sessions \cup {NoSession}

HubTypeOK ==
  /\ rooms \subseteq Rooms
  /\ hostOf \in [Rooms -> Reference]
  /\ viewersOf \in [Rooms -> [ViewerIds -> Reference]]
  /\ freed \subseteq Sessions

----------------------------------------------------------------------------
\* weak_ptr::expired()
Expired(ref) == ref \notin Sessions \ freed

NoViewers == [id \in ViewerIds |-> NoSession]

Entries(r)     == {id \in ViewerIds : viewersOf[r][id] # NoSession}
LiveEntries(r) == {id \in ViewerIds : ~Expired(viewersOf[r][id])}

\* The viewers table PruneExpiredViewers leaves behind; the count it returns
\* is Cardinality(LiveEntries(r)).
PruneExpiredViewers(r) ==
  [id \in ViewerIds |->
     IF Expired(viewersOf[r][id]) THEN NoSession ELSE viewersOf[r][id]]

\* The sessions behind the live entries: what Leave and BroadcastViewers
\* collect under the lock.
LiveViewers(r) == {viewersOf[r][id] : id \in LiveEntries(r)}

\* What ForwardTo finds under the lock: one session, or none.
Lookup(r, peer) ==
  LET ref == IF peer = HostId THEN hostOf[r]
             ELSE IF peer \in ViewerIds THEN viewersOf[r][peer] ELSE NoSession
  IN  IF Expired(ref) THEN {} ELSE {ref}

----------------------------------------------------------------------------
CanRegister(r) == Expired(hostOf[r])

RegisterHost(r, s) ==
  /\ CanRegister(r)
  /\ rooms' = rooms \cup {r}
  /\ hostOf' = [hostOf EXCEPT ![r] = s]
  /\ viewersOf' = [viewersOf EXCEPT ![r] = PruneExpiredViewers(r)]
  /\ UNCHANGED freed

HasHost(r) == r \in rooms /\ ~Expired(hostOf[r])
HasSpaceForOneMore(r) == Cardinality(LiveEntries(r)) <= MaxViewers   \* seeded fault: off by one
HasSpace(r) == Cardinality(LiveEntries(r)) < MaxViewers

\* id is the random draw of GenViewerId; an entry under that id is overwritten.
JoinViewer(r, s, id) ==
  /\ HasHost(r) /\ HasSpace(r)
  /\ viewersOf' = [viewersOf EXCEPT ![r] = [PruneExpiredViewers(r) EXCEPT ![id] = s]]
  /\ UNCHANGED <<rooms, hostOf, freed>>

\* ROOM_FULL: the method returns an error but has pruned the table.
JoinFull(r) ==
  /\ HasHost(r) /\ ~HasSpace(r)
  /\ viewersOf' = [viewersOf EXCEPT ![r] = PruneExpiredViewers(r)]
  /\ UNCHANGED <<rooms, hostOf, freed>>

\* Seeded fault: the viewers stay in the room the host has left.
LeaveHostOnly(r) ==
  /\ r \in rooms
  /\ rooms' = IF Entries(r) = {} THEN rooms \ {r} ELSE rooms
  /\ hostOf' = [hostOf EXCEPT ![r] = NoSession]
  /\ UNCHANGED <<viewersOf, freed>>

\* Seeded fault: an empty room stays in the table.
LeaveHostKeepsRoom(r) ==
  /\ r \in rooms
  /\ hostOf' = [hostOf EXCEPT ![r] = NoSession]
  /\ viewersOf' = [viewersOf EXCEPT ![r] = NoViewers]
  /\ UNCHANGED <<rooms, freed>>

\* The host's departure empties the room; the entry of the room is erased.
LeaveHost(r) ==
  /\ r \in rooms
  /\ rooms' = rooms \ {r}
  /\ hostOf' = [hostOf EXCEPT ![r] = NoSession]
  /\ viewersOf' = [viewersOf EXCEPT ![r] = NoViewers]
  /\ UNCHANGED freed

\* The room is erased when nobody is left: an expired host does not keep it,
\* an expired viewer entry does.
LeaveViewer(r, id) ==
  LET rest  == [viewersOf[r] EXCEPT ![id] = NoSession]
      erase == Expired(hostOf[r]) /\ rest = NoViewers
  IN  /\ r \in rooms
      /\ viewersOf' = [viewersOf EXCEPT ![r] = rest]
      /\ rooms' = IF erase THEN rooms \ {r} ELSE rooms
      /\ hostOf' = IF erase THEN [hostOf EXCEPT ![r] = NoSession] ELSE hostOf
      /\ UNCHANGED freed

Leave(r, peer) ==
  \/ r \notin rooms /\ UNCHANGED hubVars
  \/ peer = HostId /\ LeaveHost(r)
  \/ peer \in ViewerIds /\ LeaveViewer(r, peer)

\* The last shared_ptr to s is dropped.
Free(s) ==
  /\ s \notin freed
  /\ freed' = freed \cup {s}
  /\ UNCHANGED <<rooms, hostOf, viewersOf>>

----------------------------------------------------------------------------
HubInit ==
  /\ rooms = {}
  /\ hostOf = [r \in Rooms |-> NoSession]
  /\ viewersOf = [r \in Rooms |-> NoViewers]
  /\ freed = {}

\* Any caller, any order of calls: a caller holds a shared_ptr to the session
\* it passes, so that session is not destroyed.
HubNext ==
  \/ \E r \in Rooms, s \in Sessions \ freed : RegisterHost(r, s)
  \/ \E r \in Rooms, s \in Sessions \ freed, id \in ViewerIds : JoinViewer(r, s, id)
  \/ \E r \in Rooms : JoinFull(r)
  \/ \E r \in Rooms : LeaveHost(r)
  \/ \E r \in Rooms, id \in ViewerIds : LeaveViewer(r, id)
  \/ \E s \in Sessions : Free(s)

HubSpec == HubInit /\ [][HubNext]_hubVars

----------------------------------------------------------------------------
\* A room never holds more viewer entries than its limit, the expired ones
\* included: JoinViewer prunes before it counts and inserts after it counted
\* (ws_hub.cpp:83-90), and no path inserts otherwise.
Capacity == \A r \in Rooms : Cardinality(Entries(r)) <= MaxViewers

\* rooms_ never keeps a room that nobody refers to any more, and nothing is
\* referred to from a room that is not in the table: the erase at the end of
\* Leave (ws_hub.cpp:118-120) is enough although a viewer may leave before or
\* after its host's session was destroyed.
NoEmptyRoom ==
  \A r \in Rooms : r \in rooms <=> (hostOf[r] # NoSession \/ Entries(r) # {})

\* No viewer is in a room that has no host: a viewer enters under a host and
\* the host takes the viewers along (ws_hub.cpp:77-79, 106-112).  In the hub by
\* itself an expired host may still be followed by viewers.
NoOrphanViewers ==
  \A r \in Rooms : Entries(r) # {} => hostOf[r] # NoSession

\* Both: the rooms of the table are those with a host, and only they have viewers.
RoomsAreInhabited == NoEmptyRoom /\ NoOrphanViewers

\* While the session of the host lives, nobody takes its place: the room first
\* has to lose its host (ws_hub.cpp:56-61), and it then loses its viewers in
\* the same step (ws_hub.cpp:111-112).
HostReplacedOnlyAfterLeave ==
  [][\A r \in Rooms :
       ~Expired(hostOf[r]) /\ hostOf'[r] # hostOf[r]
         => hostOf'[r] = NoSession /\ viewersOf'[r] = NoViewers]_hubVars

\* A viewer gets in only while a live host is there, and getting in never
\* removes another live viewer that has another id (ws_hub.cpp:77-90).
EntersOnlyUnderLiveHost ==
  [][\A r \in Rooms, id \in ViewerIds :
       ~Expired(viewersOf'[r][id]) /\ viewersOf'[r][id] # viewersOf[r][id]
         => /\ ~Expired(hostOf[r])
            /\ \A other \in LiveEntries(r) \ {id} : viewersOf'[r][other] = viewersOf[r][other]
    ]_hubVars
=============================================================================
