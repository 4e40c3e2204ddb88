--------------------------- MODULE RoomRegistry ----------------------------
(***************************************************************************)
(* What the signaling server promises about rooms, without sessions'       *)
(* handlers, messages, ids or a lock: "one host + multiple viewers per     *)
(* room".  A page enters a room once and leaves it when its connection is  *)
(* gone, or, for a viewer, when the host leaves.  Where host pages of a    *)
(* room may overlap the promise is weaker: one that was turned away takes  *)
(* the host along when it goes.  WsSession implements this (its Registry   *)
(* instance).                                                              *)
(***************************************************************************)
EXTENDS Integers, FiniteSets

CONSTANTS Rooms, Sessions, Hosts, MaxViewers, NoSession, HostsOverlap

VARIABLES
  online,    \* the pages whose connection is up
  left,      \* the pages whose connection is gone
  host,      \* host[r]: the host of room r
  members    \* members[r]: the viewers in room r

registryVars == <<online, left, host, members>>

Inside(s) == \E r \in Rooms : host[r] = s \/ s \in members[r]

\* A page comes back under a new session only.
ComeOnline(s) ==
  /\ online' = online \cup {s}
  /\ UNCHANGED <<left, host, members>>

GoOffline(s) ==
  /\ online' = online \ {s} /\ left' = left \cup {s}
  /\ UNCHANGED <<host, members>>

\* A room has one host at a time, and starts empty.
HostEnters(r, s) ==
  /\ host[r] = NoSession /\ members[r] = {} /\ ~Inside(s)
  /\ host' = [host EXCEPT ![r] = s]
  /\ UNCHANGED <<online, left, members>>

ViewerEnters(r, s) ==
  /\ host[r] # NoSession /\ Cardinality(members[r]) < MaxViewers /\ ~Inside(s)
  /\ members' = [members EXCEPT ![r] = @ \cup {s}]
  /\ UNCHANGED <<online, left, host>>

\* Nobody is put out of a room: a viewer leaves because it is gone,
ViewerLeaves(r, s) ==
  /\ s \in members[r]
  /\ members' = [members EXCEPT ![r] = @ \ {s}]
  /\ UNCHANGED <<online, left, host>>

\* or with the host, which leaves because it is gone, or another host page is
\* where they overlap.
HostLeaves(r, s) ==
  /\ host[r] # NoSession /\ (host[r] = s \/ HostsOverlap)
  /\ host' = [host EXCEPT ![r] = NoSession]
  /\ members' = [members EXCEPT ![r] = {}]
  /\ UNCHANGED <<online, left>>

RegistryInit ==
  /\ online = {} /\ left = {}
  /\ host = [r \in Rooms |-> NoSession]
  /\ members = [r \in Rooms |-> {}]

RegistryNext ==
  \/ \E s \in Sessions \ (online \cup left) : ComeOnline(s)
  \/ \E s \in online : GoOffline(s)
  \/ \E r \in Rooms :
       \/ \E s \in Hosts : HostEnters(r, s)
       \/ \E s \in Sessions \ Hosts : ViewerEnters(r, s)
       \/ \E s \in left \ Hosts : ViewerLeaves(r, s)
       \/ \E s \in left \cap Hosts : HostLeaves(r, s)

RegistrySafety == RegistryInit /\ [][RegistryNext]_registryVars
=============================================================================
