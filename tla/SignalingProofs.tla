-------------------------- MODULE SignalingProofs --------------------------
(***************************************************************************)
(* Proofs about the signaling, in three parts, each built on the one       *)
(* before it: the hub under any order of calls (HubSpec), the server       *)
(* around it with any client that keeps to its role and its room           *)
(* (ServerSpec), and the server together with the pages (Spec).  They hold *)
(* for any rooms, sessions, ids, tokens and limits.                        *)
(***************************************************************************)
EXTENDS Signaling, FiniteSetTheorems, SequenceTheorems, TLAPS

----------------------------------------------------------------------------
(* The hub *)

(***************************************************************************)
(* Type correctness of rooms_ under every hub operation.                   *)
(***************************************************************************)
LEMMA HubTypeInit == HubInit => HubTypeOK
  BY DEF HubInit, HubTypeOK, Reference, NoViewers

LEMMA PruneType ==
  ASSUME HubTypeOK, NEW r \in Rooms
  PROVE  PruneExpiredViewers(r) \in [ViewerIds -> Reference]
  BY DEF HubTypeOK, PruneExpiredViewers, Reference

LEMMA HubTypeStep == HubTypeOK /\ [HubNext]_hubVars => HubTypeOK'
<1> SUFFICES ASSUME HubTypeOK, [HubNext]_hubVars PROVE HubTypeOK'
  OBVIOUS
<1> USE DEF HubTypeOK
<1>1. ASSUME NEW r \in Rooms, NEW s \in Sessions \ freed, RegisterHost(r, s) PROVE HubTypeOK'
  BY <1>1, PruneType DEF RegisterHost, Reference
<1>2. ASSUME NEW r \in Rooms, NEW s \in Sessions \ freed, NEW id \in ViewerIds, JoinViewer(r, s, id)
      PROVE  HubTypeOK'
  <2>1. [PruneExpiredViewers(r) EXCEPT ![id] = s] \in [ViewerIds -> Reference]
    BY PruneType DEF Reference
  <2> QED BY <1>2, <2>1 DEF JoinViewer
<1>3. ASSUME NEW r \in Rooms, JoinFull(r) PROVE HubTypeOK'
  BY <1>3, PruneType DEF JoinFull
<1>4. ASSUME NEW r \in Rooms, LeaveHost(r) PROVE HubTypeOK'
  BY <1>4 DEF LeaveHost, NoViewers, Reference
<1>5. ASSUME NEW r \in Rooms, NEW id \in ViewerIds, LeaveViewer(r, id) PROVE HubTypeOK'
  <2>1. [viewersOf[r] EXCEPT ![id] = NoSession] \in [ViewerIds -> Reference]
    BY DEF Reference
  <2> QED BY <1>5, <2>1 DEF LeaveViewer, Reference
<1>6. ASSUME NEW s \in Sessions, Free(s) PROVE HubTypeOK'
  BY <1>6 DEF Free
<1>7. CASE UNCHANGED hubVars
  BY <1>7 DEF hubVars
<1> QED BY <1>1, <1>2, <1>3, <1>4, <1>5, <1>6, <1>7 DEF HubNext

THEOREM HubTypeCorrect == HubSpec => []HubTypeOK
  BY HubTypeInit, HubTypeStep, PTL DEF HubSpec

(***************************************************************************)
(* The capacity of a room.                                                 *)
(***************************************************************************)
LEMMA FewerEntries ==
  ASSUME NEW S \in SUBSET ViewerIds, NEW T \in SUBSET S, Cardinality(S) <= MaxViewers
  PROVE  Cardinality(T) <= MaxViewers
<1>1. IsFiniteSet(S)
  BY FS_Subset, ViewerIdsAssumption
<1>2. Cardinality(T) <= Cardinality(S) /\ IsFiniteSet(T)
  BY <1>1, FS_Subset
<1> QED BY <1>1, <1>2, FS_CardinalityType, MaxViewersAssumption

LEMMA OneMoreEntry ==
  ASSUME NEW S \in SUBSET ViewerIds, NEW id \in ViewerIds, Cardinality(S) < MaxViewers
  PROVE  Cardinality(S \cup {id}) <= MaxViewers
<1>1. IsFiniteSet(S)
  BY FS_Subset, ViewerIdsAssumption
<1>2. Cardinality(S \cup {id}) <= Cardinality(S) + 1
  BY <1>1, FS_AddElement, FS_CardinalityType
<1>3. IsFiniteSet(S \cup {id})
  BY <1>1, FS_AddElement
<1> QED BY <1>1, <1>2, <1>3, FS_CardinalityType, MaxViewersAssumption

\* A prune only removes entries, and what it leaves are the live ones.
LEMMA PruneKeepsLive ==
  ASSUME NEW r \in Rooms, NEW id \in ViewerIds
  PROVE  /\ PruneExpiredViewers(r)[id] # NoSession => id \in LiveEntries(r)
         /\ id \in LiveEntries(r) => id \in Entries(r)
  BY NoSessionAssumption DEF PruneExpiredViewers, LiveEntries, Entries, Expired

\* Any other room than the one operated on keeps its entries.
LEMMA CapacityOfOthers ==
  ASSUME HubTypeOK, Capacity, NEW r \in Rooms, NEW table,
         viewersOf' = [viewersOf EXCEPT ![r] = table],
         Cardinality({id \in ViewerIds : table[id] # NoSession}) <= MaxViewers
  PROVE  Capacity'
<1> SUFFICES ASSUME NEW q \in Rooms PROVE Cardinality(Entries(q)') <= MaxViewers
  BY DEF Capacity
<1>1. CASE q = r
  <2>1. viewersOf'[q] = table
    BY <1>1 DEF HubTypeOK
  <2>2. Entries(q)' = {id \in ViewerIds : table[id] # NoSession}
    BY <2>1 DEF Entries
  <2> QED BY <2>2
<1>2. CASE q # r
  <2>1. viewersOf'[q] = viewersOf[q]
    BY <1>2 DEF HubTypeOK
  <2>2. Entries(q)' = Entries(q)
    BY <2>1 DEF Entries
  <2> QED BY <2>2 DEF Capacity
<1> QED BY <1>1, <1>2

LEMMA CapacityPruned ==
  ASSUME HubTypeOK, Capacity, NEW r \in Rooms,
         viewersOf' = [viewersOf EXCEPT ![r] = PruneExpiredViewers(r)]
  PROVE  Capacity'
<1> DEFINE kept == {id \in ViewerIds : PruneExpiredViewers(r)[id] # NoSession}
<1>1. kept \subseteq Entries(r)
  BY PruneKeepsLive
<1>2. Cardinality(kept) <= MaxViewers
  BY <1>1, FewerEntries DEF Capacity, Entries
<1> QED BY <1>2, CapacityOfOthers

LEMMA CapacityStep == HubTypeOK /\ Capacity /\ [HubNext]_hubVars => Capacity'
<1> SUFFICES ASSUME HubTypeOK, Capacity, [HubNext]_hubVars PROVE Capacity'
  OBVIOUS
<1>1. ASSUME NEW r \in Rooms, NEW s \in Sessions \ freed, RegisterHost(r, s) PROVE Capacity'
  BY <1>1, CapacityPruned DEF RegisterHost
<1>2. ASSUME NEW r \in Rooms, NEW s \in Sessions \ freed, NEW id \in ViewerIds, JoinViewer(r, s, id)
      PROVE  Capacity'
  <2> DEFINE table == [PruneExpiredViewers(r) EXCEPT ![id] = s]
             kept  == {i \in ViewerIds : table[i] # NoSession}
  <2>1. kept \subseteq LiveEntries(r) \cup {id}
    BY PruneKeepsLive DEF PruneExpiredViewers
  <2>2. Cardinality(LiveEntries(r) \cup {id}) <= MaxViewers
    BY <1>2, OneMoreEntry DEF JoinViewer, HasSpace, LiveEntries
  <2>3. Cardinality(kept) <= MaxViewers
    BY <2>1, <2>2, FewerEntries DEF LiveEntries
  <2> QED BY <1>2, <2>3, CapacityOfOthers DEF JoinViewer
<1>3. ASSUME NEW r \in Rooms, JoinFull(r) PROVE Capacity'
  BY <1>3, CapacityPruned DEF JoinFull
<1>4. ASSUME NEW r \in Rooms, LeaveHost(r) PROVE Capacity'
  <2>1. {id \in ViewerIds : NoViewers[id] # NoSession} = {}
    BY DEF NoViewers
  <2>2. Cardinality({id \in ViewerIds : NoViewers[id] # NoSession}) <= MaxViewers
    BY <2>1, FS_EmptySet, MaxViewersAssumption
  <2> QED BY <1>4, <2>2, CapacityOfOthers DEF LeaveHost
<1>5. ASSUME NEW r \in Rooms, NEW id \in ViewerIds, LeaveViewer(r, id) PROVE Capacity'
  <2> DEFINE table == [viewersOf[r] EXCEPT ![id] = NoSession]
             kept  == {i \in ViewerIds : table[i] # NoSession}
  <2>1. kept \subseteq Entries(r)
    BY DEF Entries, HubTypeOK
  <2>2. Cardinality(kept) <= MaxViewers
    BY <2>1, FewerEntries DEF Capacity, Entries
  <2> QED BY <1>5, <2>2, CapacityOfOthers DEF LeaveViewer
<1>6. ASSUME UNCHANGED viewersOf PROVE Capacity'
  BY <1>6 DEF Capacity, Entries
<1> QED BY <1>1, <1>2, <1>3, <1>4, <1>5, <1>6 DEF HubNext, Free, hubVars

\* A room never has more viewer entries than its limit, whoever calls the hub
\* and in whatever order.
THEOREM HubCapacity == HubSpec => []Capacity
<1>1. HubInit => Capacity
  <2> SUFFICES ASSUME HubInit, NEW r \in Rooms PROVE Cardinality(Entries(r)) <= MaxViewers
    BY DEF Capacity
  <2>1. Entries(r) = {}
    BY DEF HubInit, Entries, NoViewers
  <2> QED BY <2>1, FS_EmptySet, MaxViewersAssumption
<1> QED BY <1>1, CapacityStep, HubTypeCorrect, PTL DEF HubSpec

(***************************************************************************)
(* The rooms of the table.                                                 *)
(***************************************************************************)
\* A key in rooms_ and what hangs from it change together: every other room is
\* as it was, so one room has to be looked at.
LEMMA OtherRoomsKept ==
  ASSUME HubTypeOK, NoEmptyRoom, NEW r \in Rooms,
         \A q \in Rooms \ {r} :
           /\ q \in rooms' <=> q \in rooms
           /\ hostOf'[q] = hostOf[q] /\ viewersOf'[q] = viewersOf[q],
         r \in rooms' <=> (hostOf'[r] # NoSession \/ \E id \in ViewerIds : viewersOf'[r][id] # NoSession)
  PROVE  NoEmptyRoom'
<1> SUFFICES ASSUME NEW q \in Rooms
             PROVE  q \in rooms' <=> (hostOf'[q] # NoSession \/ Entries(q)' # {})
  BY DEF NoEmptyRoom
<1>1. CASE q = r
  BY <1>1 DEF Entries
<1>2. CASE q # r
  BY <1>2 DEF Entries, NoEmptyRoom
<1> QED BY <1>1, <1>2

LEMMA NoEmptyRoomStep == HubTypeOK /\ NoEmptyRoom /\ [HubNext]_hubVars => NoEmptyRoom'
<1> SUFFICES ASSUME HubTypeOK, NoEmptyRoom, [HubNext]_hubVars PROVE NoEmptyRoom'
  OBVIOUS
<1>1. ASSUME NEW r \in Rooms, NEW s \in Sessions \ freed, RegisterHost(r, s) PROVE NoEmptyRoom'
  <2>1. r \in rooms' /\ hostOf'[r] # NoSession
    BY <1>1, NoSessionAssumption DEF RegisterHost, HubTypeOK
  <2> QED BY <1>1, <2>1, OtherRoomsKept DEF RegisterHost, HubTypeOK
<1>2. ASSUME NEW r \in Rooms, HasHost(r), UNCHANGED <<rooms, hostOf, freed>>, NEW table,
             viewersOf' = [viewersOf EXCEPT ![r] = table]
      PROVE  NoEmptyRoom'
  <2>1. r \in rooms' /\ hostOf'[r] # NoSession
    BY <1>2, NoSessionAssumption DEF HasHost, Expired
  <2> QED BY <1>2, <2>1, OtherRoomsKept DEF HubTypeOK
<1>3. ASSUME NEW r \in Rooms, LeaveHost(r) PROVE NoEmptyRoom'
  <2>1. r \notin rooms' /\ hostOf'[r] = NoSession /\ viewersOf'[r] = NoViewers
    BY <1>3 DEF LeaveHost, HubTypeOK
  <2> QED BY <1>3, <2>1, OtherRoomsKept DEF LeaveHost, HubTypeOK, NoViewers
<1>4. ASSUME NEW r \in Rooms, NEW id \in ViewerIds, LeaveViewer(r, id) PROVE NoEmptyRoom'
  <2> DEFINE rest == [viewersOf[r] EXCEPT ![id] = NoSession]
  <2>1. viewersOf'[r] = rest /\ rest \in [ViewerIds -> Reference] /\ r \in rooms
    BY <1>4 DEF LeaveViewer, HubTypeOK, Reference
  <2>2. (\A i \in ViewerIds : rest[i] = NoSession) => rest = NoViewers
    BY <2>1 DEF NoViewers
  <2>3. CASE Expired(hostOf[r]) /\ rest = NoViewers
    <3>1. r \notin rooms' /\ hostOf'[r] = NoSession
      BY <1>4, <2>3 DEF LeaveViewer, HubTypeOK
    <3> QED BY <1>4, <2>1, <2>3, <3>1, OtherRoomsKept DEF LeaveViewer, HubTypeOK, NoViewers
  <2>4. CASE ~(Expired(hostOf[r]) /\ rest = NoViewers)
    <3>1. UNCHANGED <<rooms, hostOf>>
      BY <1>4, <2>4 DEF LeaveViewer
    <3>2. hostOf'[r] # NoSession \/ \E i \in ViewerIds : viewersOf'[r][i] # NoSession
      BY <2>1, <2>2, <2>4, <3>1, NoSessionAssumption DEF Expired
    <3> QED BY <1>4, <2>1, <3>1, <3>2, OtherRoomsKept DEF LeaveViewer, HubTypeOK
  <2> QED BY <2>3, <2>4
<1>5. ASSUME UNCHANGED <<rooms, hostOf, viewersOf>> PROVE NoEmptyRoom'
  BY <1>5 DEF NoEmptyRoom, Entries
<1>6. ASSUME NEW r \in Rooms, NEW s \in Sessions \ freed, NEW id \in ViewerIds, JoinViewer(r, s, id)
      PROVE  NoEmptyRoom'
  BY <1>6, <1>2 DEF JoinViewer
<1>7. ASSUME NEW r \in Rooms, JoinFull(r) PROVE NoEmptyRoom'
  BY <1>7, <1>2 DEF JoinFull
<1> QED BY <1>1, <1>3, <1>4, <1>5, <1>6, <1>7 DEF HubNext, Free, hubVars

\* rooms_ has a room exactly as long as somebody is entered in it
\* (ws_hub.cpp:63-64, 111-120), whoever calls the hub and in whatever order.
THEOREM HubKeepsNoEmptyRoom == HubSpec => []NoEmptyRoom
<1>1. HubInit => NoEmptyRoom
  BY DEF HubInit, NoEmptyRoom, Entries, NoViewers
<1> QED BY <1>1, NoEmptyRoomStep, HubTypeCorrect, PTL DEF HubSpec

\* A viewer is entered only under a host, and goes when the host goes.
LEMMA NoOrphanStep == HubTypeOK /\ NoOrphanViewers /\ [HubNext]_hubVars => NoOrphanViewers'
<1> SUFFICES ASSUME HubTypeOK, NoOrphanViewers, [HubNext]_hubVars, NEW q \in Rooms, NEW i \in ViewerIds,
                    viewersOf'[q][i] # NoSession
             PROVE  hostOf'[q] # NoSession
  BY DEF NoOrphanViewers, Entries
<1>0. ASSUME viewersOf[q][i] # NoSession PROVE hostOf[q] # NoSession
  BY <1>0 DEF NoOrphanViewers, Entries
<1>1. ASSUME NEW r \in Rooms, NEW s \in Sessions \ freed, RegisterHost(r, s) PROVE hostOf'[q] # NoSession
  BY <1>0, <1>1, NoSessionAssumption DEF RegisterHost, HubTypeOK
<1>2. ASSUME NEW r \in Rooms, NEW s \in Sessions \ freed, NEW id \in ViewerIds, JoinViewer(r, s, id)
      PROVE  hostOf'[q] # NoSession
  <2>1. hostOf[r] # NoSession
    BY <1>2, NoSessionAssumption DEF JoinViewer, HasHost, Expired
  <2> QED BY <1>0, <1>2, <2>1 DEF JoinViewer, HubTypeOK
<1>3. ASSUME NEW r \in Rooms, JoinFull(r) PROVE hostOf'[q] # NoSession
  BY <1>0, <1>3 DEF JoinFull, HubTypeOK, PruneExpiredViewers
<1>4. ASSUME NEW r \in Rooms, LeaveHost(r) PROVE hostOf'[q] # NoSession
  BY <1>0, <1>4 DEF LeaveHost, HubTypeOK, NoViewers
<1>5. ASSUME NEW r \in Rooms, NEW id \in ViewerIds, LeaveViewer(r, id) PROVE hostOf'[q] # NoSession
  BY <1>0, <1>5 DEF LeaveViewer, HubTypeOK, NoViewers
<1>6. ASSUME UNCHANGED <<rooms, hostOf, viewersOf>> PROVE hostOf'[q] # NoSession
  BY <1>0, <1>6
<1> QED BY <1>1, <1>2, <1>3, <1>4, <1>5, <1>6 DEF HubNext, Free, hubVars

\* rooms_ has exactly the rooms that have a host or a viewer, and no viewer is
\* entered in a room without a host (ws_hub.cpp:77-79, 106-120).
THEOREM HubRoomsAreInhabited == HubSpec => []RoomsAreInhabited
<1>1. HubInit => NoOrphanViewers
  BY DEF HubInit, NoOrphanViewers, Entries, NoViewers
<1>2. NoEmptyRoom /\ NoOrphanViewers => RoomsAreInhabited
  BY DEF RoomsAreInhabited
<1> QED BY <1>1, <1>2, NoOrphanStep, HubTypeCorrect, HubKeepsNoEmptyRoom, PTL DEF HubSpec

\* A live host is not replaced: its room first loses it, and its viewers with it
\* (ws_hub.cpp:56-61, 111-112).
THEOREM HubReplacesNoLiveHost == HubSpec => HostReplacedOnlyAfterLeave
<1>1. HubTypeOK /\ [HubNext]_hubVars =>
        [\A r \in Rooms : ~Expired(hostOf[r]) /\ hostOf'[r] # hostOf[r]
           => hostOf'[r] = NoSession /\ viewersOf'[r] = NoViewers]_hubVars
  <2> SUFFICES ASSUME HubTypeOK, HubNext, NEW q \in Rooms, ~Expired(hostOf[q]), hostOf'[q] # hostOf[q]
               PROVE  hostOf'[q] = NoSession /\ viewersOf'[q] = NoViewers
    BY DEF hubVars
  <2>1. ASSUME NEW r \in Rooms, NEW s \in Sessions \ freed, RegisterHost(r, s) PROVE FALSE
    BY <2>1 DEF RegisterHost, CanRegister, HubTypeOK
  <2>2. ASSUME NEW r \in Rooms, LeaveHost(r) PROVE hostOf'[q] = NoSession /\ viewersOf'[q] = NoViewers
    BY <2>2 DEF LeaveHost, HubTypeOK
  <2>3. ASSUME NEW r \in Rooms, NEW id \in ViewerIds, LeaveViewer(r, id) PROVE FALSE
    BY <2>3 DEF LeaveViewer, HubTypeOK
  <2> QED BY <2>1, <2>2, <2>3 DEF HubNext, JoinViewer, JoinFull, Free
<1> QED BY <1>1, HubTypeCorrect, PTL DEF HubSpec, HostReplacedOnlyAfterLeave

\* A viewer gets in under a live host only, and puts no other live viewer out
\* (ws_hub.cpp:77-90).
THEOREM HubAdmitsUnderLiveHost == HubSpec => EntersOnlyUnderLiveHost
<1>1. HubTypeOK /\ [HubNext]_hubVars =>
        [\A r \in Rooms, id \in ViewerIds :
           ~Expired(viewersOf'[r][id]) /\ viewersOf'[r][id] # viewersOf[r][id]
             => /\ ~Expired(hostOf[r])
                /\ \A other \in LiveEntries(r) \ {id} : viewersOf'[r][other] = viewersOf[r][other]]_hubVars
  <2> SUFFICES ASSUME HubTypeOK, HubNext, NEW q \in Rooms, NEW i \in ViewerIds,
                      ~Expired(viewersOf'[q][i]), viewersOf'[q][i] # viewersOf[q][i]
               PROVE  /\ ~Expired(hostOf[q])
                      /\ \A other \in LiveEntries(q) \ {i} : viewersOf'[q][other] = viewersOf[q][other]
    BY DEF hubVars
  <2>1. ~Expired(NoSession) => FALSE
    BY NoSessionAssumption DEF Expired
  <2>2. ASSUME NEW r \in Rooms, NEW s \in Sessions \ freed, NEW id \in ViewerIds, JoinViewer(r, s, id)
        PROVE  /\ ~Expired(hostOf[q])
               /\ \A other \in LiveEntries(q) \ {i} : viewersOf'[q][other] = viewersOf[q][other]
    <3>1. q = r
      BY <2>2 DEF JoinViewer, HubTypeOK
    <3>2. i = id
      BY <2>1, <2>2, <3>1 DEF JoinViewer, HubTypeOK, PruneExpiredViewers
    <3>3. ~Expired(hostOf[q])
      BY <2>2, <3>1 DEF JoinViewer, HasHost
    <3>4. ASSUME NEW other \in LiveEntries(q) \ {i} PROVE viewersOf'[q][other] = viewersOf[q][other]
      BY <2>2, <3>1, <3>2, <3>4 DEF JoinViewer, HubTypeOK, PruneExpiredViewers, LiveEntries
    <3> QED BY <3>3, <3>4
  <2>3. ASSUME NEW r \in Rooms, viewersOf' = [viewersOf EXCEPT ![r] = PruneExpiredViewers(r)] PROVE FALSE
    BY <2>1, <2>3 DEF HubTypeOK, PruneExpiredViewers
  <2>4. ASSUME NEW r \in Rooms, LeaveHost(r) PROVE FALSE
    BY <2>1, <2>4 DEF LeaveHost, HubTypeOK, NoViewers
  <2>5. ASSUME NEW r \in Rooms, NEW id \in ViewerIds, LeaveViewer(r, id) PROVE FALSE
    BY <2>1, <2>5 DEF LeaveViewer, HubTypeOK
  <2>6. ASSUME NEW r \in Rooms, NEW s \in Sessions \ freed, RegisterHost(r, s) PROVE FALSE
    BY <2>3, <2>6 DEF RegisterHost
  <2>7. ASSUME NEW r \in Rooms, JoinFull(r) PROVE FALSE
    BY <2>3, <2>7 DEF JoinFull
  <2>8. ASSUME NEW s \in Sessions, Free(s) PROVE FALSE
    BY <2>8 DEF Free
  <2> QED BY <2>2, <2>4, <2>5, <2>6, <2>7, <2>8 DEF HubNext
<1> QED BY <1>1, HubTypeCorrect, PTL DEF HubSpec, EntersOnlyUnderLiveHost

----------------------------------------------------------------------------
(* The server *)

(***************************************************************************)
(* What pages can do to their connections.  The clients of WsSession and   *)
(* the pages of Signaling do nothing else, so the server is proved about   *)
(* once for both.                                                          *)
(***************************************************************************)
FirstRequests(s) ==
  IF s \in Hosts
  THEN {Request("host.register", room, token, NoPeer) :
          room \in {PageRoom[s], NoRoom}, token \in Tokens \cup {NoToken}}
  ELSE {Request("room.join", room, NoToken, NoPeer) : room \in {PageRoom[s], NoRoom}}

\* The socket opens with the first request in it.
PageOpens(s) ==
  /\ conn[s] = "none" /\ MayOpen(s)
  /\ conn' = [conn EXCEPT ![s] = "open"]
  /\ \E m \in FirstRequests(s) : inbox' = [inbox EXCEPT ![s] = <<m>>]
  /\ UNCHANGED <<hubVars, sess, todo, outbox>>

\* The page sends something more.
PageAsks(s) ==
  /\ conn[s] = "open"
  /\ \E m \in LaterRequests(s) : inbox' = [inbox EXCEPT ![s] = Append(@, m)]
  /\ UNCHANGED <<hubVars, conn, sess, todo, outbox>>

\* The connection ends; what is still read is a prefix of what was sent, or all
\* of it with a last request of the page.
PageGoes(s) ==
  /\ conn[s] = "open"
  /\ conn' = [conn EXCEPT ![s] = "closing"]
  /\ outbox' = [outbox EXCEPT ![s] = <<>>]
  /\ \/ \E n \in 0..Len(inbox[s]) : inbox' = [inbox EXCEPT ![s] = SubSeq(@, 1, n)]
     \/ \E m \in LaterRequests(s) : inbox' = [inbox EXCEPT ![s] = Append(@, m)]
  /\ UNCHANGED <<hubVars, sess, todo>>

\* The page takes the next message.
PageTakes(s) ==
  /\ conn[s] = "open" /\ outbox[s] # <<>>
  /\ outbox' = [outbox EXCEPT ![s] = Tail(@)]
  /\ UNCHANGED <<hubVars, conn, sess, todo, inbox>>

PageAct(s) == PageOpens(s) \/ PageAsks(s) \/ PageGoes(s) \/ PageTakes(s)

wireVars == <<hubVars, conn, sess, todo, inbox, outbox>>

AnyStep ==
  \/ \E s \in Sessions : ServerStep(s)
  \/ /\ \/ \E s \in Sessions : PageAct(s)
        \/ UNCHANGED wireVars
     /\ sends' \in [Sessions -> 0..MaxSends]

(***************************************************************************)
(* The inductive invariant of the server.                                  *)
(***************************************************************************)
\* Messages that name a peer name a viewer.
Notices == {m \in Messages : m.type \in {"room.joined", "peer.joined", "peer.left"} => m.arg \in ViewerIds}

SendCalls   == [op : {"send"}, to : (SUBSET Sessions) \ {{}}, msg : Notices]
FindCalls   == [op : {"find"}, room : Rooms, peer : Peers \cup {AllViewers}, msg : Notices]
NoticeCalls == SendCalls \cup FindCalls

Fields == [room : Rooms \cup {NoRoom}, peerId : Peers \cup {NoPeer},
           isHost : BOOLEAN, hostToken : Tokens \cup {NoToken}]

WireTypeOK ==
  /\ conn \in [Sessions -> {"none", "open", "closing", "closed"}]
  /\ sess \in [Sessions -> Fields]
  /\ todo \in [Sessions -> Seq(NoticeCalls)]
  /\ inbox \in [Sessions -> Seq(Requests)]
  /\ outbox \in [Sessions -> Seq(Notices)]
  /\ sends \in [Sessions -> 0..MaxSends]

\* The first request of a client is read before anything else and once.
InboxOK ==
  \A s \in Sessions : \A i \in DOMAIN inbox[s] :
    \/ inbox[s][i] \in LaterRequests(s)
    \/ i = 1 /\ inbox[s][i] \in FirstRequests(s) /\ sess[s] = NewSession

\* A session knows its own room only, and its identity fits its role.
RoleOK(s) ==
  /\ sess[s].room \in {PageRoom[s], NoRoom}
  /\ sess[s].peerId # NoPeer => sess[s].room = PageRoom[s]
  /\ sess[s].isHost <=> sess[s].peerId = HostId
  /\ sess[s].peerId = HostId => s \in Hosts
  /\ sess[s].peerId \in ViewerIds => s \in Viewers
RolesOK == \A s \in Sessions : RoleOK(s)

UntouchedOK ==
  \A s \in Sessions : conn[s] = "none" =>
    sess[s] = NewSession /\ inbox[s] = <<>> /\ outbox[s] = <<>> /\ todo[s] = <<>>

FreedClosed == \A s \in freed : conn[s] = "closed"

ServerInv ==
  /\ HubTypeOK /\ WireTypeOK /\ InboxOK /\ RolesOK /\ UntouchedOK /\ FreedClosed
  /\ HostEntryOwned /\ ViewerEntryOwned /\ RoomsAreInhabited

----------------------------------------------------------------------------
(* Names *)

LEMMA PeerNames ==
  /\ HostId \notin ViewerIds /\ NoPeer \notin ViewerIds /\ NoPeer # HostId
  /\ AllViewers \notin ViewerIds /\ AllViewers # HostId
  /\ HostId \in Peers /\ ViewerIds \subseteq Peers
  /\ NoPeer \notin Peers
  BY ViewerIdsAssumption, NoPeerAssumption, AllViewersAssumption DEF HostId, NoPeer, AllViewers, Peers

(* Calls *)

\* A call that is put before others.
LEMMA CallAhead ==
  ASSUME NEW S, NEW c \in S, NEW q \in Seq(S)
  PROVE  /\ <<c>> \o q \in Seq(S) /\ Len(<<c>> \o q) = Len(q) + 1
         /\ (<<c>> \o q)[1] = c
         /\ \A i \in 1..Len(q) : (<<c>> \o q)[i + 1] = q[i]
  OBVIOUS

LEMMA NothingAhead ==
  ASSUME NEW S, NEW q \in Seq(S)
  PROVE  <<>> \o q = q
  OBVIOUS

LEMMA CallKinds ==
  /\ \A c \in NoticeCalls : c.msg \in Notices
  /\ \A c \in NoticeCalls : c.op = "send" => c \in SendCalls
  /\ \A c \in NoticeCalls : c.op = "find" => c \in FindCalls
  /\ \A c \in NoticeCalls : c.op \in {"send", "find"}
  BY DEF NoticeCalls, SendCalls, FindCalls

LEMMA SendToType ==
  ASSUME NEW to \in SUBSET Sessions, NEW m \in Notices
  PROVE  SendTo(to, m) \in Seq(NoticeCalls)
<1>1. CASE to = {}
  <2>1. SendTo(to, m) = <<>>
    BY <1>1 DEF SendTo
  <2> QED BY <2>1
<1>2. CASE to # {}
  <2>1. [op |-> "send", to |-> to, msg |-> m] \in NoticeCalls
    BY <1>2 DEF NoticeCalls, SendCalls
  <2> QED BY <1>2, <2>1 DEF SendTo
<1> QED BY <1>1, <1>2

LEMMA ForwardType ==
  ASSUME NEW r \in Rooms, NEW p \in Peers \cup {AllViewers}, NEW m \in Notices
  PROVE  Forward(r, p, m) \in Seq(NoticeCalls)
  BY DEF Forward, NoticeCalls, FindCalls

LEMMA NoticeTypes ==
  /\ HostRegistered \in Notices /\ SessionEndAck \in Notices
  /\ \A id \in ViewerIds : RoomJoined(id) \in Notices /\ PeerJoined(id) \in Notices /\ PeerLeft(id) \in Notices
  /\ \A why \in {"host_stopped", "host_disconnected"} : SessionEnded(why) \in Notices
  /\ \A code \in {"BAD_REQUEST", "HOST_ALREADY_EXISTS", "ROOM_NOT_FOUND", "ROOM_FULL", "UNAUTHORIZED_HOST"} :
       Error(code) \in Notices
  /\ \A type \in Relayed, id \in Peers \cup {NoPeer} : Msg(type, id) \in Notices
  BY DEF Notices, Messages, HostRegistered, SessionEndAck, RoomJoined, PeerJoined, PeerLeft,
         SessionEnded, Error, Msg, Relayed, Peers
----------------------------------------------------------------------------
(* What a session does with a message *)

\* Every hub operation of a session in WsHub's words.
LEMMA ReadingNotFreed ==
  ASSUME ServerInv, NEW s \in Sessions, Reading(s)
  PROVE  s \in Sessions \ freed
  BY DEF ServerInv, FreedClosed, Reading

\* Nothing in the hub ever expires.
LEMMA NothingExpires ==
  ASSUME ServerInv, NEW r \in Rooms
  PROVE  /\ Expired(hostOf[r]) <=> hostOf[r] = NoSession
         /\ \A id \in ViewerIds : Expired(viewersOf[r][id]) <=> viewersOf[r][id] = NoSession
         /\ LiveEntries(r) = Entries(r)
         /\ PruneExpiredViewers(r) = viewersOf[r]
<1>1. Expired(NoSession)
  BY NoSessionAssumption DEF Expired
<1>2. hostOf[r] # NoSession => ~Expired(hostOf[r])
  <2> SUFFICES ASSUME hostOf[r] # NoSession PROVE ~Expired(hostOf[r])
    OBVIOUS
  <2>1. hostOf[r] \in Sessions /\ Reading(hostOf[r])
    BY DEF ServerInv, HubTypeOK, Reference, HostEntryOwned
  <2> QED BY <2>1, ReadingNotFreed DEF Expired
<1>3. ASSUME NEW id \in ViewerIds, viewersOf[r][id] # NoSession PROVE ~Expired(viewersOf[r][id])
  <2>1. viewersOf[r][id] \in Sessions /\ Reading(viewersOf[r][id])
    BY <1>3 DEF ServerInv, HubTypeOK, Reference, ViewerEntryOwned
  <2> QED BY <2>1, ReadingNotFreed DEF Expired
<1>4. LiveEntries(r) = Entries(r)
  BY <1>1, <1>3 DEF LiveEntries, Entries
<1>5. viewersOf[r] \in [ViewerIds -> Reference]
  BY DEF ServerInv, HubTypeOK
<1>6. PruneExpiredViewers(r) = viewersOf[r]
  BY <1>1, <1>3, <1>5 DEF PruneExpiredViewers
<1> QED BY <1>1, <1>2, <1>3, <1>4, <1>6

\* The outcomes of a read.
Registers(s) ==
  /\ s \in Hosts /\ sess[s] = NewSession
  /\ RegisterHost(PageRoom[s], s)
  /\ \E token \in Tokens :
       sess' = [sess EXCEPT ![s] = [room |-> PageRoom[s], peerId |-> HostId,
                                    isHost |-> TRUE, hostToken |-> token]]
  /\ Call(s, Reply(s, HostRegistered))

Rejected(s) ==
  /\ s \in Hosts /\ sess[s] = NewSession
  /\ ~CanRegister(PageRoom[s]) /\ UNCHANGED hubVars
  /\ \E token \in Tokens :
       sess' = [sess EXCEPT ![s] = [room |-> PageRoom[s], peerId |-> HostId,
                                    isHost |-> TRUE, hostToken |-> token]]
  /\ Call(s, Reply(s, Error("HOST_ALREADY_EXISTS")))

Joins(s, id) ==
  /\ s \in Viewers /\ sess[s] = NewSession /\ id \in DrawnIds
  /\ JoinViewer(PageRoom[s], s, id)
  /\ sess' = [sess EXCEPT ![s].room = PageRoom[s], ![s].peerId = id]
  /\ Call(s, JoinNotices(s, PageRoom[s], id))

Fails(s) ==
  /\ sess[s] = NewSession
  /\ UNCHANGED hubVars \/ JoinFull(PageRoom[s])
  /\ \E room \in {PageRoom[s], NoRoom} : sess' = [sess EXCEPT ![s].room = room]
  /\ \E code \in {"BAD_REQUEST", "ROOM_NOT_FOUND", "ROOM_FULL"} : Call(s, Reply(s, Error(code)))

\* The calls a later request leads to.
EndCalls(s) == Forward(PageRoom[s], AllViewers, SessionEnded("host_stopped")) \o Reply(s, SessionEndAck)
RelayCalls(s, m) == Forward(PageRoom[s], m.to, Msg(m.type, sess[s].peerId))
LaterCalls(s, m) ==
  {<<>>, Reply(s, Error("UNAUTHORIZED_HOST")), EndCalls(s)} \cup
  (IF m.type \in Relayed THEN {RelayCalls(s, m)} ELSE {})

Later(s) ==
  /\ UNCHANGED hubVars
  /\ sess' = [sess EXCEPT ![s].room = PageRoom[s]]
  /\ Head(inbox[s]) \in LaterRequests(s)
  /\ \E calls \in LaterCalls(s, Head(inbox[s])) : Call(s, calls)

LEMMA LaterFields ==
  ASSUME NEW s \in Sessions, NEW m \in LaterRequests(s)
  PROVE  /\ m.room = PageRoom[s] /\ m.room # NoRoom
         /\ m.type \in {"session.end", "webrtc.offer", "webrtc.answer"}
         /\ m.type = "webrtc.offer" => m.to \in ViewerIds
         /\ m.type = "webrtc.answer" => m.to = HostId
         /\ m.type = "webrtc.offer" => s \in Hosts
         /\ m \in Requests
<1>1. PageRoom[s] \in Rooms /\ PageRoom[s] # NoRoom
  BY PageRoomAssumption, NoRoomAssumption
<1> QED BY <1>1 DEF LaterRequests, Request, Requests, Relayed, Peers

LEMMA FirstFields ==
  ASSUME NEW s \in Sessions, NEW m \in FirstRequests(s)
  PROVE  /\ m.room \in {PageRoom[s], NoRoom}
         /\ s \in Hosts => m.type = "host.register"
         /\ s \in Viewers => m.type = "room.join"
         /\ m.token \in Tokens \cup {NoToken}
         /\ m \in Requests
<1>1. PageRoom[s] \in Rooms
  BY PageRoomAssumption
<1> QED BY <1>1 DEF FirstRequests, Request, Requests, Viewers

LEMMA ReadsLater ==
  ASSUME NEW s \in Sessions, Head(inbox[s]) \in LaterRequests(s), HandleMessage(s, Head(inbox[s]))
  PROVE  Later(s)
<1> DEFINE m == Head(inbox[s])
<1>1. /\ m.room = PageRoom[s] /\ m.room # NoRoom
      /\ m.type \in {"session.end", "webrtc.offer", "webrtc.answer"}
      /\ m.type # "session.end" => m.to # NoPeer /\ m.type \in Relayed
  BY LaterFields, PeerNames DEF Relayed
<1>2. CASE m.type = "session.end"
  <2>1. HandleSessionEnd(s, m)
    BY <1>2 DEF HandleMessage, Relayed
  <2> QED BY <1>1, <2>1 DEF HandleSessionEnd, KeepRoom, Later, LaterCalls, EndCalls, Call
<1>3. CASE m.type # "session.end"
  <2>1. HandleWebrtcForward(s, m)
    BY <1>1, <1>3 DEF HandleMessage
  <2> QED BY <1>1, <1>3, <2>1 DEF HandleWebrtcForward, KeepRoom, Later, LaterCalls, RelayCalls, Call
<1> QED BY <1>2, <1>3

LEMMA ReadsFirst ==
  ASSUME NEW s \in Sessions, Head(inbox[s]) \in FirstRequests(s), sess[s] = NewSession,
         HandleMessage(s, Head(inbox[s]))
  PROVE  Registers(s) \/ Rejected(s) \/ (\E id \in ViewerIds : Joins(s, id)) \/ Fails(s)
<1> DEFINE m == Head(inbox[s])
<1>1. /\ m.room \in {PageRoom[s], NoRoom} /\ PageRoom[s] # NoRoom
      /\ m.token \in Tokens \cup {NoToken}
  BY FirstFields, PageRoomAssumption, NoRoomAssumption
<1>2. CASE s \in Hosts
  <2>1. HandleHostRegister(s, m)
    BY <1>2, FirstFields DEF HandleMessage, Relayed
  <2>2. CASE m.room = NoRoom \/ m.token = NoToken
    BY <1>1, <2>1, <2>2 DEF HandleHostRegister, KeepRoom, Fails
  <2>3. CASE m.room # NoRoom /\ m.token # NoToken
    <3>1. m.room = PageRoom[s] /\ m.token \in Tokens
      BY <1>1, <2>3
    <3> QED BY <1>2, <2>1, <2>3, <3>1 DEF HandleHostRegister, Registers, Rejected
  <2> QED BY <2>2, <2>3
<1>3. CASE s \notin Hosts
  <2>1. HandleRoomJoin(s, m) /\ s \in Viewers
    BY <1>3, FirstFields DEF HandleMessage, Relayed, Viewers
  <2>2. CASE JoinFails(s, m)
    BY <1>1, <2>2 DEF JoinFails, KeepRoom, Fails
  <2>3. ASSUME NEW id \in DrawnIds, m.room # NoRoom, JoinViewer(m.room, s, id),
               sess' = [sess EXCEPT ![s].room = m.room, ![s].peerId = id],
               Call(s, JoinNotices(s, m.room, id))
        PROVE  \E i \in ViewerIds : Joins(s, i)
    <3>1. m.room = PageRoom[s] /\ id \in ViewerIds
      BY <1>1, <2>3 DEF DrawnIds
    <3> QED BY <2>1, <2>3, <3>1 DEF Joins
  <2> QED BY <2>1, <2>2, <2>3 DEF HandleRoomJoin
<1> QED BY <1>2, <1>3

LEMMA ReadCases ==
  ASSUME ServerInv, NEW s \in Sessions, OnRead(s)
  PROVE  /\ Registers(s) \/ Rejected(s) \/ (\E id \in ViewerIds : Joins(s, id)) \/ Fails(s) \/ Later(s)
         /\ Reading(s) /\ todo[s] = <<>> /\ inbox[s] # <<>> /\ UNCHANGED <<conn, outbox, sends>>
         /\ inbox' = [inbox EXCEPT ![s] = Tail(@)]
<1>1. /\ Reading(s) /\ todo[s] = <<>> /\ inbox[s] # <<>> /\ UNCHANGED <<conn, outbox, sends>>
      /\ inbox' = [inbox EXCEPT ![s] = Tail(@)] /\ HandleMessage(s, Head(inbox[s]))
  BY DEF OnRead
<1>2. inbox[s] \in Seq(Requests) /\ Head(inbox[s]) = inbox[s][1] /\ 1 \in DOMAIN inbox[s]
  BY <1>1 DEF ServerInv, WireTypeOK
<1>3. \/ Head(inbox[s]) \in LaterRequests(s)
      \/ Head(inbox[s]) \in FirstRequests(s) /\ sess[s] = NewSession
  BY <1>2 DEF ServerInv, InboxOK
<1> QED BY <1>1, <1>3, ReadsFirst, ReadsLater

----------------------------------------------------------------------------
(* The hub under the server *)

LEMMA ReadHub ==
  ASSUME ServerInv, NEW s \in Sessions, OnRead(s)
  PROVE  [HubNext]_hubVars
<1>1. s \in Sessions \ freed /\ PageRoom[s] \in Rooms
  BY ReadCases, ReadingNotFreed, PageRoomAssumption
<1> QED BY <1>1, ReadCases DEF Registers, Rejected, Joins, Fails, Later, HubNext

LEMMA LeaveHub ==
  ASSUME ServerInv, NEW s \in Sessions, OnReadError(s)
  PROVE  [HubNext]_hubVars
<1>1. sess[s].room \in Rooms \cup {NoRoom} /\ sess[s].peerId \in Peers \cup {NoPeer}
  BY DEF ServerInv, WireTypeOK, Fields
<1> QED BY <1>1 DEF OnReadError, Leave, Peers, HubNext

LEMMA HubOfStep ==
  ASSUME ServerInv, AnyStep
  PROVE  [HubNext]_hubVars
<1>1. ASSUME NEW s \in Sessions, ServerStep(s) PROVE [HubNext]_hubVars
  BY <1>1, ReadHub, LeaveHub DEF ServerStep, RunSend, RunFind, Destroy, HubNext
<1>2. ASSUME NEW s \in Sessions, PageAct(s) PROVE UNCHANGED hubVars
  BY <1>2 DEF PageAct, PageOpens, PageAsks, PageGoes, PageTakes
<1> QED BY <1>1, <1>2 DEF AnyStep, wireVars

LEMMA HubInvStep ==
  ASSUME ServerInv, AnyStep
  PROVE  HubTypeOK' /\ RoomsAreInhabited'
  BY HubOfStep, HubTypeStep, NoEmptyRoomStep, NoOrphanStep DEF ServerInv, RoomsAreInhabited

----------------------------------------------------------------------------
(* What a read leaves in its session *)

LEMMA NewSessionFields ==
  /\ NewSession.room = NoRoom /\ NewSession.peerId = NoPeer /\ NewSession.isHost = FALSE
  /\ NewSession \in Fields
  BY DEF NewSession, Fields

SessIs(s, room, id, host) ==
  /\ sess' \in [Sessions -> Fields]
  /\ \A t \in Sessions \ {s} : sess'[t] = sess[t]
  /\ sess'[s].room = room /\ sess'[s].peerId = id /\ sess'[s].isHost = host

LEMMA SessRegistered ==
  ASSUME ServerInv, NEW s \in Sessions, Registers(s) \/ Rejected(s)
  PROVE  SessIs(s, PageRoom[s], HostId, TRUE) /\ sess[s].peerId = NoPeer /\ s \in Hosts
<1>1. sess \in [Sessions -> Fields] /\ PageRoom[s] \in Rooms
  BY PageRoomAssumption DEF ServerInv, WireTypeOK
<1>2. PICK token \in Tokens :
        sess' = [sess EXCEPT ![s] = [room |-> PageRoom[s], peerId |-> HostId,
                                     isHost |-> TRUE, hostToken |-> token]]
  BY DEF Registers, Rejected
<1> DEFINE new == [room |-> PageRoom[s], peerId |-> HostId, isHost |-> TRUE, hostToken |-> token]
<1>3. new \in Fields /\ new.peerId = HostId /\ new.isHost = TRUE /\ new.room = PageRoom[s]
  BY <1>1, PeerNames DEF Fields
<1>4. sess' = [sess EXCEPT ![s] = new]
  BY <1>2
<1> HIDE DEF new
<1>5. sess' \in [Sessions -> Fields] /\ sess'[s] = new /\ \A t \in Sessions \ {s} : sess'[t] = sess[t]
  BY <1>1, <1>3, <1>4
<1> QED BY <1>3, <1>5, NewSessionFields DEF Registers, Rejected, SessIs

LEMMA SessJoined ==
  ASSUME ServerInv, NEW s \in Sessions, NEW id \in ViewerIds, Joins(s, id)
  PROVE  SessIs(s, PageRoom[s], id, FALSE) /\ sess[s].peerId = NoPeer /\ s \in Viewers
<1>1. sess \in [Sessions -> Fields] /\ PageRoom[s] \in Rooms /\ id \in Peers
  BY PageRoomAssumption, PeerNames DEF ServerInv, WireTypeOK
<1>2. sess' = [sess EXCEPT ![s].room = PageRoom[s], ![s].peerId = id] /\ sess[s] = NewSession
  BY DEF Joins
<1> DEFINE new == [[NewSession EXCEPT !.room = PageRoom[s]] EXCEPT !.peerId = id]
<1>3. new \in Fields /\ new.peerId = id /\ new.isHost = FALSE /\ new.room = PageRoom[s]
  BY <1>1, NewSessionFields DEF Fields
<1>4. sess' = [sess EXCEPT ![s] = new]
  BY <1>1, <1>2
<1> HIDE DEF new
<1>5. sess' \in [Sessions -> Fields] /\ sess'[s] = new /\ \A t \in Sessions \ {s} : sess'[t] = sess[t]
  BY <1>1, <1>3, <1>4
<1> QED BY <1>3, <1>5, NewSessionFields DEF Joins, SessIs

LEMMA SessFailed ==
  ASSUME ServerInv, NEW s \in Sessions, Fails(s)
  PROVE  /\ \E room \in {PageRoom[s], NoRoom} : SessIs(s, room, NoPeer, FALSE)
         /\ sess[s].peerId = NoPeer
<1>1. sess \in [Sessions -> Fields] /\ PageRoom[s] \in Rooms
  BY PageRoomAssumption DEF ServerInv, WireTypeOK
<1>2. PICK room \in {PageRoom[s], NoRoom} : sess' = [sess EXCEPT ![s].room = room]
  BY DEF Fails
<1>3. SessIs(s, room, NoPeer, FALSE)
  BY <1>1, <1>2, NewSessionFields DEF Fails, SessIs, Fields
<1> QED BY <1>3, NewSessionFields DEF Fails

LEMMA SessLater ==
  ASSUME ServerInv, NEW s \in Sessions, Later(s)
  PROVE  SessIs(s, PageRoom[s], sess[s].peerId, sess[s].isHost)
<1>1. sess \in [Sessions -> Fields] /\ PageRoom[s] \in Rooms
  BY PageRoomAssumption DEF ServerInv, WireTypeOK
<1>2. sess' = [sess EXCEPT ![s].room = PageRoom[s]]
  BY DEF Later
<1> QED BY <1>1, <1>2 DEF SessIs, Fields

LEMMA RolesAfterRead ==
  ASSUME ServerInv, NEW s \in Sessions, OnRead(s)
  PROVE  RolesOK' /\ sess' \in [Sessions -> Fields] /\ \A t \in Sessions \ {s} : sess'[t] = sess[t]
<1>1. RolesOK
  BY DEF ServerInv
<1>2. ASSUME NEW room \in {PageRoom[s], NoRoom}, NEW id \in Peers \cup {NoPeer}, NEW host \in BOOLEAN,
             SessIs(s, room, id, host), id # NoPeer => room = PageRoom[s],
             host <=> id = HostId, id = HostId => s \in Hosts, id \in ViewerIds => s \in Viewers
      PROVE  RolesOK'
  BY <1>1, <1>2 DEF RolesOK, RoleOK, SessIs
<1>3. CASE Registers(s) \/ Rejected(s)
  BY <1>2, <1>3, SessRegistered, PeerNames DEF SessIs
<1>4. ASSUME NEW id \in ViewerIds, Joins(s, id)
      PROVE  RolesOK' /\ sess' \in [Sessions -> Fields] /\ \A t \in Sessions \ {s} : sess'[t] = sess[t]
  BY <1>2, <1>4, SessJoined, PeerNames DEF SessIs
<1>5. CASE Fails(s)
  BY <1>2, <1>5, SessFailed, PeerNames DEF SessIs
<1>6. CASE Later(s)
  <2>1. RoleOK(s) /\ sess[s].peerId \in Peers \cup {NoPeer} /\ sess[s].isHost \in BOOLEAN
    BY <1>1 DEF ServerInv, WireTypeOK, Fields, RolesOK
  <2> QED BY <1>2, <1>6, <2>1, SessLater DEF SessIs, RoleOK
<1> QED BY <1>3, <1>4, <1>5, <1>6, ReadCases

----------------------------------------------------------------------------
(* The calls of a read *)

\* Calls of one session are replaced, those of the others stay.
CallsAre(s, calls) ==
  /\ calls \in Seq(NoticeCalls)
  /\ todo' = [todo EXCEPT ![s] = calls]

LEMMA ReplyType ==
  ASSUME NEW s \in Sessions, NEW m \in Notices
  PROVE  Reply(s, m) \in Seq(NoticeCalls)
  BY SendToType DEF Reply

LEMMA CallsRegistered ==
  ASSUME NEW s \in Sessions, Registers(s)
  PROVE  CallsAre(s, Reply(s, HostRegistered))
  BY NoticeTypes, ReplyType DEF Registers, Call, CallsAre

LEMMA CallsRejected ==
  ASSUME NEW s \in Sessions, Rejected(s)
  PROVE  CallsAre(s, Reply(s, Error("HOST_ALREADY_EXISTS")))
  BY NoticeTypes, ReplyType DEF Rejected, Call, CallsAre

LEMMA CallsFailed ==
  ASSUME NEW s \in Sessions, Fails(s)
  PROVE  \E code \in {"BAD_REQUEST", "ROOM_NOT_FOUND", "ROOM_FULL"} : CallsAre(s, Reply(s, Error(code)))
<1>1. PICK code \in {"BAD_REQUEST", "ROOM_NOT_FOUND", "ROOM_FULL"} : Call(s, Reply(s, Error(code)))
  BY DEF Fails
<1>2. Error(code) \in Notices
  BY NoticeTypes
<1> QED BY <1>1, <1>2, ReplyType DEF Call, CallsAre

LEMMA ReplyIs ==
  ASSUME NEW s, NEW m
  PROVE  Reply(s, m) = <<[op |-> "send", to |-> {s}, msg |-> m]>>
<1>1. {s} # {}
  OBVIOUS
<1> QED BY <1>1 DEF Reply, SendTo

LEMMA TwoCalls == ASSUME NEW c, NEW d PROVE <<c>> \o <<d>> = <<c, d>>
<1> DEFINE S == {c, d}
<1>1. <<c>> \in Seq(S) /\ <<d>> \in Seq(S) /\ <<c, d>> \in Seq(S)
  OBVIOUS
<1>2. <<c>> \o <<d>> \in Seq(S) /\ Len(<<c>> \o <<d>>) = 2
  BY <1>1
<1>3. (<<c>> \o <<d>>)[1] = c /\ (<<c>> \o <<d>>)[2] = d
  BY <1>1
<1>4. \A i \in 1..2 : (<<c>> \o <<d>>)[i] = <<c, d>>[i]
  BY <1>3
<1>5. Len(<<c, d>>) = 2
  OBVIOUS
<1> HIDE DEF S
<1> QED BY <1>1, <1>2, <1>4, <1>5, SeqEqual

LEMMA JoinCalls ==
  ASSUME NEW s \in Sessions, NEW id \in ViewerIds
  PROVE  JoinNotices(s, PageRoom[s], id) =
           << [op |-> "send", to |-> {s}, msg |-> RoomJoined(id)],
              [op |-> "find", room |-> PageRoom[s], peer |-> HostId, msg |-> PeerJoined(id)] >>
  BY ReplyIs, TwoCalls DEF JoinNotices, Forward

LEMMA CallsJoined ==
  ASSUME NEW s \in Sessions, NEW id \in ViewerIds, Joins(s, id)
  PROVE  CallsAre(s, JoinNotices(s, PageRoom[s], id))
<1>1. Reply(s, RoomJoined(id)) \in Seq(NoticeCalls)
  BY NoticeTypes, ReplyType
<1>2. Forward(PageRoom[s], HostId, PeerJoined(id)) \in Seq(NoticeCalls)
  BY NoticeTypes, ForwardType, PeerNames, PageRoomAssumption
<1>3. JoinNotices(s, PageRoom[s], id) \in Seq(NoticeCalls)
  BY <1>1, <1>2 DEF JoinNotices
<1> QED BY <1>3 DEF Joins, Call, CallsAre

EndCallList(s) ==
  << [op |-> "find", room |-> PageRoom[s], peer |-> AllViewers, msg |-> SessionEnded("host_stopped")],
     [op |-> "send", to |-> {s}, msg |-> SessionEndAck] >>
RelayCallList(s, m) ==
  << [op |-> "find", room |-> PageRoom[s], peer |-> m.to, msg |-> Msg(m.type, sess[s].peerId)] >>

LEMMA LaterCallList ==
  ASSUME NEW s \in Sessions, NEW m
  PROVE  EndCalls(s) = EndCallList(s) /\ RelayCalls(s, m) = RelayCallList(s, m)
  BY ReplyIs, TwoCalls DEF EndCalls, RelayCalls, EndCallList, RelayCallList, Forward

LEMMA CallsLater ==
  ASSUME ServerInv, NEW s \in Sessions, Later(s)
  PROVE  \E calls \in LaterCalls(s, Head(inbox[s])) : CallsAre(s, calls)
<1> DEFINE m == Head(inbox[s])
<1>1. m \in LaterRequests(s) /\ PageRoom[s] \in Rooms /\ sess[s].peerId \in Peers \cup {NoPeer}
  BY PageRoomAssumption DEF Later, ServerInv, WireTypeOK, Fields
<1>2. Reply(s, Error("UNAUTHORIZED_HOST")) \in Seq(NoticeCalls)
  BY NoticeTypes, ReplyType
<1>3. EndCalls(s) \in Seq(NoticeCalls)
  <2>1. Forward(PageRoom[s], AllViewers, SessionEnded("host_stopped")) \in Seq(NoticeCalls)
    BY <1>1, NoticeTypes, ForwardType
  <2>2. Reply(s, SessionEndAck) \in Seq(NoticeCalls)
    BY NoticeTypes, ReplyType
  <2> QED BY <2>1, <2>2 DEF EndCalls
<1>4. m.type \in Relayed => RelayCalls(s, m) \in Seq(NoticeCalls)
  <2>1. m.type \in Relayed => m.to \in Peers
    BY <1>1, LaterFields, PeerNames DEF Relayed
  <2> QED BY <1>1, <2>1, NoticeTypes, ForwardType DEF RelayCalls
<1>5. <<>> \in Seq(NoticeCalls)
  OBVIOUS
<1>6. PICK calls \in LaterCalls(s, m) : Call(s, calls)
  BY DEF Later
<1>7. calls \in Seq(NoticeCalls)
  BY <1>2, <1>3, <1>4, <1>5, <1>6 DEF LaterCalls
<1> QED BY <1>6, <1>7 DEF Call, CallsAre

LEMMA CallsAfterRead ==
  ASSUME ServerInv, NEW s \in Sessions, OnRead(s)
  PROVE  \E calls : CallsAre(s, calls)
  BY ReadCases, CallsRegistered, CallsRejected, CallsJoined, CallsFailed, CallsLater

LEMMA CallsType ==
  ASSUME ServerInv, NEW s \in Sessions, NEW calls, CallsAre(s, calls)
  PROVE  /\ todo' \in [Sessions -> Seq(NoticeCalls)]
         /\ todo'[s] = calls /\ \A t \in Sessions \ {s} : todo'[t] = todo[t]
  BY DEF CallsAre, ServerInv, WireTypeOK

----------------------------------------------------------------------------
(* What the other steps do to the wires *)

\* One Send: the next call loses one receiver, and the receiver's page, if it is
\* still connected, gets the message behind the others.
LEMMA SendCases ==
  ASSUME ServerInv, NEW s \in Sessions, RunSend(s)
  PROVE  \E t \in Sessions :
           LET c == Head(todo[s])
               rest == SendTo(c.to \ {t}, c.msg) \o Tail(todo[s])
           IN  /\ c \in SendCalls /\ t \in c.to /\ todo[s] # <<>>
               /\ CallsAre(s, rest)
               /\ outbox' = IF conn[t] = "open" THEN [outbox EXCEPT ![t] = Append(@, c.msg)] ELSE outbox
               /\ outbox' \in [Sessions -> Seq(Notices)]
               /\ UNCHANGED <<hubVars, conn, sess, inbox, sends>>
<1> DEFINE c == Head(todo[s])
<1>1. todo[s] # <<>> /\ c \in NoticeCalls /\ c.op = "send" /\ Tail(todo[s]) \in Seq(NoticeCalls)
  BY DEF RunSend, ServerInv, WireTypeOK
<1>2. c \in SendCalls
  BY <1>1, CallKinds
<1>3. c.to \subseteq Sessions /\ c.msg \in Notices
  BY <1>2 DEF SendCalls
<1>4. PICK t \in c.to : Post(t, c.msg) /\ Call(s, SendTo(c.to \ {t}, c.msg) \o Tail(todo[s]))
  BY DEF RunSend
<1> DEFINE rest == SendTo(c.to \ {t}, c.msg) \o Tail(todo[s])
<1>5. SendTo(c.to \ {t}, c.msg) \in Seq(NoticeCalls)
  BY <1>3, SendToType
<1>6. rest \in Seq(NoticeCalls)
  BY <1>1, <1>5
<1>7. outbox' \in [Sessions -> Seq(Notices)]
  BY <1>3, <1>4 DEF Post, ServerInv, WireTypeOK
<1> QED BY <1>1, <1>2, <1>3, <1>4, <1>6, <1>7 DEF RunSend, Post, Call, CallsAre

LEMMA FoundSessions ==
  ASSUME HubTypeOK, NEW r \in Rooms, NEW p \in Peers \cup {AllViewers}
  PROVE  Found(r, p) \subseteq Sessions
  BY DEF HubTypeOK, Found, LiveViewers, LiveEntries, Lookup, Expired

\* One lookup: the next call becomes sends to what was found.
LEMMA FindCases ==
  ASSUME ServerInv, NEW s \in Sessions, RunFind(s)
  PROVE  LET c == Head(todo[s])
             rest == SendTo(Found(c.room, c.peer), c.msg) \o Tail(todo[s])
         IN  /\ c \in FindCalls /\ todo[s] # <<>> /\ Found(c.room, c.peer) \subseteq Sessions
             /\ CallsAre(s, rest)
             /\ UNCHANGED <<hubVars, conn, sess, inbox, outbox, sends>>
<1> DEFINE c == Head(todo[s])
<1>1. todo[s] # <<>> /\ c \in NoticeCalls /\ c.op = "find" /\ Tail(todo[s]) \in Seq(NoticeCalls)
  BY DEF RunFind, ServerInv, WireTypeOK
<1>2. c \in FindCalls
  BY <1>1, CallKinds
<1>3. c.room \in Rooms /\ c.peer \in Peers \cup {AllViewers} /\ c.msg \in Notices
  BY <1>2 DEF FindCalls
<1>4. Found(c.room, c.peer) \subseteq Sessions
  BY <1>3, FoundSessions DEF ServerInv
<1>5. SendTo(Found(c.room, c.peer), c.msg) \in Seq(NoticeCalls)
  BY <1>3, <1>4, SendToType
<1>6. SendTo(Found(c.room, c.peer), c.msg) \o Tail(todo[s]) \in Seq(NoticeCalls)
  BY <1>1, <1>5
<1> QED BY <1>1, <1>2, <1>4, <1>6 DEF RunFind, Call, CallsAre

\* The end of the read loop, for a session that was in a room and one that was not.
Leaves(s) ==
  /\ sess[s].peerId \in Peers /\ sess[s].room = PageRoom[s]
  /\ Leave(PageRoom[s], sess[s].peerId)
  /\ CallsAre(s, LeaveNotices(PageRoom[s], sess[s].peerId))

LEMMA LeaveCases ==
  ASSUME ServerInv, NEW s \in Sessions, OnReadError(s)
  PROVE  /\ Leaves(s) \/ (sess[s].peerId = NoPeer /\ UNCHANGED <<hubVars, todo>>)
         /\ conn[s] = "closing" /\ conn' = [conn EXCEPT ![s] = "closed"]
         /\ todo[s] = <<>> /\ inbox[s] = <<>> /\ UNCHANGED <<sess, inbox, outbox, sends>>
<1>1. /\ conn[s] = "closing" /\ conn' = [conn EXCEPT ![s] = "closed"]
      /\ todo[s] = <<>> /\ inbox[s] = <<>> /\ UNCHANGED <<sess, inbox, outbox, sends>>
  BY DEF OnReadError
<1>2. RoleOK(s) /\ sess[s].peerId \in Peers \cup {NoPeer} /\ PageRoom[s] \in Rooms /\ PageRoom[s] # NoRoom
  BY PageRoomAssumption, NoRoomAssumption DEF ServerInv, RolesOK, WireTypeOK, Fields
<1>3. CASE sess[s].peerId # NoPeer
  <2>1. sess[s].peerId \in Peers /\ sess[s].room = PageRoom[s]
    BY <1>2, <1>3 DEF RoleOK
  <2>2. Leave(PageRoom[s], sess[s].peerId) /\ Call(s, LeaveNotices(PageRoom[s], sess[s].peerId))
    BY <1>2, <1>3, <2>1 DEF OnReadError
  <2>3. HubTypeOK
    BY DEF ServerInv
  <2>4. LiveViewers(PageRoom[s]) \subseteq Sessions /\ Lookup(PageRoom[s], HostId) \subseteq Sessions
    BY <1>2, <2>3 DEF HubTypeOK, LiveViewers, LiveEntries, Lookup, Expired
  <2>5. LeaveNotices(PageRoom[s], sess[s].peerId) \in Seq(NoticeCalls)
    <3>1. SendTo(LiveViewers(PageRoom[s]), SessionEnded("host_disconnected")) \in Seq(NoticeCalls)
      BY <2>4, NoticeTypes, SendToType
    <3>2. sess[s].peerId \in ViewerIds =>
            SendTo(Lookup(PageRoom[s], HostId), PeerLeft(sess[s].peerId)) \in Seq(NoticeCalls)
      BY <2>4, NoticeTypes, SendToType
    <3> QED BY <2>1, <3>1, <3>2 DEF LeaveNotices, Peers
  <2> QED BY <1>1, <2>1, <2>2, <2>5 DEF Leaves, Call, CallsAre
<1>4. CASE sess[s].peerId = NoPeer
  BY <1>1, <1>4 DEF OnReadError
<1> QED BY <1>1, <1>3, <1>4

----------------------------------------------------------------------------
(* The steps preserve the invariant *)

LEMMA WireTypeStep ==
  ASSUME ServerInv, AnyStep
  PROVE  WireTypeOK'
<1>0. WireTypeOK
  BY DEF ServerInv
<1>1. ASSUME NEW s \in Sessions, OnRead(s) PROVE WireTypeOK'
  <2>1. PICK calls : CallsAre(s, calls)
    BY <1>1, CallsAfterRead
  <2>2. todo' \in [Sessions -> Seq(NoticeCalls)]
    BY <1>1, <2>1, CallsType
  <2>3. inbox[s] \in Seq(Requests) /\ inbox[s] # <<>>
    BY <1>0, <1>1, ReadCases DEF WireTypeOK
  <2>5. inbox' = [inbox EXCEPT ![s] = Tail(@)]
    BY <1>1, ReadCases
  <2>6. Tail(inbox[s]) \in Seq(Requests)
    BY <2>3
  <2>4. inbox' \in [Sessions -> Seq(Requests)]
    BY <1>0, <2>5, <2>6 DEF WireTypeOK
  <2> QED BY <1>0, <1>1, <2>2, <2>4, ReadCases, RolesAfterRead DEF WireTypeOK
<1>2. ASSUME NEW s \in Sessions, OnReadError(s) PROVE WireTypeOK'
  <2>1. todo' \in [Sessions -> Seq(NoticeCalls)]
    BY <1>0, <1>2, LeaveCases, CallsType DEF Leaves, WireTypeOK
  <2> QED BY <1>0, <1>2, <2>1, LeaveCases DEF WireTypeOK
<1>3. ASSUME NEW s \in Sessions, RunSend(s) PROVE WireTypeOK'
  <2>1. outbox' \in [Sessions -> Seq(Notices)] /\ UNCHANGED <<conn, sess, inbox, sends>>
    BY <1>3, SendCases
  <2>2. \E calls : CallsAre(s, calls)
    BY <1>3, SendCases
  <2>3. todo' \in [Sessions -> Seq(NoticeCalls)]
    BY <2>2, CallsType
  <2> QED BY <1>0, <2>1, <2>3 DEF WireTypeOK
<1>4. ASSUME NEW s \in Sessions, RunFind(s) PROVE WireTypeOK'
  BY <1>0, <1>4, FindCases, CallsType DEF WireTypeOK
<1>5. ASSUME NEW s \in Sessions, Destroy(s) PROVE WireTypeOK'
  BY <1>0, <1>5 DEF Destroy, sessionVars, WireTypeOK
<1>6. ASSUME NEW s \in Sessions, PageAct(s), sends' \in [Sessions -> 0..MaxSends] PROVE WireTypeOK'
  <2>1. CASE PageOpens(s)
    <3>1. \A m \in FirstRequests(s) : m \in Requests
      BY FirstFields
    <3> QED BY <1>0, <1>6, <2>1, <3>1 DEF PageOpens, WireTypeOK
  <2>2. CASE PageAsks(s)
    <3>1. \A m \in LaterRequests(s) : m \in Requests
      BY LaterFields
    <3> QED BY <1>0, <1>6, <2>2, <3>1 DEF PageAsks, WireTypeOK
  <2>3. CASE PageGoes(s)
    <3>1. \A m \in LaterRequests(s) : m \in Requests
      BY LaterFields
    <3>2. inbox[s] \in Seq(Requests)
      BY <1>0 DEF WireTypeOK
    <3>3. \A n \in 0..Len(inbox[s]) : SubSeq(inbox[s], 1, n) \in Seq(Requests)
      BY <3>2
    <3>4. \A m \in LaterRequests(s) : Append(inbox[s], m) \in Seq(Requests)
      BY <3>1, <3>2
    <3>5. inbox' \in [Sessions -> Seq(Requests)]
      BY <1>0, <2>3, <3>3, <3>4 DEF PageGoes, WireTypeOK
    <3>6. conn' \in [Sessions -> {"none", "open", "closing", "closed"}]
      BY <1>0, <2>3 DEF PageGoes, WireTypeOK
    <3>7. outbox' \in [Sessions -> Seq(Notices)]
      BY <1>0, <2>3 DEF PageGoes, WireTypeOK
    <3> QED BY <1>0, <1>6, <2>3, <3>5, <3>6, <3>7 DEF PageGoes, WireTypeOK
  <2>4. CASE PageTakes(s)
    BY <1>0, <1>6, <2>4 DEF PageTakes, WireTypeOK
  <2> QED BY <1>6, <2>1, <2>2, <2>3, <2>4 DEF PageAct
<1>7. CASE UNCHANGED wireVars /\ sends' \in [Sessions -> 0..MaxSends]
  BY <1>0, <1>7 DEF wireVars, WireTypeOK
<1> QED BY <1>1, <1>2, <1>3, <1>4, <1>5, <1>6, <1>7 DEF AnyStep, ServerStep

LEMMA InboxStep ==
  ASSUME ServerInv, AnyStep
  PROVE  InboxOK'
<1>0. InboxOK /\ WireTypeOK
  BY DEF ServerInv
<1>1. ASSUME NEW s \in Sessions, OnRead(s) PROVE InboxOK'
  <2>1. inbox[s] \in Seq(Requests) /\ inbox[s] # <<>> /\ inbox'[s] = Tail(inbox[s])
    BY <1>0, <1>1, ReadCases DEF WireTypeOK
  <2>2. \A t \in Sessions \ {s} : inbox'[t] = inbox[t] /\ sess'[t] = sess[t]
    BY <1>0, <1>1, ReadCases, RolesAfterRead DEF WireTypeOK
  <2>3. ASSUME NEW i \in DOMAIN inbox'[s] PROVE inbox'[s][i] \in LaterRequests(s)
    <3>1. i + 1 \in DOMAIN inbox[s] /\ i + 1 # 1 /\ inbox'[s][i] = inbox[s][i + 1]
      BY <2>1, <2>3
    <3> QED BY <1>0, <3>1 DEF InboxOK
  <2> QED BY <1>0, <2>2, <2>3 DEF InboxOK
<1>2. ASSUME UNCHANGED <<inbox, sess>> PROVE InboxOK'
  BY <1>0, <1>2 DEF InboxOK
<1>3. ASSUME NEW s \in Sessions, PageOpens(s) PROVE InboxOK'
  <2>1. sess'[s] = NewSession
    BY <1>3 DEF PageOpens, ServerInv, UntouchedOK
  <2>2. PICK m \in FirstRequests(s) : inbox'[s] = <<m>>
    BY <1>0, <1>3 DEF PageOpens, WireTypeOK
  <2>3. \A t \in Sessions \ {s} : inbox'[t] = inbox[t] /\ sess'[t] = sess[t]
    BY <1>0, <1>3 DEF PageOpens, WireTypeOK
  <2> QED BY <1>0, <2>1, <2>2, <2>3 DEF InboxOK
<1>4. ASSUME NEW s \in Sessions, NEW m \in LaterRequests(s), inbox' = [inbox EXCEPT ![s] = Append(@, m)],
             UNCHANGED sess
      PROVE  InboxOK'
  <2>1. inbox[s] \in Seq(Requests) /\ inbox'[s] = Append(inbox[s], m) /\ m \in Requests
    BY <1>0, <1>4, LaterFields DEF WireTypeOK
  <2>2. \A i \in DOMAIN inbox'[s] : IF i \in DOMAIN inbox[s] THEN inbox'[s][i] = inbox[s][i] ELSE inbox'[s][i] = m
    BY <2>1
  <2>3. \A t \in Sessions \ {s} : inbox'[t] = inbox[t]
    BY <1>0, <1>4 DEF WireTypeOK
  <2> QED BY <1>0, <1>4, <2>2, <2>3 DEF InboxOK
<1>5. ASSUME NEW s \in Sessions, NEW n \in 0..Len(inbox[s]), inbox' = [inbox EXCEPT ![s] = SubSeq(@, 1, n)],
             UNCHANGED sess
      PROVE  InboxOK'
  <2>1. inbox[s] \in Seq(Requests) /\ inbox'[s] = SubSeq(inbox[s], 1, n)
    BY <1>0, <1>5 DEF WireTypeOK
  <2>2. \A i \in DOMAIN inbox'[s] : i \in DOMAIN inbox[s] /\ inbox'[s][i] = inbox[s][i]
    BY <2>1
  <2>3. \A t \in Sessions \ {s} : inbox'[t] = inbox[t]
    BY <1>0, <1>5 DEF WireTypeOK
  <2> QED BY <1>0, <1>5, <2>2, <2>3 DEF InboxOK
<1>6. ASSUME NEW s \in Sessions, PageGoes(s) PROVE InboxOK'
  BY <1>4, <1>5, <1>6 DEF PageGoes
<1>7. ASSUME NEW s \in Sessions, PageAsks(s) PROVE InboxOK'
  BY <1>4, <1>7 DEF PageAsks
<1>8. ASSUME NEW s \in Sessions, ServerStep(s), ~OnRead(s) PROVE InboxOK'
  BY <1>2, <1>8, LeaveCases DEF ServerStep, RunSend, RunFind, Destroy, sessionVars
<1> QED BY <1>1, <1>2, <1>3, <1>6, <1>7, <1>8 DEF AnyStep, PageAct, PageTakes, wireVars

LEMMA RolesStep ==
  ASSUME ServerInv, AnyStep
  PROVE  RolesOK'
<1>0. RolesOK
  BY DEF ServerInv
<1>1. ASSUME UNCHANGED sess PROVE RolesOK'
  BY <1>0, <1>1 DEF RolesOK, RoleOK
<1>2. ASSUME NEW s \in Sessions, ServerStep(s), ~OnRead(s) PROVE UNCHANGED sess
  BY <1>2, LeaveCases DEF ServerStep, RunSend, RunFind, Destroy, sessionVars
<1> QED BY <1>1, <1>2, RolesAfterRead
        DEF AnyStep, ServerStep, PageAct, PageOpens, PageAsks, PageGoes, PageTakes, wireVars

\* Nobody else touches a session that is not connected yet, and a closed one stays closed.
LEMMA ConnSteps ==
  ASSUME ServerInv, AnyStep, NEW t \in Sessions
  PROVE  /\ conn'[t] = "none" => conn[t] = "none"
         /\ conn[t] = "closed" => conn'[t] = "closed"
         /\ ~Reading(t)' /\ Reading(t) => OnReadError(t)
<1>0. conn \in [Sessions -> {"none", "open", "closing", "closed"}]
  BY DEF ServerInv, WireTypeOK
<1>1. ASSUME NEW s \in Sessions, ServerStep(s)
      PROVE  \/ UNCHANGED conn
             \/ OnReadError(s) /\ conn[s] = "closing" /\ conn' = [conn EXCEPT ![s] = "closed"]
  BY <1>1, ReadCases, LeaveCases DEF ServerStep, RunSend, RunFind, Destroy, sessionVars
<1>2. ASSUME NEW s \in Sessions, PageAct(s)
      PROVE  \/ UNCHANGED conn
             \/ conn[s] = "none" /\ conn' = [conn EXCEPT ![s] = "open"]
             \/ conn[s] = "open" /\ conn' = [conn EXCEPT ![s] = "closing"]
  BY <1>2 DEF PageAct, PageOpens, PageAsks, PageGoes, PageTakes
<1> QED BY <1>0, <1>1, <1>2 DEF AnyStep, wireVars, Reading

LEMMA UntouchedStep ==
  ASSUME ServerInv, AnyStep
  PROVE  UntouchedOK'
<1> SUFFICES ASSUME NEW t \in Sessions, conn'[t] = "none"
             PROVE  sess'[t] = NewSession /\ inbox'[t] = <<>> /\ outbox'[t] = <<>> /\ todo'[t] = <<>>
  BY DEF UntouchedOK
<1>1. conn[t] = "none" /\ ~Reading(t)
  BY ConnSteps DEF Reading
<1>2. sess[t] = NewSession /\ inbox[t] = <<>> /\ outbox[t] = <<>> /\ todo[t] = <<>>
  BY <1>1 DEF ServerInv, UntouchedOK
<1>3. WireTypeOK
  BY DEF ServerInv
<1>4. ASSUME NEW s \in Sessions, OnRead(s)
      PROVE  sess'[t] = sess[t] /\ inbox'[t] = inbox[t] /\ outbox'[t] = outbox[t] /\ todo'[t] = todo[t]
  <2>1. s # t
    BY <1>1, <1>4, ReadCases
  <2>2. todo'[t] = todo[t]
    BY <1>4, <2>1, CallsAfterRead, CallsType
  <2> QED BY <1>3, <1>4, <2>1, <2>2, ReadCases, RolesAfterRead DEF WireTypeOK
<1>5. ASSUME NEW s \in Sessions, OnReadError(s)
      PROVE  sess'[t] = sess[t] /\ inbox'[t] = inbox[t] /\ outbox'[t] = outbox[t] /\ todo'[t] = todo[t]
  BY <1>1, <1>5, LeaveCases, CallsType DEF Leaves
<1>6. ASSUME NEW s \in Sessions, RunSend(s)
      PROVE  sess'[t] = sess[t] /\ inbox'[t] = inbox[t] /\ outbox'[t] = outbox[t] /\ todo'[t] = todo[t]
  BY <1>1, <1>2, <1>3, <1>6, SendCases, CallsType DEF WireTypeOK
<1>7. ASSUME NEW s \in Sessions, RunFind(s)
      PROVE  sess'[t] = sess[t] /\ inbox'[t] = inbox[t] /\ outbox'[t] = outbox[t] /\ todo'[t] = todo[t]
  BY <1>1, <1>2, <1>3, <1>7, FindCases, CallsType
<1>8. ASSUME NEW s \in Sessions, Destroy(s)
      PROVE  sess'[t] = sess[t] /\ inbox'[t] = inbox[t] /\ outbox'[t] = outbox[t] /\ todo'[t] = todo[t]
  BY <1>8 DEF Destroy, sessionVars
<1>9. ASSUME NEW s \in Sessions, PageAct(s)
      PROVE  sess'[t] = sess[t] /\ inbox'[t] = inbox[t] /\ outbox'[t] = outbox[t] /\ todo'[t] = todo[t]
  <2>1. s # t
    BY <1>1, <1>3, <1>9 DEF PageAct, PageOpens, PageAsks, PageGoes, PageTakes, WireTypeOK
  <2> QED BY <1>3, <1>9, <2>1 DEF PageAct, PageOpens, PageAsks, PageGoes, PageTakes, WireTypeOK
<1> QED BY <1>2, <1>4, <1>5, <1>6, <1>7, <1>8, <1>9 DEF AnyStep, ServerStep, wireVars

LEMMA FreedStep ==
  ASSUME ServerInv, AnyStep
  PROVE  FreedClosed'
<1>1. ASSUME NEW s \in Sessions, OnRead(s) \/ OnReadError(s) PROVE UNCHANGED freed
  BY <1>1, ReadCases, LeaveCases
     DEF Registers, Rejected, Joins, Fails, Later, RegisterHost, JoinViewer, JoinFull,
         Leaves, Leave, LeaveHost, LeaveViewer, hubVars
<1>2. ASSUME NEW s \in Sessions, Destroy(s) PROVE freed' = freed \cup {s} /\ conn[s] = "closed"
  BY <1>2 DEF Destroy, Free, Held
<1>3. ASSUME NEW s \in Sessions, RunSend(s) \/ RunFind(s) \/ PageAct(s) PROVE UNCHANGED freed
  BY <1>3 DEF RunSend, RunFind, PageAct, PageOpens, PageAsks, PageGoes, PageTakes, hubVars
<1>4. \A s \in freed' : s \in Sessions /\ conn[s] = "closed"
  BY <1>1, <1>2, <1>3 DEF AnyStep, ServerStep, wireVars, hubVars, ServerInv, FreedClosed, HubTypeOK
<1> QED BY <1>4, ConnSteps DEF FreedClosed

(* The entries of the hub *)

\* A session is entered in its own room only, under the id it knows, once.
LEMMA EntryOf ==
  ASSUME ServerInv, NEW r \in Rooms
  PROVE  /\ hostOf[r] # NoSession =>
              /\ hostOf[r] \in Hosts /\ PageRoom[hostOf[r]] = r /\ Reading(hostOf[r])
              /\ sess[hostOf[r]].peerId = HostId
         /\ \A id \in ViewerIds : viewersOf[r][id] # NoSession =>
              /\ viewersOf[r][id] \in Viewers /\ PageRoom[viewersOf[r][id]] = r /\ Reading(viewersOf[r][id])
              /\ sess[viewersOf[r][id]].peerId = id
<1>1. hostOf[r] # NoSession =>
        /\ hostOf[r] \in Hosts /\ PageRoom[hostOf[r]] = r /\ Reading(hostOf[r])
        /\ sess[hostOf[r]].peerId = HostId
  <2>1. hostOf[r] # NoSession => hostOf[r] \in Sessions /\ RoleOK(hostOf[r])
    BY DEF ServerInv, HubTypeOK, Reference, RolesOK
  <2> QED BY <2>1, PeerNames, NoRoomAssumption DEF ServerInv, HostEntryOwned, RoleOK
<1>2. ASSUME NEW id \in ViewerIds, viewersOf[r][id] # NoSession
      PROVE  /\ viewersOf[r][id] \in Viewers /\ PageRoom[viewersOf[r][id]] = r /\ Reading(viewersOf[r][id])
             /\ sess[viewersOf[r][id]].peerId = id
  <2>1. viewersOf[r][id] \in Sessions /\ RoleOK(viewersOf[r][id])
    BY <1>2 DEF ServerInv, HubTypeOK, Reference, RolesOK
  <2> QED BY <1>2, <2>1, PeerNames, NoRoomAssumption DEF ServerInv, ViewerEntryOwned, RoleOK
<1> QED BY <1>1, <1>2

\* References that the step keeps stay owned when their sessions stay as they are,
\* but for the room, which can only become the session's own.
LEMMA KeptOwned ==
  ASSUME ServerInv, NEW S \in SUBSET Sessions,
         \A t \in S : /\ Reading(t) => Reading(t)'
                      /\ sess'[t].peerId = sess[t].peerId /\ sess'[t].isHost = sess[t].isHost
                      /\ sess'[t].room \in {sess[t].room, PageRoom[t]}
  PROVE  /\ \A r \in Rooms : hostOf[r] # NoSession /\ hostOf[r] \in S /\ hostOf'[r] = hostOf[r] =>
              Reading(hostOf[r])' /\ sess'[hostOf'[r]].room = r
                /\ sess'[hostOf'[r]].peerId = HostId /\ sess'[hostOf'[r]].isHost
         /\ \A r \in Rooms, id \in ViewerIds :
              viewersOf[r][id] # NoSession /\ viewersOf[r][id] \in S /\ viewersOf'[r][id] = viewersOf[r][id] =>
                Reading(viewersOf[r][id])' /\ sess'[viewersOf'[r][id]].room = r
                  /\ sess'[viewersOf'[r][id]].peerId = id /\ ~sess'[viewersOf'[r][id]].isHost
<1>1. ASSUME NEW r \in Rooms, hostOf[r] # NoSession, hostOf[r] \in S, hostOf'[r] = hostOf[r]
      PROVE  Reading(hostOf[r])' /\ sess'[hostOf'[r]].room = r
                /\ sess'[hostOf'[r]].peerId = HostId /\ sess'[hostOf'[r]].isHost
  <2>1. Reading(hostOf[r]) /\ sess[hostOf[r]].room = r /\ sess[hostOf[r]].peerId = HostId
          /\ sess[hostOf[r]].isHost /\ PageRoom[hostOf[r]] = r
    BY <1>1, EntryOf DEF ServerInv, HostEntryOwned
  <2> QED BY <1>1, <2>1 DEF Reading
<1>2. ASSUME NEW r \in Rooms, NEW id \in ViewerIds,
             viewersOf[r][id] # NoSession, viewersOf[r][id] \in S, viewersOf'[r][id] = viewersOf[r][id]
      PROVE  Reading(viewersOf[r][id])' /\ sess'[viewersOf'[r][id]].room = r
                  /\ sess'[viewersOf'[r][id]].peerId = id /\ ~sess'[viewersOf'[r][id]].isHost
  <2>1. Reading(viewersOf[r][id]) /\ sess[viewersOf[r][id]].room = r /\ sess[viewersOf[r][id]].peerId = id
          /\ ~sess[viewersOf[r][id]].isHost /\ PageRoom[viewersOf[r][id]] = r
    BY <1>2, EntryOf DEF ServerInv, ViewerEntryOwned
  <2> QED BY <1>2, <2>1 DEF Reading
<1> QED BY <1>1, <1>2

\* What the calls of a session change in the hub, now that nothing expires.
LEMMA HubRegistered ==
  ASSUME ServerInv, NEW s \in Sessions, Registers(s)
  PROVE  /\ hostOf[PageRoom[s]] = NoSession
         /\ hostOf' = [hostOf EXCEPT ![PageRoom[s]] = s] /\ UNCHANGED viewersOf
<1>1. PageRoom[s] \in Rooms /\ viewersOf \in [Rooms -> [ViewerIds -> Reference]]
  BY PageRoomAssumption DEF ServerInv, HubTypeOK
<1> QED BY <1>1, NothingExpires DEF Registers, RegisterHost, CanRegister

LEMMA HubJoined ==
  ASSUME ServerInv, NEW s \in Sessions, NEW id \in ViewerIds, Joins(s, id)
  PROVE  /\ hostOf[PageRoom[s]] # NoSession /\ Cardinality(Entries(PageRoom[s])) < MaxViewers
         /\ viewersOf' = [viewersOf EXCEPT ![PageRoom[s]] = [@ EXCEPT ![id] = s]] /\ UNCHANGED hostOf
<1>1. PageRoom[s] \in Rooms /\ viewersOf \in [Rooms -> [ViewerIds -> Reference]]
  BY PageRoomAssumption DEF ServerInv, HubTypeOK
<1> QED BY <1>1, NothingExpires DEF Joins, JoinViewer, HasHost, HasSpace

LEMMA HubFailed ==
  ASSUME ServerInv, NEW s \in Sessions, Fails(s)
  PROVE  UNCHANGED <<hostOf, viewersOf>>
<1>1. PageRoom[s] \in Rooms /\ viewersOf \in [Rooms -> [ViewerIds -> Reference]]
  BY PageRoomAssumption DEF ServerInv, HubTypeOK
<1>2. CASE UNCHANGED hubVars
  BY <1>2 DEF hubVars
<1>3. CASE JoinFull(PageRoom[s])
  BY <1>1, <1>3, NothingExpires DEF JoinFull
<1> QED BY <1>2, <1>3 DEF Fails

LEMMA HubLeft ==
  ASSUME ServerInv, NEW s \in Sessions, Leaves(s)
  PROVE  /\ sess[s].peerId = HostId =>
              /\ hostOf' = [hostOf EXCEPT ![PageRoom[s]] = NoSession]
              /\ viewersOf' = [viewersOf EXCEPT ![PageRoom[s]] = NoViewers]
         /\ sess[s].peerId \in ViewerIds =>
              /\ UNCHANGED hostOf
              /\ viewersOf' = [viewersOf EXCEPT ![PageRoom[s]] = [@ EXCEPT ![sess[s].peerId] = NoSession]]
<1> DEFINE r == PageRoom[s]
<1>0. r \in Rooms /\ HubTypeOK /\ NoEmptyRoom
  BY PageRoomAssumption DEF ServerInv, RoomsAreInhabited
<1>1. CASE r \notin rooms
  <2>1. UNCHANGED <<hostOf, viewersOf>>
    BY <1>1 DEF Leaves, Leave, LeaveHost, LeaveViewer, hubVars
  <2>2. hostOf[r] = NoSession /\ \A id \in ViewerIds : viewersOf[r][id] = NoSession
    BY <1>0, <1>1 DEF NoEmptyRoom, Entries
  <2>3. viewersOf[r] = NoViewers /\ \A id \in ViewerIds : [viewersOf[r] EXCEPT ![id] = NoSession] = viewersOf[r]
    BY <1>0, <2>2 DEF HubTypeOK, NoViewers
  <2> QED BY <1>0, <2>1, <2>2, <2>3 DEF HubTypeOK
<1>2. CASE r \in rooms /\ sess[s].peerId = HostId
  BY <1>2, PeerNames DEF Leaves, Leave, LeaveHost
<1>3. CASE r \in rooms /\ sess[s].peerId \in ViewerIds
  <2>1. LeaveViewer(r, sess[s].peerId)
    BY <1>3, PeerNames DEF Leaves, Leave
  <2>2. Expired(hostOf[r]) => [hostOf EXCEPT ![r] = NoSession] = hostOf
    BY <1>0, NothingExpires DEF HubTypeOK
  <2> QED BY <1>3, <2>1, <2>2, PeerNames DEF LeaveViewer
<1> QED BY <1>1, <1>2, <1>3 DEF Leaves, Peers

Owned == HostEntryOwned /\ ViewerEntryOwned

LEMMA OwnersAfterRead ==
  ASSUME ServerInv, NEW s \in Sessions, OnRead(s)
  PROVE  Owned'
<1>0. HubTypeOK /\ PageRoom[s] \in Rooms /\ Reading(s) /\ s # NoSession
  BY ReadCases, PageRoomAssumption, NoSessionAssumption DEF ServerInv
<1>1. \A t \in Sessions : Reading(t)' <=> Reading(t)
  BY ReadCases DEF Reading
<1>2. \A t \in Sessions \ {s} : sess'[t] = sess[t]
  BY RolesAfterRead
\* a session that has not been in a room yet owns nothing
<1>3. sess[s].peerId = NoPeer =>
        \A r \in Rooms : hostOf[r] # s /\ \A id \in ViewerIds : viewersOf[r][id] # s
  BY <1>0, EntryOf, PeerNames
<1>4. \A r \in Rooms :
        /\ hostOf[r] # NoSession => hostOf[r] \in Sessions
        /\ \A id \in ViewerIds : viewersOf[r][id] # NoSession => viewersOf[r][id] \in Sessions
  BY <1>0 DEF HubTypeOK, Reference
<1>5. ASSUME sess[s].peerId = NoPeer
      PROVE  /\ \A r \in Rooms : hostOf[r] # NoSession /\ hostOf'[r] = hostOf[r] =>
                  Reading(hostOf[r])' /\ sess'[hostOf'[r]].room = r
                    /\ sess'[hostOf'[r]].peerId = HostId /\ sess'[hostOf'[r]].isHost
             /\ \A r \in Rooms, id \in ViewerIds :
                  viewersOf[r][id] # NoSession /\ viewersOf'[r][id] = viewersOf[r][id] =>
                    Reading(viewersOf[r][id])' /\ sess'[viewersOf'[r][id]].room = r
                      /\ sess'[viewersOf'[r][id]].peerId = id /\ ~sess'[viewersOf'[r][id]].isHost
  <2> DEFINE S == Sessions \ {s}
  <2>1. S \in SUBSET Sessions
    OBVIOUS
  <2>2. \A t \in S : /\ Reading(t) => Reading(t)'
                     /\ sess'[t].peerId = sess[t].peerId /\ sess'[t].isHost = sess[t].isHost
                     /\ sess'[t].room \in {sess[t].room, PageRoom[t]}
    BY <1>1, <1>2
  <2>3. \A r \in Rooms :
        /\ hostOf[r] # NoSession => hostOf[r] \in S
        /\ \A id \in ViewerIds : viewersOf[r][id] # NoSession => viewersOf[r][id] \in S
    BY <1>3, <1>4, <1>5
  <2> HIDE DEF S
  <2> QED BY <2>1, <2>2, <2>3, KeptOwned
<1>6. CASE Registers(s)
  <2>1. \A r \in Rooms : hostOf'[r] = (IF r = PageRoom[s] THEN s ELSE hostOf[r])
    BY <1>0, <1>6, HubRegistered DEF HubTypeOK
  <2>2. viewersOf' = viewersOf /\ sess[s].peerId = NoPeer /\ SessIs(s, PageRoom[s], HostId, TRUE)
    BY <1>6, HubRegistered, SessRegistered
  <2>3. Reading(s)'
    BY <1>0, <1>1
  <2>4. HostEntryOwned'
    BY <1>5, <2>1, <2>2, <2>3 DEF HostEntryOwned, SessIs, Reading
  <2>5. ViewerEntryOwned'
    BY <1>5, <2>2 DEF ViewerEntryOwned, Reading
  <2> QED BY <2>4, <2>5 DEF Owned
<1>7. ASSUME UNCHANGED <<hostOf, viewersOf>>, sess[s].peerId = NoPeer PROVE Owned'
  BY <1>5, <1>7 DEF Owned, HostEntryOwned, ViewerEntryOwned, Reading
<1>8. CASE Rejected(s)
  BY <1>7, <1>8, SessRegistered DEF Rejected, hubVars
<1>9. CASE Fails(s)
  BY <1>7, <1>9, SessFailed, HubFailed
<1>10. ASSUME NEW id \in ViewerIds, Joins(s, id) PROVE Owned'
  <2>1. \A r \in Rooms, i \in ViewerIds :
          viewersOf'[r][i] = IF r = PageRoom[s] /\ i = id THEN s ELSE viewersOf[r][i]
    <3>1. viewersOf' = [viewersOf EXCEPT ![PageRoom[s]] = [@ EXCEPT ![id] = s]]
      BY <1>10, HubJoined
    <3> QED BY <1>0, <3>1 DEF HubTypeOK
  <2>2. hostOf' = hostOf /\ sess[s].peerId = NoPeer /\ SessIs(s, PageRoom[s], id, FALSE)
    BY <1>10, HubJoined, SessJoined
  <2>3. Reading(s)'
    BY <1>0, <1>1
  <2>4. HostEntryOwned'
    BY <1>5, <2>2 DEF HostEntryOwned, Reading
  <2>5. ViewerEntryOwned'
    BY <1>5, <2>1, <2>2, <2>3 DEF ViewerEntryOwned, SessIs, Reading
  <2> QED BY <2>4, <2>5 DEF Owned
<1>11. CASE Later(s)
  <2>1. UNCHANGED <<hostOf, viewersOf>> /\ SessIs(s, PageRoom[s], sess[s].peerId, sess[s].isHost)
    BY <1>11, SessLater DEF Later, hubVars
  <2>2. \A t \in Sessions : /\ Reading(t) => Reading(t)'
                     /\ sess'[t].peerId = sess[t].peerId /\ sess'[t].isHost = sess[t].isHost
                     /\ sess'[t].room \in {sess[t].room, PageRoom[t]}
    BY <1>1, <2>1 DEF SessIs
  <2> DEFINE S == Sessions
  <2>3. S \in SUBSET Sessions
    OBVIOUS
  <2> QED BY <1>4, <2>1, <2>2, <2>3, KeptOwned DEF Owned, HostEntryOwned, ViewerEntryOwned, Reading
<1> QED BY <1>6, <1>8, <1>9, <1>10, <1>11, ReadCases

LEMMA OwnersAfterLeave ==
  ASSUME ServerInv, NEW s \in Sessions, OnReadError(s)
  PROVE  Owned'
<1>0. HubTypeOK /\ PageRoom[s] \in Rooms /\ conn \in [Sessions -> {"none", "open", "closing", "closed"}]
  BY PageRoomAssumption DEF ServerInv, WireTypeOK
<1>1. \A t \in Sessions \ {s} : Reading(t) => Reading(t)'
  BY <1>0, LeaveCases DEF Reading
<1>2. sess' = sess
  BY LeaveCases
<1>3. \A r \in Rooms :
        /\ hostOf[r] # NoSession => hostOf[r] \in Sessions
        /\ \A id \in ViewerIds : viewersOf[r][id] # NoSession => viewersOf[r][id] \in Sessions
  BY <1>0 DEF HubTypeOK, Reference
\* what stays in the hub was there, and is not of this session
<1>4. /\ \A r \in Rooms : hostOf'[r] # NoSession => hostOf'[r] = hostOf[r] /\ hostOf[r] # s
      /\ \A r \in Rooms, id \in ViewerIds :
           viewersOf'[r][id] # NoSession => viewersOf'[r][id] = viewersOf[r][id] /\ viewersOf[r][id] # s
  <2>1. CASE Leaves(s) /\ sess[s].peerId = HostId
    <3>1. \A r \in Rooms : hostOf'[r] = IF r = PageRoom[s] THEN NoSession ELSE hostOf[r]
      BY <1>0, <2>1, HubLeft DEF HubTypeOK
    <3>2. \A r \in Rooms, id \in ViewerIds :
            viewersOf'[r][id] = IF r = PageRoom[s] THEN NoSession ELSE viewersOf[r][id]
      <4>1. viewersOf' = [viewersOf EXCEPT ![PageRoom[s]] = NoViewers]
        BY <2>1, HubLeft
      <4> QED BY <1>0, <4>1 DEF HubTypeOK, NoViewers
    <3> QED BY <3>1, <3>2, EntryOf
  <2>2. CASE Leaves(s) /\ sess[s].peerId \in ViewerIds
    <3>1. hostOf' = hostOf
      BY <2>2, HubLeft
    <3>2. \A r \in Rooms, id \in ViewerIds :
            viewersOf'[r][id] = IF r = PageRoom[s] /\ id = sess[s].peerId THEN NoSession ELSE viewersOf[r][id]
      <4>1. viewersOf' = [viewersOf EXCEPT ![PageRoom[s]] = [@ EXCEPT ![sess[s].peerId] = NoSession]]
        BY <2>2, HubLeft
      <4> QED BY <1>0, <2>2, <4>1 DEF HubTypeOK
    <3> QED BY <2>2, <3>1, <3>2, EntryOf, PeerNames
  <2>3. CASE sess[s].peerId = NoPeer /\ UNCHANGED hubVars
    BY <2>3, EntryOf, PeerNames DEF hubVars
  <2> QED BY <2>1, <2>2, <2>3, LeaveCases DEF Leaves, Peers
<1> DEFINE S == Sessions \ {s}
<1>5. S \in SUBSET Sessions
  OBVIOUS
<1>6. \A t \in S : /\ Reading(t) => Reading(t)'
                   /\ sess'[t].peerId = sess[t].peerId /\ sess'[t].isHost = sess[t].isHost
                   /\ sess'[t].room \in {sess[t].room, PageRoom[t]}
  BY <1>1, <1>2
<1>7. /\ \A r \in Rooms : hostOf'[r] # NoSession => hostOf[r] # NoSession /\ hostOf[r] \in S
      /\ \A r \in Rooms, id \in ViewerIds :
           viewersOf'[r][id] # NoSession => viewersOf[r][id] # NoSession /\ viewersOf[r][id] \in S
  BY <1>3, <1>4
<1> HIDE DEF S
<1> QED BY <1>4, <1>5, <1>6, <1>7, KeptOwned DEF Owned, HostEntryOwned, ViewerEntryOwned, Reading

LEMMA OwnersStep ==
  ASSUME ServerInv, AnyStep
  PROVE  Owned'
<1>1. ASSUME UNCHANGED <<hostOf, viewersOf, sess>>, \A t \in Sessions : Reading(t) => Reading(t)'
      PROVE  Owned'
  <2>1. /\ \A r \in Rooms : hostOf[r] # NoSession => hostOf[r] \in Sessions
        /\ \A r \in Rooms, id \in ViewerIds : viewersOf[r][id] # NoSession => viewersOf[r][id] \in Sessions
    BY DEF ServerInv, HubTypeOK, Reference
  <2>2. HostEntryOwned /\ ViewerEntryOwned
    BY DEF ServerInv
  <2>3. HostEntryOwned'
    BY <1>1, <2>1, <2>2 DEF HostEntryOwned
  <2>4. ViewerEntryOwned'
    BY <1>1, <2>1, <2>2 DEF ViewerEntryOwned
  <2> QED BY <2>3, <2>4 DEF Owned
<1>2. ASSUME NEW s \in Sessions, RunSend(s) \/ RunFind(s) \/ Destroy(s)
      PROVE  UNCHANGED <<hostOf, viewersOf, sess, conn>>
  BY <1>2 DEF RunSend, RunFind, Destroy, Free, hubVars, sessionVars
<1>3. ASSUME NEW s \in Sessions, PageAct(s)
      PROVE  UNCHANGED <<hostOf, viewersOf, sess>> /\ \A t \in Sessions : Reading(t) => Reading(t)'
  <2>1. conn \in [Sessions -> {"none", "open", "closing", "closed"}]
    BY DEF ServerInv, WireTypeOK
  <2> QED BY <1>3, <2>1 DEF PageAct, PageOpens, PageAsks, PageGoes, PageTakes, hubVars, Reading
<1> QED BY <1>1, <1>2, <1>3, OwnersAfterRead, OwnersAfterLeave DEF AnyStep, ServerStep, wireVars, hubVars, Reading

LEMMA ServerStepInv ==
  ASSUME ServerInv, AnyStep
  PROVE  ServerInv'
<1>1. HubTypeOK' /\ RoomsAreInhabited' /\ WireTypeOK' /\ InboxOK' /\ RolesOK' /\ UntouchedOK' /\ FreedClosed' /\ Owned'
  BY HubInvStep, WireTypeStep, InboxStep, RolesStep, UntouchedStep, FreedStep, OwnersStep
<1> QED BY <1>1 DEF ServerInv, Owned

LEMMA ServerInvInit == ServerInit => ServerInv
<1> SUFFICES ASSUME ServerInit PROVE ServerInv
  OBVIOUS
<1>1. HubInit
  BY DEF ServerInit
<1>2. HubTypeOK
  BY <1>1, HubTypeInit
<1>3. RoomsAreInhabited /\ HostEntryOwned /\ ViewerEntryOwned /\ FreedClosed
  BY <1>1 DEF HubInit, NoViewers, RoomsAreInhabited, NoEmptyRoom, NoOrphanViewers, Entries,
              HostEntryOwned, ViewerEntryOwned, FreedClosed
<1>4. WireTypeOK
  BY NewSessionFields, MaxSendsAssumption DEF ServerInit, WireTypeOK
<1>5. InboxOK /\ UntouchedOK
  BY DEF ServerInit, InboxOK, UntouchedOK
<1>6. RolesOK
  BY NewSessionFields, PeerNames DEF ServerInit, RolesOK, RoleOK
<1> QED BY <1>2, <1>3, <1>4, <1>5, <1>6 DEF ServerInv

----------------------------------------------------------------------------
(* The server under the clients of WsSession *)

LEMMA SendIsAppend ==
  ASSUME WireTypeOK, NEW s \in Sessions, NEW m \in Requests, conn[s] = "open", PageSends(s, <<m>>)
  PROVE  inbox' = [inbox EXCEPT ![s] = Append(@, m)]
<1>1. inbox[s] \in Seq(Requests)
  BY DEF WireTypeOK
<1>2. inbox[s] \o <<m>> = Append(inbox[s], m)
  BY <1>1
<1> QED BY <1>2 DEF PageSends

LEMMA ConnectOpens ==
  ASSUME WireTypeOK, NEW s \in Sessions, NEW token \in Tokens \cup {NoToken}, Connect(s, token)
  PROVE  PageOpens(s) /\ sends' \in [Sessions -> 0..MaxSends]
<1>1. PICK room \in NamedRooms(s) :
        /\ inbox' = [inbox EXCEPT ![s] =
             <<IF s \in Hosts THEN Request("host.register", room, token, NoPeer)
               ELSE Request("room.join", room, NoToken, NoPeer)>>]
        /\ sends' = IF room = NoRoom \/ (s \in Hosts /\ token = NoToken)
                    THEN [sends EXCEPT ![s] = MaxSends] ELSE sends
  BY DEF Connect
<1>2. room \in {PageRoom[s], NoRoom}
  BY DEF NamedRooms
<1>3. \E m \in FirstRequests(s) : inbox' = [inbox EXCEPT ![s] = <<m>>]
  <2> DEFINE m == IF s \in Hosts THEN Request("host.register", room, token, NoPeer)
                  ELSE Request("room.join", room, NoToken, NoPeer)
  <2>1. m \in FirstRequests(s)
    BY <1>2 DEF FirstRequests
  <2>2. inbox' = [inbox EXCEPT ![s] = <<m>>]
    BY <1>1
  <2> HIDE DEF m
  <2> QED BY <2>1, <2>2
<1>4. sends' \in [Sessions -> 0..MaxSends]
  BY <1>1, MaxSendsAssumption DEF WireTypeOK
<1> QED BY <1>3, <1>4 DEF Connect, PageOpens

LEMMA DisconnectGoes ==
  ASSUME WireTypeOK, NEW s \in Sessions, Disconnect(s)
  PROVE  PageGoes(s) /\ sends' \in [Sessions -> 0..MaxSends]
<1>1. sends' \in [Sessions -> 0..MaxSends]
  BY DEF Disconnect, WireTypeOK
<1>2. \E n \in 0..Len(inbox[s]) : inbox' = [inbox EXCEPT ![s] = SubSeq(@, 1, n)]
  BY DEF Disconnect
<1> QED BY <1>1, <1>2 DEF Disconnect, PageGoes

LEMMA ReceivesTakes ==
  ASSUME WireTypeOK, NEW s \in Sessions, ClientReceives(s)
  PROVE  PageTakes(s) /\ sends' \in [Sessions -> 0..MaxSends]
  BY DEF ClientReceives, PageTakes, WireTypeOK

LEMMA ClientSendsAsks ==
  ASSUME WireTypeOK, NEW s \in Sessions, NEW m \in LaterRequests(s), ClientSends(s, m)
  PROVE  PageAsks(s) /\ sends' \in [Sessions -> 0..MaxSends]
<1>1. m \in Requests
  BY LaterFields
<1>2. inbox' = [inbox EXCEPT ![s] = Append(@, m)]
  BY <1>1, SendIsAppend DEF ClientSends
<1>3. sends' \in [Sessions -> 0..MaxSends]
  BY MaxSendsAssumption DEF ClientSends, WireTypeOK
<1> QED BY <1>2, <1>3 DEF ClientSends, PageAsks

LEMMA ServerNextIsAnyStep ==
  ASSUME ServerInv, [ServerNext]_serverVars
  PROVE  AnyStep
<1>0. WireTypeOK
  BY DEF ServerInv
<1>1. CASE UNCHANGED serverVars
  BY <1>0, <1>1 DEF serverVars, sessionVars, AnyStep, wireVars, WireTypeOK
<1>2. ASSUME NEW s \in Sessions, NEW token \in Tokens \cup {NoToken}, Connect(s, token) PROVE AnyStep
  BY <1>0, <1>2, ConnectOpens DEF AnyStep, PageAct
<1>3. ASSUME NEW s \in Sessions, Disconnect(s) PROVE AnyStep
  BY <1>0, <1>3, DisconnectGoes DEF AnyStep, PageAct
<1>4. ASSUME NEW s \in Sessions, NEW m \in LaterRequests(s), ClientSends(s, m) PROVE AnyStep
  BY <1>0, <1>4, ClientSendsAsks DEF AnyStep, PageAct
<1>5. ASSUME NEW s \in Sessions, ClientReceives(s) PROVE AnyStep
  BY <1>0, <1>5, ReceivesTakes DEF AnyStep, PageAct
<1>6. ASSUME NEW s \in Sessions, ServerStep(s) PROVE AnyStep
  BY <1>6 DEF AnyStep
<1> QED BY <1>1, <1>2, <1>3, <1>4, <1>5, <1>6 DEF ServerNext

LEMMA WireIsSessionType == WireTypeOK => SessionTypeOK
<1> SUFFICES ASSUME WireTypeOK PROVE SessionTypeOK
  OBVIOUS
<1>1. Notices \subseteq Messages
  BY DEF Notices
<1>2. NoticeCalls \subseteq Calls
  BY <1>1 DEF NoticeCalls, SendCalls, FindCalls, Calls
<1>3. \A q \in Seq(NoticeCalls) : q \in Seq(Calls)
  BY <1>2, SeqMonotonic
<1>4. \A q \in Seq(Notices) : q \in Seq(Messages)
  BY <1>1, SeqMonotonic
<1>5. todo \in [Sessions -> Seq(Calls)]
  BY <1>3 DEF WireTypeOK
<1>6. outbox \in [Sessions -> Seq(Messages)]
  BY <1>4 DEF WireTypeOK
<1> QED BY <1>5, <1>6 DEF WireTypeOK, SessionTypeOK, Fields

\* The inductive invariant of the server, for all the interleavings of its
\* sessions' handlers and whatever their clients do in their roles.
THEOREM ServerSafe == ServerSpec => []ServerInv
<1>1. ServerInv /\ [ServerNext]_serverVars => ServerInv'
  BY ServerNextIsAnyStep, ServerStepInv
<1> QED BY <1>1, ServerInvInit, PTL DEF ServerSpec

\* Behind every entry of the hub is a session that is still read and that will
\* leave the hub under exactly this entry's room and id: no weak_ptr in rooms_
\* ever expires (ws_session.cpp:50-54, ws_hub.cpp:56-131).
THEOREM ServerOwnsEntries == ServerSpec => []EntriesOwned
<1>1. ServerInv => EntriesOwned
  BY WireIsSessionType DEF ServerInv, EntriesOwned, ServerTypeOK
<1> QED BY <1>1, ServerSafe, PTL

\* Under the server rooms_ holds exactly the rooms that have a host, and viewers
\* are entered nowhere else (ws_hub.cpp:63-64, 77-79, 106-120).
THEOREM ServerKeepsNoEmptyRoom == ServerSpec => []RoomsAreInhabited
<1>1. ServerInv => RoomsAreInhabited
  BY DEF ServerInv
<1> QED BY <1>1, ServerSafe, PTL

\* The handlers call the hub only as HubSpec says it is called, one call at a
\* time because rooms_ is behind one mutex (ws_hub.cpp:54, 75, 99), so what is
\* proved about the hub holds of the server.
THEOREM ServerUsesTheHub == ServerSpec => HubSpec
<1>1. ServerInv /\ [ServerNext]_serverVars => [HubNext]_hubVars
  BY ServerNextIsAnyStep, HubOfStep
<1>2. ServerInit => HubInit
  BY DEF ServerInit
<1> QED BY <1>1, <1>2, ServerSafe, PTL DEF ServerSpec, HubSpec

\* No room of the server ever holds more viewers than the limit
\* (ws_hub.cpp:81-88), and a live host or viewer is replaced by nobody
\* (ws_hub.cpp:56-61, 77-90).
THEOREM ServerKeepsHubPromises ==
  ServerSpec => /\ []Capacity
                /\ HostReplacedOnlyAfterLeave
                /\ EntersOnlyUnderLiveHost
  BY ServerUsesTheHub, HubCapacity, HubReplacesNoLiveHost, HubAdmitsUnderLiveHost, PTL

(***************************************************************************)
(* No handler of the server blocks.                                        *)
(***************************************************************************)
\* A viewer that has no identity yet finds an id to draw: the others have drawn
\* at most one each.
LEMMA AnIdIsLeft ==
  ASSUME ServerInv, NEW s \in Viewers, sess[s] = NewSession
  PROVE  DrawnIds # {}
<1>1. CASE IdsCollide
  BY <1>1, EnoughIdsAssumption DEF DrawnIds
<1>2. CASE ~IdsCollide
  <2> DEFINE Others == Viewers \ {s}
             Drawn == {sess[t].peerId : t \in Others}
             f == [t \in Others |-> sess[t].peerId]
  <2>1. IsFiniteSet(Viewers) /\ Cardinality(Viewers) <= Cardinality(ViewerIds)
    BY <1>2, EnoughIdsAssumption
  <2>2. IsFiniteSet(Others) /\ Cardinality(Others) = Cardinality(Viewers) - 1
    BY <2>1, FS_RemoveElement
  <2>3. Cardinality(Viewers) \in Nat /\ Cardinality(ViewerIds) \in Nat
    BY <2>1, ViewerIdsAssumption, FS_CardinalityType
  <2>4. f \in Surjection(Others, Drawn)
    BY DEF Surjection
  <2> HIDE DEF f
  <2>5. IsFiniteSet(Drawn) /\ Cardinality(Drawn) <= Cardinality(Others)
    BY <2>2, <2>4, FS_Surjection
  <2>6. Cardinality(Others) \in Nat /\ Cardinality(Drawn) \in Nat
    BY <2>2, <2>5, FS_CardinalityType
  <2>7. ViewerIds \subseteq Drawn => Cardinality(ViewerIds) <= Cardinality(Drawn)
    BY <2>5, FS_Subset
  <2>8. PICK id \in ViewerIds : id \notin Drawn
    <3> HIDE DEF Others, Drawn
    <3> QED BY <2>1, <2>2, <2>3, <2>5, <2>6, <2>7
  <2>9. ASSUME NEW t \in Sessions PROVE sess[t].peerId # id
    <3>1. CASE t = s
      BY <3>1, <2>8, NewSessionFields, PeerNames
    <3>2. CASE t \in Others
      BY <3>2, <2>8
    <3>3. CASE t \in Hosts
      BY <3>3, <2>8 DEF ServerInv, RolesOK, RoleOK, Viewers
    <3> QED BY <3>1, <3>2, <3>3 DEF Viewers
  <2> QED BY <1>2, <2>8, <2>9 DEF DrawnIds
<1> QED BY <1>1, <1>2

LEMMA RequestsAreHandled ==
  ASSUME ServerInv, NEW s \in Sessions, inbox[s] # <<>>
  PROVE  CanHandle(s, Head(inbox[s]))
<1>1. inbox[s] \in Seq(Requests) /\ Head(inbox[s]) = inbox[s][1] /\ 1 \in DOMAIN inbox[s]
  BY DEF ServerInv, WireTypeOK
<1>2. CASE Head(inbox[s]) \in LaterRequests(s)
  BY <1>2, LaterFields DEF CanHandle, Relayed
<1>3. CASE Head(inbox[s]) \in FirstRequests(s) /\ sess[s] = NewSession
  <2>1. CASE s \in Hosts
    BY <1>3, <2>1, FirstFields DEF CanHandle
  <2>2. CASE s \in Viewers
    BY <1>3, <2>2, FirstFields, AnIdIsLeft DEF CanHandle
  <2> QED BY <2>1, <2>2 DEF Viewers
<1> QED BY <1>1, <1>2, <1>3 DEF ServerInv, InboxOK

\* What waits for a session meets the guard of one of its steps.
LEMMA BusyIsReady ==
  ASSUME ServerInv, NEW s \in Sessions, Busy(s)
  PROVE  Ready(s)
<1>1. CASE todo[s] # <<>>
  <2>1. Head(todo[s]) \in NoticeCalls
    BY <1>1 DEF ServerInv, WireTypeOK
  <2>2. Head(todo[s]).op = "send" => Head(todo[s]).to # {}
    BY <2>1, CallKinds DEF SendCalls
  <2> QED BY <1>1, <2>1, <2>2, CallKinds DEF Ready
<1>2. CASE todo[s] = <<>> /\ Reading(s) /\ inbox[s] # <<>>
  BY <1>2, RequestsAreHandled DEF Ready
<1>3. CASE todo[s] = <<>> /\ conn[s] = "closing" /\ inbox[s] = <<>>
  <2>1. CanLeave(s)
    BY DEF CanLeave, ServerInv, WireTypeOK, Fields
  <2> QED BY <1>3, <2>1 DEF Ready
<1>4. CASE ~Held(s) /\ s \notin freed
  BY <1>4 DEF Ready
<1> QED BY <1>1, <1>2, <1>3, <1>4 DEF Busy, Reading

\* A page that is gone leaves work: the end of its own session, or the calls of a
\* handler that still refers to it.
LEMMA GoneLeavesWork == ServerInv => GoneIsForgotten
<1> SUFFICES ASSUME ServerInv, NEW s \in Sessions, conn[s] \in {"closing", "closed"}, s \notin freed
             PROVE  \E t \in Sessions : Ready(t)
  BY DEF GoneIsForgotten
<1>1. \E t \in Sessions : Busy(t)
  <2>1. CASE conn[s] = "closing" \/ ~Held(s)
    BY <2>1 DEF Busy
  <2>2. CASE conn[s] = "closed" /\ Held(s)
    <3>1. CASE todo[s] # <<>>
      BY <3>1 DEF Busy
    <3>2. ASSUME NEW t \in Sessions, NEW i \in DOMAIN todo[t] PROVE Busy(t)
      <4>1. todo[t] \in Seq(NoticeCalls)
        BY DEF ServerInv, WireTypeOK
      <4>2. todo[t] # <<>>
        BY <3>2, <4>1
      <4> QED BY <4>2 DEF Busy
    <3> QED BY <2>2, <3>1, <3>2 DEF Held
  <2> QED BY <2>1, <2>2
<1> QED BY <1>1, BusyIsReady

\* No handler of the server blocks and none is missing: a session that something
\* waits for meets the guards of one of its steps, for every request its client
\* sends in its role and every call a handler has begun, and each joining viewer
\* draws an id (ws_session.cpp:48-61, ws_session_handlers.cpp:21-47).
THEOREM ServerNeverBlocks == ServerSpec => [](\A s \in Sessions : Busy(s) => Ready(s))
<1>1. ServerInv => \A s \in Sessions : Busy(s) => Ready(s)
  BY BusyIsReady
<1> QED BY <1>1, ServerSafe, PTL

\* Nothing outlives the pages: rooms_ holds the rooms that have a host and viewers
\* only there (ws_hub.cpp:106-120), and while a page that is gone is not forgotten,
\* the server has something left to do (ws_session.cpp:36-54, ws_hub.cpp:94-131).
THEOREM ServerLeavesNothingBehind == ServerSpec => []NothingLeftBehind
<1>1. ServerInv => NothingLeftBehind
  BY GoneLeavesWork DEF ServerInv, NothingLeftBehind
<1> QED BY <1>1, ServerSafe, PTL

(***************************************************************************)
(* The server implements RoomRegistry, when no id is drawn twice and a     *)
(* host page is opened after the server has noticed that the one before it *)
(* is gone.                                                                *)
(***************************************************************************)
IdsUnique ==
  \A s, t \in Sessions : sess[s].peerId \in ViewerIds /\ sess[t].peerId = sess[s].peerId => s = t

HostsApart ==
  \A s, t \in Hosts : Reading(s) /\ Reading(t) /\ PageRoom[s] = PageRoom[t] => s = t

\* A host that has its identity is the host of its room.
HostInPlace ==
  \A s \in Hosts : Reading(s) /\ sess[s].peerId = HostId => hostOf[PageRoom[s]] = s

\* A step gives a session an identity once, and only the id drawn for it.
LEMMA IdOfStep ==
  ASSUME ServerInv, AnyStep, NEW s \in Sessions
  PROVE  \/ sess'[s].peerId = sess[s].peerId
         \/ sess'[s].peerId = HostId /\ (Registers(s) \/ Rejected(s)) /\ OnRead(s)
         \/ \E id \in DrawnIds : sess'[s].peerId = id /\ Joins(s, id) /\ OnRead(s)
<1>1. ASSUME NEW t \in Sessions, OnRead(t)
      PROVE  \/ sess'[s].peerId = sess[s].peerId
             \/ sess'[s].peerId = HostId /\ (Registers(s) \/ Rejected(s)) /\ OnRead(s)
             \/ \E id \in DrawnIds : sess'[s].peerId = id /\ Joins(s, id) /\ OnRead(s)
  <2>1. CASE s # t
    BY <1>1, <2>1, RolesAfterRead
  <2>2. CASE s = t
    <3>1. CASE Registers(s) \/ Rejected(s)
      BY <1>1, <2>2, <3>1, SessRegistered DEF SessIs
    <3>2. ASSUME NEW id \in ViewerIds, Joins(s, id) PROVE sess'[s].peerId = id /\ id \in DrawnIds
      BY <3>2, SessJoined DEF SessIs, Joins
    <3>3. CASE Fails(s)
      BY <3>3, SessFailed DEF SessIs
    <3>4. CASE Later(s)
      BY <3>4, SessLater DEF SessIs
    <3> QED BY <1>1, <2>2, <3>1, <3>2, <3>3, <3>4, ReadCases
  <2> QED BY <2>1, <2>2
<1>2. ASSUME NEW t \in Sessions, ServerStep(t), ~OnRead(t) PROVE UNCHANGED sess
  BY <1>2, LeaveCases DEF ServerStep, RunSend, RunFind, Destroy, sessionVars
<1>3. ASSUME NEW t \in Sessions, PageAct(t) PROVE UNCHANGED sess
  BY <1>3 DEF PageAct, PageOpens, PageAsks, PageGoes, PageTakes
<1> QED BY <1>1, <1>2, <1>3 DEF AnyStep, wireVars

LEMMA IdsUniqueStep ==
  ASSUME ~IdsCollide, ServerInv, IdsUnique, AnyStep
  PROVE  IdsUnique'
<1> SUFFICES ASSUME NEW s \in Sessions, NEW t \in Sessions, s # t,
                    sess'[s].peerId \in ViewerIds, sess'[t].peerId = sess'[s].peerId
             PROVE  FALSE
  BY DEF IdsUnique
<1>1. \A q \in Sessions, id \in DrawnIds : id \in ViewerIds /\ sess[q].peerId # id
  BY DEF DrawnIds
<1>2. ASSUME NEW p \in Sessions, NEW q \in Sessions, p # q, OnRead(p),
             sess'[p].peerId \in ViewerIds, sess'[q].peerId = sess'[p].peerId,
             NEW id \in DrawnIds, sess'[p].peerId = id
      PROVE  FALSE
  <2>1. sess'[q].peerId = sess[q].peerId
    BY <1>2, RolesAfterRead
  <2> QED BY <1>1, <1>2, <2>1
<1>3. sess'[s].peerId = sess[s].peerId \/ \E id \in DrawnIds : sess'[s].peerId = id /\ OnRead(s)
  BY IdOfStep, PeerNames
<1>4. sess'[t].peerId = sess[t].peerId \/ \E id \in DrawnIds : sess'[t].peerId = id /\ OnRead(t)
  BY IdOfStep, PeerNames
<1> QED BY <1>2, <1>3, <1>4 DEF IdsUnique

LEMMA HostsApartStep ==
  ASSUME ~HostsOverlap, ServerInv, HostsApart, AnyStep
  PROVE  HostsApart'
<1>0. conn \in [Sessions -> {"none", "open", "closing", "closed"}] /\ Hosts \subseteq Sessions
  BY HostsAssumption DEF ServerInv, WireTypeOK
<1>1. ASSUME \A s \in Sessions : Reading(s)' => Reading(s) PROVE HostsApart'
  BY <1>0, <1>1 DEF HostsApart
<1>2. ASSUME NEW s \in Sessions, PageOpens(s) PROVE HostsApart'
  <2>1. \A t \in Sessions \ {s} : Reading(t)' => Reading(t)
    BY <1>0, <1>2 DEF PageOpens, Reading
  <2>2. s \in Hosts => \A t \in Hosts \ {s} : PageRoom[t] = PageRoom[s] => ~Reading(t)
    BY <1>2 DEF PageOpens, MayOpen
  <2> QED BY <1>0, <2>1, <2>2 DEF HostsApart
<1>3. ASSUME NEW s \in Sessions, PageAct(s), ~PageOpens(s) PROVE \A t \in Sessions : Reading(t)' => Reading(t)
  BY <1>0, <1>3 DEF PageAct, PageAsks, PageGoes, PageTakes, Reading
<1>4. ASSUME NEW s \in Sessions, ServerStep(s) PROVE \A t \in Sessions : Reading(t)' => Reading(t)
  BY <1>0, <1>4, ReadCases, LeaveCases DEF ServerStep, RunSend, RunFind, Destroy, sessionVars, Reading
<1> QED BY <1>1, <1>2, <1>3, <1>4 DEF AnyStep, wireVars, Reading

\* No host is turned away when hosts do not overlap.
LEMMA NobodyRejected ==
  ASSUME ServerInv, HostsApart, NEW s \in Sessions, OnRead(s), Rejected(s)
  PROVE  FALSE
<1>1. PageRoom[s] \in Rooms /\ s \in Hosts /\ sess[s].peerId = NoPeer /\ Reading(s)
  BY SessRegistered, ReadCases, PageRoomAssumption
<1>2. hostOf[PageRoom[s]] # NoSession
  BY <1>1, NothingExpires DEF Rejected, CanRegister
<1> QED BY <1>1, <1>2, EntryOf, PeerNames DEF HostsApart

LEMMA HostInPlaceStep ==
  ASSUME ~HostsOverlap, ServerInv, HostsApart, HostInPlace, AnyStep
  PROVE  HostInPlace'
<1> SUFFICES ASSUME NEW h \in Hosts, Reading(h)', sess'[h].peerId = HostId
             PROVE  hostOf'[PageRoom[h]] = h
  BY DEF HostInPlace
<1>0. /\ conn \in [Sessions -> {"none", "open", "closing", "closed"}] /\ Hosts \subseteq Sessions
      /\ h \in Sessions /\ PageRoom[h] \in Rooms /\ HubTypeOK
  BY HostsAssumption, PageRoomAssumption DEF ServerInv, WireTypeOK
<1>1. ASSUME Registers(h) PROVE hostOf'[PageRoom[h]] = h
  BY <1>0, <1>1, HubRegistered DEF HubTypeOK
<1>2. \A id \in DrawnIds : id # HostId
  BY PeerNames DEF DrawnIds
<1>3. CASE sess[h].peerId # HostId
  BY <1>0, <1>1, <1>2, <1>3, IdOfStep, NobodyRejected
<1>4. CASE sess[h].peerId = HostId
  <2>1. Reading(h)
    <3>1. conn[h] # "none"
      BY <1>0, <1>4, NewSessionFields, PeerNames DEF ServerInv, UntouchedOK
    <3>2. conn[h] # "closed"
      BY <1>0, ConnSteps DEF Reading
    <3> QED BY <1>0, <3>1, <3>2 DEF Reading
  <2>2. hostOf[PageRoom[h]] = h /\ h # NoSession
    BY <1>0, <1>4, <2>1, NoSessionAssumption DEF HostInPlace
  <2>3. ASSUME NEW s \in Sessions, OnRead(s) PROVE hostOf'[PageRoom[h]] = hostOf[PageRoom[h]]
    <3>1. ASSUME Registers(s) PROVE hostOf'[PageRoom[h]] = hostOf[PageRoom[h]]
      BY <1>0, <2>2, <3>1, HubRegistered DEF HubTypeOK
    <3>2. ASSUME NEW id \in ViewerIds, Joins(s, id) PROVE hostOf' = hostOf
      BY <3>2, HubJoined
    <3>3. ASSUME Fails(s) PROVE hostOf' = hostOf
      BY <3>3, HubFailed
    <3> QED BY <2>3, <3>1, <3>2, <3>3, ReadCases DEF Rejected, Later, hubVars
  <2>4. ASSUME NEW s \in Sessions, OnReadError(s) PROVE hostOf'[PageRoom[h]] = hostOf[PageRoom[h]]
    <3>1. s # h /\ Reading(s)
      BY <1>0, <2>4, LeaveCases DEF Reading
    <3>2. CASE Leaves(s) /\ sess[s].peerId = HostId
      <4>1. s \in Hosts
        BY <3>2 DEF ServerInv, RolesOK, RoleOK
      <4>2. PageRoom[s] # PageRoom[h]
        BY <2>1, <3>1, <4>1 DEF HostsApart
      <4>3. hostOf' = [hostOf EXCEPT ![PageRoom[s]] = NoSession]
        BY <3>2, HubLeft
      <4> QED BY <1>0, <4>2, <4>3 DEF HubTypeOK
    <3>3. CASE Leaves(s) /\ sess[s].peerId \in ViewerIds
      BY <3>3, HubLeft
    <3> QED BY <2>4, <3>2, <3>3, LeaveCases DEF Leaves, Peers, hubVars
  <2>5. ASSUME NEW s \in Sessions, RunSend(s) \/ RunFind(s) \/ Destroy(s) \/ PageAct(s) PROVE hostOf' = hostOf
    BY <2>5 DEF RunSend, RunFind, Destroy, Free, PageAct, PageOpens, PageAsks, PageGoes, PageTakes, hubVars
  <2> QED BY <2>2, <2>3, <2>4, <2>5 DEF AnyStep, ServerStep, wireVars, hubVars
<1> QED BY <1>3, <1>4

\* One host of a room at a time, where hosts do not overlap.
HostsInTurn == ~HostsOverlap => HostsApart /\ HostInPlace
RegistryInv == ServerInv /\ IdsUnique /\ HostsInTurn

\* The variables of RoomRegistry in the server's.
Online    == {s \in Sessions : conn[s] = "open"}
Left      == {s \in Sessions : conn[s] \in {"closing", "closed"}}
MembersOf(r) == {viewersOf[r][id] : id \in Entries(r)}
Members   == [r \in Rooms |-> MembersOf(r)]

LEMMA InsideIs ==
  ASSUME ServerInv, NEW s \in Sessions, sess[s].peerId = NoPeer
  PROVE  \A r \in Rooms : hostOf[r] # s /\ s \notin MembersOf(r)
<1>1. s # NoSession
  BY NoSessionAssumption
<1> QED BY <1>1, EntryOf, PeerNames DEF MembersOf, Entries

LEMMA MembersKept ==
  ASSUME UNCHANGED viewersOf
  PROVE  Members' = Members
  BY DEF Members, MembersOf, Entries

LEMMA HostEntersStep ==
  ASSUME RegistryInv, NEW s \in Sessions, OnRead(s), Registers(s)
  PROVE  PageRoom[s] \in Rooms /\ s \in Hosts /\ Registry!HostEnters(PageRoom[s], s)
<1>0. ServerInv /\ PageRoom[s] \in Rooms /\ s \in Hosts /\ sess[s].peerId = NoPeer
  BY SessRegistered, PageRoomAssumption DEF RegistryInv
<1>1. hostOf[PageRoom[s]] = NoSession /\ hostOf' = [hostOf EXCEPT ![PageRoom[s]] = s] /\ UNCHANGED viewersOf
  BY <1>0, HubRegistered
<1>2. Entries(PageRoom[s]) = {}
  BY <1>0, <1>1 DEF ServerInv, RoomsAreInhabited, NoOrphanViewers
<1>3. MembersOf(PageRoom[s]) = {}
  BY <1>2 DEF MembersOf
<1>4. ~Registry!Inside(s)
  BY <1>0, InsideIs DEF Registry!Inside, MembersOf
<1>5. conn' = conn
  BY <1>0, ReadCases
<1>6. Members' = Members /\ Online' = Online /\ Left' = Left
  BY <1>1, <1>5, MembersKept DEF Online, Left
<1> QED BY <1>0, <1>1, <1>3, <1>4, <1>6 DEF Registry!HostEnters, Members, MembersOf, Online, Left

LEMMA FewerMembers ==
  ASSUME HubTypeOK, NEW r \in Rooms, Cardinality(Entries(r)) < MaxViewers
  PROVE  Cardinality(MembersOf(r)) < MaxViewers
<1>1. IsFiniteSet(Entries(r))
  BY FS_Subset, ViewerIdsAssumption DEF Entries
<1> DEFINE f == [id \in Entries(r) |-> viewersOf[r][id]]
<1>2. f \in Surjection(Entries(r), MembersOf(r))
  BY DEF Surjection, MembersOf
<1>3. IsFiniteSet(MembersOf(r)) /\ Cardinality(MembersOf(r)) <= Cardinality(Entries(r))
  BY <1>1, <1>2, FS_Surjection
<1> QED BY <1>1, <1>3, FS_CardinalityType, MaxViewersAssumption

LEMMA ViewerEntersStep ==
  ASSUME ~IdsCollide, RegistryInv, NEW s \in Sessions, NEW id \in ViewerIds, OnRead(s), Joins(s, id)
  PROVE  PageRoom[s] \in Rooms /\ s \in Sessions \ Hosts /\ Registry!ViewerEnters(PageRoom[s], s)
<1> DEFINE r == PageRoom[s]
<1>0. ServerInv /\ r \in Rooms /\ HubTypeOK /\ s \in Viewers /\ sess[s].peerId = NoPeer /\ s # NoSession
  BY SessJoined, PageRoomAssumption, NoSessionAssumption DEF RegistryInv, ServerInv
<1>1. /\ hostOf[r] # NoSession /\ Cardinality(Entries(r)) < MaxViewers
      /\ viewersOf' = [viewersOf EXCEPT ![r] = [@ EXCEPT ![id] = s]] /\ UNCHANGED hostOf
  BY <1>0, HubJoined
<1>2. viewersOf[r][id] = NoSession
  <2>1. \A t \in Sessions : sess[t].peerId # id
    BY DEF Joins, DrawnIds
  <2> QED BY <1>0, <2>1, EntryOf DEF Viewers
<1>3. \A q \in Rooms, i \in ViewerIds : viewersOf'[q][i] = IF q = r /\ i = id THEN s ELSE viewersOf[q][i]
  BY <1>0, <1>1 DEF HubTypeOK
<1>4. MembersOf(r)' = MembersOf(r) \cup {s}
  BY <1>0, <1>2, <1>3 DEF MembersOf, Entries
<1>5. \A q \in Rooms \ {r} : MembersOf(q)' = MembersOf(q)
  BY <1>3 DEF MembersOf, Entries
<1>6. Members' = [Members EXCEPT ![r] = @ \cup {s}]
  BY <1>0, <1>4, <1>5 DEF Members
<1>7. ~Registry!Inside(s)
  BY <1>0, InsideIs DEF Registry!Inside, MembersOf
<1>8. Online' = Online /\ Left' = Left
  BY <1>0, ReadCases DEF Online, Left
<1>9. Cardinality(MembersOf(r)) < MaxViewers
  BY <1>0, <1>1, FewerMembers
<1>10. Cardinality(Members[r]) < MaxViewers
  BY <1>0, <1>9 DEF Members
<1>11. Registry!Cardinality([q \in Rooms |-> {viewersOf[q][i] : i \in Entries(q)}][PageRoom[s]]) < MaxViewers
  <2>1. Registry!Cardinality(Members[r]) = Cardinality(Members[r])
    BY DEF Registry!Cardinality, Cardinality
  <2> QED BY <1>10, <2>1 DEF Members, MembersOf
<1>12. [q \in Rooms |-> {viewersOf[q][i] : i \in Entries(q)}]' =
         [[q \in Rooms |-> {viewersOf[q][i] : i \in Entries(q)}] EXCEPT ![PageRoom[s]] = @ \cup {s}]
  BY <1>6 DEF Members, MembersOf
<1>13. s \in Sessions \ Hosts /\ hostOf[PageRoom[s]] # NoSession
  BY <1>0, <1>1 DEF Viewers
<1>14. UNCHANGED <<{t \in Sessions : conn[t] = "open"},
                   {t \in Sessions : conn[t] \in {"closing", "closed"}}, hostOf>>
  BY <1>1, <1>8 DEF Online, Left
<1>15. PageRoom[s] \in Rooms
  BY <1>0
<1> HIDE DEF r
<1> QED BY <1>15, <1>7, <1>11, <1>12, <1>13, <1>14 DEF Registry!ViewerEnters

\* A host page that goes takes the host of the room along, itself where host
\* pages come in turn.
LEMMA HostLeavesStep ==
  ASSUME RegistryInv, NEW s \in Sessions, OnReadError(s), Leaves(s), sess[s].peerId = HostId
  PROVE  \/ PageRoom[s] \in Rooms /\ s \in Left \cap Hosts /\ Registry!HostLeaves(PageRoom[s], s)
         \/ UNCHANGED <<Online, Left, hostOf, Members>>
<1> DEFINE r == PageRoom[s]
<1>0. ServerInv /\ r \in Rooms /\ HubTypeOK /\ s \in Hosts /\ s # NoSession /\ conn[s] = "closing"
      /\ conn \in [Sessions -> {"none", "open", "closing", "closed"}]
  BY LeaveCases, PageRoomAssumption, NoSessionAssumption DEF RegistryInv, ServerInv, WireTypeOK, RolesOK, RoleOK
<1>1. hostOf[r] = s \/ HostsOverlap
  BY <1>0 DEF RegistryInv, HostsInTurn, HostInPlace, Reading
<1>2. hostOf' = [hostOf EXCEPT ![r] = NoSession] /\ viewersOf' = [viewersOf EXCEPT ![r] = NoViewers]
  BY <1>0, HubLeft
<1>3. \A q \in Rooms, i \in ViewerIds : viewersOf'[q][i] = IF q = r THEN NoSession ELSE viewersOf[q][i]
  BY <1>0, <1>2 DEF HubTypeOK, NoViewers
<1>4. MembersOf(r)' = {}
  BY <1>0, <1>3 DEF MembersOf, Entries
<1>5. \A q \in Rooms \ {r} : MembersOf(q)' = MembersOf(q)
  BY <1>3 DEF MembersOf, Entries
<1>6. Members' = [Members EXCEPT ![r] = {}]
  BY <1>0, <1>4, <1>5 DEF Members
<1>7. Online' = Online /\ Left' = Left /\ s \in Left
  <2>1. conn' = [conn EXCEPT ![s] = "closed"]
    BY <1>0, LeaveCases
  <2> QED BY <1>0, <2>1 DEF Online, Left
<1>8. CASE hostOf[r] = NoSession
  <2>1. Entries(r) = {}
    BY <1>0, <1>8 DEF ServerInv, RoomsAreInhabited, NoOrphanViewers
  <2>2. MembersOf(r) = {}
    BY <2>1 DEF MembersOf
  <2>3. Members' = Members
    BY <1>4, <1>5, <2>2 DEF Members
  <2>4. hostOf' = hostOf
    BY <1>0, <1>2, <1>8 DEF HubTypeOK
  <2> QED BY <1>7, <2>3, <2>4
<1>9. CASE hostOf[r] # NoSession
  BY <1>0, <1>1, <1>2, <1>6, <1>7, <1>9 DEF Registry!HostLeaves, Members, MembersOf, Online, Left
<1> QED BY <1>8, <1>9

LEMMA ViewerLeavesStep ==
  ASSUME RegistryInv, NEW s \in Sessions, OnReadError(s), Leaves(s), sess[s].peerId \in ViewerIds
  PROVE  \/ PageRoom[s] \in Rooms /\ s \in Left \ Hosts /\ Registry!ViewerLeaves(PageRoom[s], s)
         \/ UNCHANGED <<Online, Left, hostOf, Members>>
<1> DEFINE r == PageRoom[s]
           id == sess[s].peerId
<1>0. ServerInv /\ r \in Rooms /\ HubTypeOK /\ s # NoSession /\ conn[s] = "closing"
      /\ conn \in [Sessions -> {"none", "open", "closing", "closed"}]
  BY LeaveCases, PageRoomAssumption, NoSessionAssumption DEF RegistryInv, ServerInv, WireTypeOK
<1>1. hostOf' = hostOf /\ viewersOf' = [viewersOf EXCEPT ![r] = [@ EXCEPT ![id] = NoSession]]
  BY <1>0, HubLeft
<1>2. \A q \in Rooms, i \in ViewerIds :
        viewersOf'[q][i] = IF q = r /\ i = id THEN NoSession ELSE viewersOf[q][i]
  BY <1>0, <1>1 DEF HubTypeOK
<1>3. Online' = Online /\ Left' = Left /\ s \in Left
  <2>1. conn' = [conn EXCEPT ![s] = "closed"]
    BY <1>0, LeaveCases
  <2> QED BY <1>0, <2>1 DEF Online, Left
<1>4. viewersOf[r][id] \in {s, NoSession}
  <2>1. viewersOf[r][id] # NoSession =>
          viewersOf[r][id] \in Sessions /\ sess[viewersOf[r][id]].peerId = id
    BY <1>0, EntryOf DEF Viewers
  <2> QED BY <2>1 DEF RegistryInv, IdsUnique
<1>5. \A q \in Rooms \ {r} : MembersOf(q)' = MembersOf(q)
  BY <1>2 DEF MembersOf, Entries
<1>6. CASE viewersOf[r][id] = NoSession
  <2>1. MembersOf(r)' = MembersOf(r)
    BY <1>0, <1>2, <1>6 DEF MembersOf, Entries
  <2>2. Members' = Members
    BY <1>5, <2>1 DEF Members
  <2> QED BY <1>1, <1>3, <2>2
<1>7. CASE viewersOf[r][id] = s
  <2>1. s \in MembersOf(r)
    BY <1>0, <1>7 DEF MembersOf, Entries
  <2>2. \A i \in ViewerIds : viewersOf[r][i] = s => i = id
    BY <1>0, EntryOf
  <2>3. MembersOf(r)' = MembersOf(r) \ {s}
    <3>1. \A i \in ViewerIds \ {id} : viewersOf'[r][i] = viewersOf[r][i] /\ viewersOf[r][i] # s
      BY <1>0, <1>2, <2>2
    <3>2. viewersOf'[r][id] = NoSession
      BY <1>0, <1>2
    <3> HIDE DEF r, id
    <3> QED BY <1>0, <1>7, <3>1, <3>2 DEF MembersOf, Entries
  <2>4. Members' = [Members EXCEPT ![r] = @ \ {s}]
    BY <1>0, <1>5, <2>3 DEF Members
  <2>5. s \notin Hosts
    BY <1>0, <1>7, EntryOf DEF Viewers
  <2> QED BY <1>0, <1>1, <1>3, <2>1, <2>4, <2>5 DEF Registry!ViewerLeaves, Members, MembersOf, Online, Left
<1> QED BY <1>4, <1>6, <1>7

LEMMA RegistryPageStep ==
  ASSUME RegistryInv, NEW s \in Sessions, PageAct(s)
  PROVE  \/ s \notin Online \cup Left /\ Registry!ComeOnline(s)
         \/ s \in Online /\ Registry!GoOffline(s)
         \/ UNCHANGED <<Online, Left, hostOf, Members>>
<1>0. conn \in [Sessions -> {"none", "open", "closing", "closed"}]
  BY DEF RegistryInv, ServerInv, WireTypeOK
<1>1. UNCHANGED <<hostOf, viewersOf>> /\ Members' = Members
  BY MembersKept DEF PageAct, PageOpens, PageAsks, PageGoes, PageTakes, hubVars
<1>2. CASE PageOpens(s)
  <2>1. s \notin Online \cup Left /\ Online' = Online \cup {s} /\ Left' = Left
    BY <1>0, <1>2 DEF PageOpens, Online, Left
  <2> QED BY <1>1, <2>1 DEF Registry!ComeOnline, Members, MembersOf, Online, Left
<1>3. CASE PageGoes(s)
  <2>1. s \in Online /\ Online' = Online \ {s} /\ Left' = Left \cup {s}
    BY <1>0, <1>3 DEF PageGoes, Online, Left
  <2> QED BY <1>1, <2>1 DEF Registry!GoOffline, Members, MembersOf, Online, Left
<1>4. CASE PageAsks(s) \/ PageTakes(s)
  BY <1>1, <1>4 DEF PageAsks, PageTakes, Online, Left
<1> QED BY <1>2, <1>3, <1>4 DEF PageAct

LEMMA RegistryStep ==
  ASSUME ~IdsCollide, RegistryInv, AnyStep
  PROVE  Registry!RegistryNext \/ UNCHANGED <<Online, Left, hostOf, Members>>
<1>0. ServerInv /\ \A s \in Sessions : PageRoom[s] \in Rooms
  BY PageRoomAssumption DEF RegistryInv
<1>1. ASSUME UNCHANGED <<hostOf, viewersOf, conn>> PROVE UNCHANGED <<Online, Left, hostOf, Members>>
  BY <1>1, MembersKept DEF Online, Left
<1>2. ASSUME NEW s \in Sessions, OnRead(s)
      PROVE  Registry!RegistryNext \/ UNCHANGED <<Online, Left, hostOf, Members>>
  <2>1. CASE Registers(s)
    BY <1>0, <1>2, <2>1, HostEntersStep DEF Registry!RegistryNext
  <2>2. ASSUME NEW id \in ViewerIds, Joins(s, id) PROVE Registry!RegistryNext
    BY <1>0, <1>2, <2>2, ViewerEntersStep DEF Registry!RegistryNext
  <2>3. CASE Rejected(s) \/ Fails(s) \/ Later(s)
    BY <1>0, <1>1, <1>2, <2>3, ReadCases, HubFailed DEF Rejected, Later, hubVars
  <2> QED BY <1>0, <1>2, <2>1, <2>2, <2>3, ReadCases
<1>3. ASSUME NEW s \in Sessions, OnReadError(s)
      PROVE  Registry!RegistryNext \/ UNCHANGED <<Online, Left, hostOf, Members>>
  <2>1. CASE Leaves(s) /\ sess[s].peerId = HostId
    BY <1>0, <1>3, <2>1, HostLeavesStep DEF Registry!RegistryNext, Left
  <2>2. CASE Leaves(s) /\ sess[s].peerId \in ViewerIds
    BY <1>0, <1>3, <2>2, ViewerLeavesStep DEF Registry!RegistryNext, Left
  <2>3. CASE UNCHANGED hubVars
    <3>1. conn[s] = "closing" /\ conn' = [conn EXCEPT ![s] = "closed"]
      BY <1>0, <1>3, LeaveCases
    <3>2. conn \in [Sessions -> {"none", "open", "closing", "closed"}]
      BY <1>0 DEF ServerInv, WireTypeOK
    <3>3. Online' = Online /\ Left' = Left
      BY <3>1, <3>2 DEF Online, Left
    <3> QED BY <2>3, <3>3, MembersKept DEF hubVars
  <2> QED BY <1>0, <1>3, <2>1, <2>2, <2>3, LeaveCases DEF Leaves, Peers
<1>4. ASSUME NEW s \in Sessions, RunSend(s) \/ RunFind(s) \/ Destroy(s)
      PROVE  UNCHANGED <<hostOf, viewersOf, conn>>
  BY <1>4 DEF RunSend, RunFind, Destroy, Free, hubVars, sessionVars
<1>5. ASSUME NEW s \in Sessions, PageAct(s)
      PROVE  Registry!RegistryNext \/ UNCHANGED <<Online, Left, hostOf, Members>>
  BY <1>5, RegistryPageStep DEF Registry!RegistryNext, Online, Left
<1> QED BY <1>1, <1>2, <1>3, <1>4, <1>5 DEF AnyStep, ServerStep, wireVars, hubVars

LEMMA RegistryInvInit == ServerInit => RegistryInv /\ Registry!RegistryInit
<1> SUFFICES ASSUME ServerInit PROVE RegistryInv /\ Registry!RegistryInit
  OBVIOUS
<1>1. ServerInv
  BY ServerInvInit
<1>2. IdsUnique /\ HostsApart /\ HostInPlace
  BY HostsAssumption, NewSessionFields, PeerNames
     DEF ServerInit, IdsUnique, HostsApart, HostInPlace, Reading
<1>3. \A r \in Rooms : MembersOf(r) = {}
  BY DEF ServerInit, HubInit, NoViewers, MembersOf, Entries
<1>4. Registry!RegistryInit
  BY <1>3 DEF ServerInit, HubInit, Registry!RegistryInit, MembersOf
<1> QED BY <1>1, <1>2, <1>4 DEF RegistryInv, HostsInTurn

LEMMA RegistryInvStep ==
  ASSUME ~IdsCollide, RegistryInv, AnyStep
  PROVE  RegistryInv'
  BY ServerStepInv, IdsUniqueStep, HostsApartStep, HostInPlaceStep DEF RegistryInv, HostsInTurn

\* Who is in which room changes only as RoomRegistry allows, through all the
\* interleavings of the handlers (ws_session_handlers.cpp:92-102,
\* ws_hub.cpp:56-131): the server implements the registry.
THEOREM ServerImplementsRegistry ==
  ASSUME ~IdsCollide
  PROVE  ServerSpec => KeepsRegistry
<1>1. RegistryInv /\ [ServerNext]_serverVars => RegistryInv'
  BY ServerNextIsAnyStep, RegistryInvStep DEF RegistryInv
<1>2. RegistryInv /\ [ServerNext]_serverVars => [Registry!RegistryNext]_(Registry!registryVars)
  <2> SUFFICES ASSUME RegistryInv, [ServerNext]_serverVars
               PROVE  [Registry!RegistryNext]_(Registry!registryVars)
    OBVIOUS
  <2>1. Registry!RegistryNext \/ UNCHANGED <<Online, Left, hostOf, Members>>
    BY ServerNextIsAnyStep, RegistryStep DEF RegistryInv
  <2> QED BY <2>1 DEF Registry!registryVars, Online, Left, Members, MembersOf
<1> QED BY <1>1, <1>2, RegistryInvInit, PTL DEF ServerSpec, KeepsRegistry, Registry!RegistrySafety

----------------------------------------------------------------------------
(* The server and the pages *)

(***************************************************************************)
(* The steps of the pages in the words of the server's.                     *)
(***************************************************************************)
HostPages ==
  [state : {"registering", "ready", "sharing", "idle", "error", "closed"},
   registered : BOOLEAN, sharing : BOOLEAN,
   peers : SUBSET ViewerIds, offering : SUBSET ViewerIds]

ViewerPages ==
  [state : {"connecting", "joined", "negotiating", "ended", "error", "closed"},
   peerId : ViewerIds \cup {NoPeer}, pc : BOOLEAN, answering : BOOLEAN, told : BOOLEAN]

LEMMA PageTypes ==
  PageTypeOK <=> /\ hostPage \in [Hosts -> HostPages] /\ viewerPage \in [Viewers -> ViewerPages]
                 /\ dropped \in [Hosts -> SUBSET ViewerIds]
                 /\ \A h \in Hosts : hostPage[h].offering \subseteq hostPage[h].peers
  BY DEF PageTypeOK, HostPages, ViewerPages

\* The page of a host changes, but for its peers, which are told apart.
HostBecomes(h, peers) ==
  \E page \in HostPages :
    /\ hostPage' = [hostPage EXCEPT ![h] = page]
    /\ page.peers = peers /\ page.offering \subseteq peers

\* The page of a viewer changes, but keeps what it was told.
ViewerBecomes(v) ==
  \E page \in ViewerPages :
    /\ viewerPage' = [viewerPage EXCEPT ![v] = page]
    /\ page.peerId = viewerPage[v].peerId /\ page.pc = viewerPage[v].pc /\ page.told = viewerPage[v].told

\* What a closing connection does to its page.
PageCloses(s) ==
  IF s \in Hosts THEN HostBecomes(s, hostPage[s].peers) /\ UNCHANGED <<viewerPage, dropped>>
  ELSE ViewerBecomes(s) /\ UNCHANGED <<hostPage, dropped>>

\* A page that goes says nothing more, or that the session ends.
AsksNothing(s) ==
  \A i \in DOMAIN inbox'[s] :
    inbox'[s][i].type = "webrtc.offer" => i \in DOMAIN inbox[s] /\ inbox'[s][i] = inbox[s][i]

\* A host page shares, offers or stops.
HostAsks(h) ==
  /\ conn[h] = "open"
  /\ UNCHANGED <<hubVars, conn, sess, todo, outbox, viewerPage>>
  /\ \/ HostBecomes(h, hostPage[h].peers) /\ UNCHANGED <<inbox, dropped>>
     \/ /\ \E id \in hostPage[h].peers, token \in Tokens :
             inbox' = [inbox EXCEPT ![h] = Append(@, Request("webrtc.offer", PageRoom[h], token, id))]
        /\ HostBecomes(h, hostPage[h].peers) /\ UNCHANGED dropped
     \/ /\ \E token \in Tokens :
             inbox' = [inbox EXCEPT ![h] = Append(@, Request("session.end", PageRoom[h], token, NoPeer))]
        /\ HostBecomes(h, {})
        /\ dropped' = [dropped EXCEPT ![h] = @ \cup hostPage[h].peers]

ViewerAnswers(v) ==
  /\ conn[v] = "open" /\ ViewerBecomes(v)
  /\ inbox' = [inbox EXCEPT ![v] = Append(@, Request("webrtc.answer", PageRoom[v], NoToken, HostId))]
  /\ UNCHANGED <<hubVars, conn, sess, todo, outbox, hostPage, dropped>>

SignalingStep ==
  \/ \E s \in Sessions : ServerStep(s) /\ UNCHANGED pageVars
  \/ \E s \in Sessions : PageOpens(s) /\ UNCHANGED pageVars
  \/ \E s \in Sessions : PageTakes(s) /\ PageReceives(s)
  \/ \E s \in Sessions : PageGoes(s) /\ AsksNothing(s) /\ PageCloses(s)
  \/ \E h \in Hosts : HostAsks(h)
  \/ \E v \in Viewers : ViewerAnswers(v)
  \/ UNCHANGED <<wireVars, pageVars>>

LEMMA PageSendsAppends ==
  ASSUME WireTypeOK, NEW s \in Sessions, NEW m \in LaterRequests(s), conn[s] = "open", PageSends(s, <<m>>)
  PROVE  inbox' = [inbox EXCEPT ![s] = Append(@, m)]
  BY LaterFields, SendIsAppend

LEMMA HostRequests ==
  ASSUME NEW h \in Hosts, NEW token \in Tokens
  PROVE  /\ Request("session.end", PageRoom[h], token, NoPeer) \in LaterRequests(h)
         /\ \A id \in ViewerIds : Request("webrtc.offer", PageRoom[h], token, id) \in LaterRequests(h)
  BY DEF LaterRequests

LEMMA ViewerRequests ==
  ASSUME NEW v \in Viewers
  PROVE  Request("webrtc.answer", PageRoom[v], NoToken, HostId) \in LaterRequests(v)
  BY DEF LaterRequests, Viewers

LEMMA NextIsSignalingStep ==
  ASSUME ServerInv, PageTypeOK, [Next]_vars
  PROVE  SignalingStep /\ sends' \in [Sessions -> 0..MaxSends]
<1>0. WireTypeOK /\ sends \in [Sessions -> 0..MaxSends] /\ Hosts \subseteq Sessions
  BY HostsAssumption DEF ServerInv, WireTypeOK
<1>1. ASSUME NEW s \in Sessions, ServerStep(s), UNCHANGED pageVars
      PROVE  SignalingStep /\ sends' \in [Sessions -> 0..MaxSends]
  <2>1. UNCHANGED sends
    BY <1>1, ReadCases, LeaveCases DEF ServerStep, RunSend, RunFind, Destroy, sessionVars
  <2> QED BY <1>0, <1>1, <2>1 DEF SignalingStep
<1>2. ASSUME NEW s \in Sessions, PageConnects(s)
      PROVE  SignalingStep /\ sends' \in [Sessions -> 0..MaxSends]
  BY <1>0, <1>2, ConnectOpens DEF PageConnects, SignalingStep
<1>3. ASSUME NEW s \in Sessions, PageReceives(s)
      PROVE  SignalingStep /\ sends' \in [Sessions -> 0..MaxSends]
  BY <1>0, <1>3, ReceivesTakes DEF PageReceives, SignalingStep
<1>4. ASSUME NEW s \in Sessions, PageDisconnects(s)
      PROVE  SignalingStep /\ sends' \in [Sessions -> 0..MaxSends]
  <2>1. PageGoes(s) /\ sends' \in [Sessions -> 0..MaxSends]
    BY <1>0, <1>4, DisconnectGoes DEF PageDisconnects
  <2>2. ASSUME s \in Hosts PROVE HostBecomes(s, hostPage[s].peers)
    <3> DEFINE page == [hostPage[s] EXCEPT !.registered = FALSE, !.state = "closed"]
    <3>1. page \in HostPages /\ page.peers = hostPage[s].peers /\ page.offering \subseteq page.peers
      BY <2>2, PageTypes DEF HostPages
    <3>2. hostPage' = [hostPage EXCEPT ![s] = page]
      BY <1>4, <2>2 DEF PageDisconnects, SetHost
    <3> HIDE DEF page
    <3> QED BY <3>1, <3>2 DEF HostBecomes
  <2>3. ASSUME s \notin Hosts PROVE ViewerBecomes(s)
    <3> DEFINE page == [viewerPage[s] EXCEPT !.state = "closed"]
    <3>1. /\ page \in ViewerPages /\ page.peerId = viewerPage[s].peerId
          /\ page.pc = viewerPage[s].pc /\ page.told = viewerPage[s].told
      BY <2>3, PageTypes DEF ViewerPages, Viewers
    <3>2. viewerPage' = [viewerPage EXCEPT ![s] = page]
      BY <1>4, <2>3 DEF PageDisconnects, SetViewer
    <3> HIDE DEF page
    <3> QED BY <3>1, <3>2 DEF ViewerBecomes
  <2>4. PageCloses(s)
    BY <1>4, <2>2, <2>3 DEF PageDisconnects, PageCloses
  <2>5. AsksNothing(s)
    <3>1. PICK n \in 0..Len(inbox[s]) : inbox' = [inbox EXCEPT ![s] = SubSeq(@, 1, n)]
      BY <1>4 DEF PageDisconnects, Disconnect
    <3> QED BY <1>0, <3>1 DEF WireTypeOK, AsksNothing
  <2> QED BY <2>1, <2>4, <2>5 DEF SignalingStep
<1>5. ASSUME NEW h \in Hosts, StartShare(h)
      PROVE  SignalingStep /\ sends' \in [Sessions -> 0..MaxSends]
  <2>1. sends' \in [Sessions -> 0..MaxSends]
    BY <1>0, <1>5, MaxSendsAssumption DEF StartShare
  <2>2. HostBecomes(h, hostPage[h].peers)
    <3> DEFINE page == [hostPage[h] EXCEPT !.sharing = TRUE, !.state = "sharing", !.offering = hostPage[h].peers]
    <3>1. page \in HostPages /\ page.peers = hostPage[h].peers /\ page.offering \subseteq page.peers
      BY PageTypes DEF HostPages
    <3>2. hostPage' = [hostPage EXCEPT ![h] = page]
      BY <1>5 DEF StartShare, SetHost
    <3> HIDE DEF page
    <3> QED BY <3>1, <3>2 DEF HostBecomes
  <2>3. HostAsks(h)
    BY <1>5, <2>2 DEF StartShare, HostAsks
  <2> QED BY <2>1, <2>3 DEF SignalingStep
<1>6. ASSUME NEW h \in Hosts, StopShare(h)
      PROVE  SignalingStep /\ sends' \in [Sessions -> 0..MaxSends]
  <2>1. sends' \in [Sessions -> 0..MaxSends]
    BY <1>0, <1>6, MaxSendsAssumption DEF StopShare
  <2>2. HostBecomes(h, {})
    <3> DEFINE page == [hostPage[h] EXCEPT !.sharing = FALSE, !.peers = {}, !.offering = {},
                          !.state = IF hostPage[h].registered THEN "ready" ELSE "idle"]
    <3>1. page \in HostPages /\ page.peers = {} /\ page.offering = {}
      BY PageTypes DEF HostPages
    <3>2. hostPage' = [hostPage EXCEPT ![h] = page]
      BY <1>6 DEF StopShare, SetHost
    <3> HIDE DEF page
    <3> QED BY <3>1, <3>2 DEF HostBecomes
  <2>3. \E token \in Tokens :
          inbox' = [inbox EXCEPT ![h] = Append(@, Request("session.end", PageRoom[h], token, NoPeer))]
    BY <1>0, <1>6, HostRequests, PageSendsAppends DEF StopShare
  <2>4. HostAsks(h)
    BY <1>6, <2>2, <2>3 DEF StopShare, HostAsks
  <2> QED BY <2>1, <2>4 DEF SignalingStep
<1>7. ASSUME NEW h \in Hosts, NEW id \in ViewerIds, SendOffer(h, id)
      PROVE  SignalingStep /\ sends' \in [Sessions -> 0..MaxSends]
  <2>1. id \in hostPage[h].peers
    BY <1>7, PageTypes DEF SendOffer
  <2>2. HostBecomes(h, hostPage[h].peers)
    <3> DEFINE page == [hostPage[h] EXCEPT !.offering = @ \ {id}]
    <3>1. page \in HostPages /\ page.peers = hostPage[h].peers /\ page.offering \subseteq page.peers
      BY PageTypes DEF HostPages
    <3>2. hostPage' = [hostPage EXCEPT ![h] = page]
      BY <1>7 DEF SendOffer, SetHost
    <3> HIDE DEF page
    <3> QED BY <3>1, <3>2 DEF HostBecomes
  <2>3. \E token \in Tokens :
          inbox' = [inbox EXCEPT ![h] = Append(@, Request("webrtc.offer", PageRoom[h], token, id))]
    BY <1>0, <1>7, HostRequests, PageSendsAppends DEF SendOffer
  <2>4. HostAsks(h)
    BY <1>7, <2>1, <2>2, <2>3 DEF SendOffer, HostAsks
  <2> QED BY <1>0, <1>7, <2>4 DEF SignalingStep, SendOffer
<1>8. ASSUME NEW h \in Hosts, HostUnloads(h)
      PROVE  SignalingStep /\ sends' \in [Sessions -> 0..MaxSends]
  <2>1. PICK token \in Tokens : PageSends(h, <<Request("session.end", PageRoom[h], token, NoPeer)>>)
    BY <1>8 DEF HostUnloads
  <2>2. inbox' = [inbox EXCEPT ![h] = Append(@, Request("session.end", PageRoom[h], token, NoPeer))]
    BY <1>0, <1>8, <2>1, HostRequests, PageSendsAppends DEF HostUnloads
  <2>3. PageGoes(h)
    BY <1>8, <2>2, HostRequests DEF HostUnloads, PageGoes
  <2>4. HostBecomes(h, hostPage[h].peers)
    <3> DEFINE page == [hostPage[h] EXCEPT !.registered = FALSE, !.state = "closed"]
    <3>1. page \in HostPages /\ page.peers = hostPage[h].peers /\ page.offering \subseteq page.peers
      BY PageTypes DEF HostPages
    <3>2. hostPage' = [hostPage EXCEPT ![h] = page]
      BY <1>8 DEF HostUnloads, SetHost
    <3> HIDE DEF page
    <3> QED BY <3>1, <3>2 DEF HostBecomes
  <2>5. AsksNothing(h)
    <3> DEFINE m == Request("session.end", PageRoom[h], token, NoPeer)
    <3>1. m.type # "webrtc.offer" /\ m \in Requests
      BY HostRequests, LaterFields, <1>0 DEF Request
    <3>2. inbox' = [inbox EXCEPT ![h] = Append(@, m)]
      BY <2>2
    <3> HIDE DEF m
    <3> QED BY <1>0, <3>1, <3>2 DEF WireTypeOK, AsksNothing
  <2> QED BY <1>0, <1>8, <2>3, <2>4, <2>5 DEF SignalingStep, HostUnloads, PageCloses
<1>9. ASSUME NEW v \in Viewers, SendAnswer(v)
      PROVE  SignalingStep /\ sends' \in [Sessions -> 0..MaxSends]
  <2>1. inbox' = [inbox EXCEPT ![v] = Append(@, Request("webrtc.answer", PageRoom[v], NoToken, HostId))]
    BY <1>0, <1>9, ViewerRequests, PageSendsAppends DEF SendAnswer, Viewers
  <2>2. ViewerBecomes(v)
    <3> DEFINE page == [viewerPage[v] EXCEPT !.answering = FALSE]
    <3>1. /\ page \in ViewerPages /\ page.peerId = viewerPage[v].peerId
          /\ page.pc = viewerPage[v].pc /\ page.told = viewerPage[v].told
      BY PageTypes DEF ViewerPages
    <3>2. viewerPage' = [viewerPage EXCEPT ![v] = page]
      BY <1>9 DEF SendAnswer, SetViewer
    <3> HIDE DEF page
    <3> QED BY <3>1, <3>2 DEF ViewerBecomes
  <2> QED BY <1>0, <1>9, <2>1, <2>2 DEF SignalingStep, SendAnswer, ViewerAnswers
<1>10. CASE UNCHANGED vars
  BY <1>0, <1>10 DEF vars, serverVars, sessionVars, wireVars, SignalingStep
<1> QED BY <1>1, <1>2, <1>3, <1>4, <1>5, <1>6, <1>7, <1>8, <1>9, <1>10 DEF Next, HostStep

LEMMA SignalingIsAnyStep ==
  ASSUME SignalingStep, PageTypeOK, sends' \in [Sessions -> 0..MaxSends]
  PROVE  AnyStep
<1>1. ASSUME NEW h \in Hosts, HostAsks(h) PROVE AnyStep
  <2>1. h \in Sessions /\ hostPage[h].peers \subseteq ViewerIds
    BY HostsAssumption, PageTypes DEF HostPages
  <2>2. PageAsks(h) \/ UNCHANGED wireVars
    BY <1>1, <2>1, HostRequests DEF HostAsks, PageAsks, wireVars
  <2> QED BY <2>1, <2>2 DEF AnyStep, PageAct
<1>2. ASSUME NEW v \in Viewers, ViewerAnswers(v) PROVE AnyStep
  <2>1. PageAsks(v)
    BY <1>2, ViewerRequests DEF ViewerAnswers, PageAsks
  <2> QED BY <2>1 DEF AnyStep, PageAct, Viewers
<1> QED BY <1>1, <1>2 DEF SignalingStep, AnyStep, PageAct

----------------------------------------------------------------------------
(* What a page keeps of the messages it gets *)

HostHears(h, m, page) ==
  /\ hostPage' = [hostPage EXCEPT ![h] = page]
  /\ page \in HostPages /\ page.offering \subseteq page.peers
  /\ page.peers = IF m.type = "peer.joined" THEN hostPage[h].peers \cup {m.arg}
                  ELSE IF m.type = "peer.left" THEN hostPage[h].peers \ {m.arg}
                  ELSE hostPage[h].peers

LEMMA HostHearing ==
  ASSUME PageTypeOK, NEW h \in Hosts, NEW m \in Notices, HostReceives(h, m)
  PROVE  \E page : HostHears(h, m, page)
<1>0. /\ hostPage \in [Hosts -> HostPages] /\ hostPage[h] \in HostPages
      /\ hostPage[h].offering \subseteq hostPage[h].peers
  BY PageTypes
<1>1. m.type \in {"peer.joined", "peer.left"} => m.arg \in ViewerIds
  BY DEF Notices
<1> DEFINE old == hostPage[h]
<1>2. CASE m.type = "host.registered"
  <2> DEFINE page == [old EXCEPT !.registered = TRUE, !.state = "ready"]
  <2>1. page \in HostPages /\ page.peers = old.peers /\ page.offering = old.offering
    BY <1>0 DEF HostPages
  <2>2. hostPage' = [hostPage EXCEPT ![h] = page]
    BY <1>2 DEF HostReceives, SetHost
  <2> HIDE DEF page
  <2> QED BY <1>0, <1>2, <2>1, <2>2 DEF HostHears
<1>3. CASE m.type = "peer.joined"
  <2> DEFINE page == EnsurePeer(old, m.arg)
  <2>1. page \in HostPages /\ page.peers = old.peers \cup {m.arg} /\ page.offering \subseteq page.peers
    BY <1>0, <1>1, <1>3 DEF HostPages, EnsurePeer
  <2>2. hostPage' = [hostPage EXCEPT ![h] = page]
    BY <1>3 DEF HostReceives, SetHost
  <2> HIDE DEF page
  <2> QED BY <1>0, <1>3, <2>1, <2>2 DEF HostHears
<1>4. CASE m.type = "peer.left"
  <2> DEFINE page == CleanupPeer(old, m.arg)
  <2>1. page \in HostPages /\ page.peers = old.peers \ {m.arg} /\ page.offering \subseteq page.peers
    BY <1>0, <1>1, <1>4 DEF HostPages, CleanupPeer
  <2>2. hostPage' = [hostPage EXCEPT ![h] = page]
    BY <1>4 DEF HostReceives, SetHost
  <2> HIDE DEF page
  <2> QED BY <1>0, <1>4, <2>1, <2>2 DEF HostHears
<1>5. CASE m.type = "error"
  <2> DEFINE page == [old EXCEPT !.state = "error"]
  <2>1. page \in HostPages /\ page.peers = old.peers /\ page.offering = old.offering
    BY <1>0 DEF HostPages
  <2>2. hostPage' = [hostPage EXCEPT ![h] = page]
    BY <1>5 DEF HostReceives, SetHost
  <2> HIDE DEF page
  <2> QED BY <1>0, <1>5, <2>1, <2>2 DEF HostHears
<1>6. CASE m.type \notin {"host.registered", "peer.joined", "peer.left", "error"}
  <2>1. hostPage' = hostPage
    BY <1>6 DEF HostReceives
  <2>2. hostPage' = [hostPage EXCEPT ![h] = old]
    BY <1>0, <2>1
  <2> QED BY <1>0, <1>6, <2>2 DEF HostHears
<1> QED BY <1>2, <1>3, <1>4, <1>5, <1>6

ViewerHears(v, m, page) ==
  /\ viewerPage' = [viewerPage EXCEPT ![v] = page] /\ page \in ViewerPages
  /\ page.peerId = IF m.type = "room.joined" THEN m.arg ELSE viewerPage[v].peerId
  /\ page.pc => viewerPage[v].pc \/ m.type = "webrtc.offer"
  /\ viewerPage[v].told \/ m.type = "session.ended" => page.told

LEMMA ViewerHearing ==
  ASSUME PageTypeOK, NEW v \in Viewers, NEW m \in Notices, ViewerReceives(v, m)
  PROVE  \E page : ViewerHears(v, m, page)
<1>0. viewerPage \in [Viewers -> ViewerPages] /\ viewerPage[v] \in ViewerPages
  BY PageTypes
<1>1. m.type = "room.joined" => m.arg \in ViewerIds
  BY DEF Notices
<1> DEFINE old == viewerPage[v]
<1>2. CASE m.type = "room.joined"
  <2> DEFINE page == [old EXCEPT !.peerId = m.arg, !.state = "joined"]
  <2>1. page \in ViewerPages /\ page.peerId = m.arg /\ page.pc = old.pc /\ page.told = old.told
    BY <1>0, <1>1, <1>2 DEF ViewerPages
  <2>2. viewerPage' = [viewerPage EXCEPT ![v] = page]
    BY <1>2 DEF ViewerReceives, SetViewer
  <2> HIDE DEF page
  <2> QED BY <1>2, <2>1, <2>2 DEF ViewerHears
<1>3. CASE m.type = "webrtc.offer"
  <2> DEFINE page == [old EXCEPT !.state = "negotiating", !.pc = TRUE, !.answering = TRUE]
  <2>1. page \in ViewerPages /\ page.peerId = old.peerId /\ page.told = old.told
    BY <1>0 DEF ViewerPages
  <2>2. viewerPage' = [viewerPage EXCEPT ![v] = page]
    BY <1>3 DEF ViewerReceives, SetViewer
  <2> HIDE DEF page
  <2> QED BY <1>3, <2>1, <2>2 DEF ViewerHears
<1>4. CASE m.type = "session.ended"
  <2> DEFINE page == [old EXCEPT !.state = "ended", !.pc = FALSE, !.answering = FALSE, !.told = TRUE]
  <2>1. page \in ViewerPages /\ page.peerId = old.peerId /\ page.told /\ ~page.pc
    BY <1>0 DEF ViewerPages
  <2>2. viewerPage' = [viewerPage EXCEPT ![v] = page]
    BY <1>4 DEF ViewerReceives, SetViewer
  <2> HIDE DEF page
  <2> QED BY <1>4, <2>1, <2>2 DEF ViewerHears
<1>5. CASE m.type = "error"
  <2> DEFINE page == [old EXCEPT !.state = "error"]
  <2>1. page \in ViewerPages /\ page.peerId = old.peerId /\ page.pc = old.pc /\ page.told = old.told
    BY <1>0 DEF ViewerPages
  <2>2. viewerPage' = [viewerPage EXCEPT ![v] = page]
    BY <1>5 DEF ViewerReceives, SetViewer
  <2> HIDE DEF page
  <2> QED BY <1>5, <2>1, <2>2 DEF ViewerHears
<1>6. CASE m.type \notin {"room.joined", "webrtc.offer", "session.ended", "error"}
  <2>1. viewerPage' = viewerPage
    BY <1>6 DEF ViewerReceives
  <2>2. viewerPage' = [viewerPage EXCEPT ![v] = old]
    BY <1>0, <2>1
  <2> QED BY <1>0, <1>6, <2>2 DEF ViewerHears
<1> QED BY <1>2, <1>3, <1>4, <1>5, <1>6

\* The next message of a page.
LEMMA HeadIsNotice ==
  ASSUME ServerInv, NEW s \in Sessions, outbox[s] # <<>>
  PROVE  Head(outbox[s]) \in Notices /\ Head(outbox[s]) = outbox[s][1] /\ 1 \in DOMAIN outbox[s]
  BY DEF ServerInv, WireTypeOK

\* What a page is told.
LEMMA Receptions ==
  ASSUME ServerInv, PageTypeOK, NEW s \in Sessions, PageReceives(s)
  PROVE  /\ s \in Hosts => UNCHANGED viewerPage /\ \E page : HostHears(s, Head(outbox[s]), page)
         /\ s \notin Hosts => UNCHANGED hostPage /\ \E page : ViewerHears(s, Head(outbox[s]), page)
         /\ UNCHANGED dropped /\ outbox[s] # <<>> /\ Head(outbox[s]) \in Notices
<1>1. outbox[s] # <<>> /\ Head(outbox[s]) \in Notices
  BY HeadIsNotice DEF PageReceives, ClientReceives
<1> QED BY <1>1, HostHearing, ViewerHearing DEF PageReceives, Viewers

LEMMA PageTypeStep ==
  ASSUME ServerInv, PageTypeOK, SignalingStep
  PROVE  PageTypeOK'
<1>0. /\ hostPage \in [Hosts -> HostPages] /\ viewerPage \in [Viewers -> ViewerPages]
      /\ dropped \in [Hosts -> SUBSET ViewerIds]
      /\ \A h \in Hosts : hostPage[h].offering \subseteq hostPage[h].peers
  BY PageTypes
<1>1. ASSUME hostPage' \in [Hosts -> HostPages], viewerPage' \in [Viewers -> ViewerPages],
             dropped' \in [Hosts -> SUBSET ViewerIds],
             \A h \in Hosts : hostPage'[h].offering \subseteq hostPage'[h].peers
      PROVE  PageTypeOK'
  BY <1>1 DEF PageTypeOK, HostPages, ViewerPages
<1>2. CASE UNCHANGED pageVars
  BY <1>0, <1>1, <1>2 DEF pageVars
<1>3. ASSUME NEW s \in Sessions, PageReceives(s) PROVE PageTypeOK'
  <2>1. CASE s \in Hosts
    <3>1. PICK page : HostHears(s, Head(outbox[s]), page)
      BY <1>3, <2>1, Receptions
    <3>2. UNCHANGED <<viewerPage, dropped>>
      BY <1>3, <2>1, Receptions
    <3> QED BY <1>0, <1>1, <2>1, <3>1, <3>2 DEF HostHears
  <2>2. CASE s \notin Hosts
    <3>1. PICK page : ViewerHears(s, Head(outbox[s]), page)
      BY <1>3, <2>2, Receptions
    <3>2. UNCHANGED <<hostPage, dropped>>
      BY <1>3, <2>2, Receptions
    <3> QED BY <1>0, <1>1, <2>2, <3>1, <3>2 DEF ViewerHears
  <2> QED BY <2>1, <2>2
<1>7. ASSUME NEW h \in Hosts, NEW peers, HostBecomes(h, peers)
      PROVE  /\ hostPage' \in [Hosts -> HostPages]
             /\ \A g \in Hosts : hostPage'[g].offering \subseteq hostPage'[g].peers
  <2>1. PICK page \in HostPages : /\ hostPage' = [hostPage EXCEPT ![h] = page]
                                  /\ page.peers = peers /\ page.offering \subseteq peers
    BY <1>7 DEF HostBecomes
  <2> QED BY <1>0, <2>1
<1>8. ASSUME NEW v \in Viewers, ViewerBecomes(v) PROVE viewerPage' \in [Viewers -> ViewerPages]
  BY <1>0, <1>8 DEF ViewerBecomes
<1>4. ASSUME NEW s \in Sessions, PageCloses(s) PROVE PageTypeOK'
  BY <1>0, <1>1, <1>4, <1>7, <1>8 DEF PageCloses, Viewers
<1>5. ASSUME NEW h \in Hosts, HostAsks(h) PROVE PageTypeOK'
  <2>1. \E peers : HostBecomes(h, peers)
    BY <1>5 DEF HostAsks
  <2>2. dropped' \in [Hosts -> SUBSET ViewerIds]
    BY <1>0, <1>5 DEF HostAsks, HostPages
  <2> QED BY <1>0, <1>1, <1>5, <1>7, <2>1, <2>2 DEF HostAsks
<1>6. ASSUME NEW v \in Viewers, ViewerAnswers(v) PROVE PageTypeOK'
  BY <1>0, <1>1, <1>6, <1>8 DEF ViewerAnswers
<1> QED BY <1>2, <1>3, <1>4, <1>5, <1>6 DEF SignalingStep

----------------------------------------------------------------------------
(* What a step does to the calls and the messages *)

\* A handler with the calls q goes on with new: its next call is replaced by
\* what is left to send of it, m to the sessions of a set.
GoesOn(q, to, m, new) ==
  /\ \A i \in DOMAIN new :
       \/ i = 1 /\ to # {} /\ new[i] = [op |-> "send", to |-> to, msg |-> m]
       \/ \E j \in DOMAIN q : j \in {i, i + 1} /\ j # 1 /\ new[i] = q[j]
  /\ to # {} => 1 \in DOMAIN new /\ new[1] = [op |-> "send", to |-> to, msg |-> m]
  /\ to = {} => \A i \in DOMAIN new : i + 1 \in DOMAIN q /\ new[i] = q[i + 1]
  /\ \A j \in DOMAIN q : j # 1 => \E i \in DOMAIN new : i \in {j, j - 1} /\ new[i] = q[j]

LEMMA NoneLeft ==
  ASSUME NEW q, NEW m, NEW new, Len(q) \in Nat \ {0}, DOMAIN q = 1..Len(q), DOMAIN new = 1..(Len(q) - 1),
         \A i \in 1..(Len(q) - 1) : new[i] = q[i + 1]
  PROVE  GoesOn(q, {}, m, new)
<1>1. \A i \in DOMAIN new : i + 1 \in DOMAIN q /\ i + 1 # 1 /\ new[i] = q[i + 1]
  OBVIOUS
<1>2. \A j \in DOMAIN q : j # 1 => j - 1 \in DOMAIN new /\ j = (j - 1) + 1
  OBVIOUS
<1>3. \A j \in DOMAIN q : j # 1 => j - 1 \in DOMAIN new /\ new[j - 1] = q[j]
  BY <1>1, <1>2
<1> QED BY <1>1, <1>3 DEF GoesOn

LEMMA SomeLeft ==
  ASSUME NEW q, NEW m, NEW to, to # {}, NEW new, Len(q) \in Nat \ {0},
         DOMAIN q = 1..Len(q), DOMAIN new = 1..Len(q),
         new[1] = [op |-> "send", to |-> to, msg |-> m],
         \A i \in 2..Len(q) : new[i] = q[i]
  PROVE  GoesOn(q, to, m, new)
<1>1. 1 \in DOMAIN new /\ \A i \in 1..Len(q) : i = 1 \/ i \in 2..Len(q)
  OBVIOUS
<1>2. \A i \in DOMAIN new : i = 1 \/ (i \in DOMAIN q /\ i # 1 /\ new[i] = q[i])
  BY <1>1
<1>3. \A j \in DOMAIN q : j # 1 => j \in DOMAIN new /\ new[j] = q[j]
  BY <1>1
<1> QED BY <1>1, <1>2, <1>3 DEF GoesOn

LEMMA CallsBehind ==
  ASSUME NEW q \in Seq(NoticeCalls), q # <<>>, NEW to \in SUBSET Sessions, NEW m \in Notices
  PROVE  GoesOn(q, to, m, SendTo(to, m) \o Tail(q))
<1>1. /\ Tail(q) \in Seq(NoticeCalls) /\ Len(Tail(q)) = Len(q) - 1 /\ Len(q) \in Nat \ {0}
      /\ DOMAIN q = 1..Len(q) /\ \A i \in 1..(Len(q) - 1) : Tail(q)[i] = q[i + 1]
  OBVIOUS
<1>2. CASE to = {}
  <2>1. SendTo(to, m) \o Tail(q) = Tail(q)
    BY <1>1, <1>2, NothingAhead DEF SendTo
  <2>2. DOMAIN Tail(q) = 1..(Len(q) - 1)
    BY <1>1
  <2> QED BY <1>1, <1>2, <2>1, <2>2, NoneLeft
<1>3. CASE to # {}
  <2> DEFINE c == [op |-> "send", to |-> to, msg |-> m]
             rest == Tail(q)
             new == <<c>> \o rest
  <2>1. SendTo(to, m) \o Tail(q) = new
    BY <1>3 DEF SendTo
  <2>2. c \in NoticeCalls
    BY <1>3 DEF NoticeCalls, SendCalls
  <2>3. rest \in Seq(NoticeCalls) /\ Len(rest) = Len(q) - 1 /\ \A i \in 1..Len(rest) : rest[i] = q[i + 1]
    BY <1>1
  <2>4. /\ new \in Seq(NoticeCalls) /\ Len(new) = Len(rest) + 1 /\ new[1] = c
        /\ \A i \in 1..Len(rest) : new[i + 1] = rest[i]
    <3> HIDE DEF c, rest
    <3> QED BY <2>2, <2>3, CallAhead
  <2>5. new[1] = [op |-> "send", to |-> to, msg |-> m]
    BY <2>4
  <2> HIDE DEF c, rest, new
  <2>6. DOMAIN new = 1..Len(q)
    BY <1>1, <2>3, <2>4
  <2>7. \A i \in 2..Len(q) : i - 1 \in 1..Len(rest) /\ i = (i - 1) + 1
    BY <1>1, <2>3
  <2>8. \A i \in 2..Len(q) : new[i] = q[i]
    BY <2>3, <2>4, <2>7
  <2>9. GoesOn(q, to, m, new)
    BY <1>1, <1>3, <2>5, <2>6, <2>8, SomeLeft
  <2> QED BY <2>1, <2>9
<1> QED BY <1>2, <1>3

\* Messages without consequences for who knows whom.
PlainTypes == {"error", "host.registered", "session.ended", "session.end.ack"}

\* The handler of s sends to the page of t.
Sends(s, t) ==
  LET c == Head(todo[s])
  IN  /\ todo[s] # <<>> /\ c \in SendCalls /\ t \in c.to
      /\ todo' = [todo EXCEPT ![s] = SendTo(c.to \ {t}, c.msg) \o Tail(todo[s])]
      /\ outbox' = IF conn[t] = "open" THEN [outbox EXCEPT ![t] = Append(@, c.msg)] ELSE outbox
      /\ UNCHANGED <<hubVars, conn, sess, inbox>>

Finds(s) ==
  LET c == Head(todo[s])
  IN  /\ todo[s] # <<>> /\ c \in FindCalls
      /\ todo' = [todo EXCEPT ![s] = SendTo(Found(c.room, c.peer), c.msg) \o Tail(todo[s])]
      /\ UNCHANGED <<hubVars, conn, sess, inbox, outbox>>

LEMMA RunSendSends ==
  ASSUME ServerInv, NEW s \in Sessions, RunSend(s)
  PROVE  \E t \in Sessions : Sends(s, t)
<1>1. PICK t \in Sessions :
        LET c == Head(todo[s])
            rest == SendTo(c.to \ {t}, c.msg) \o Tail(todo[s])
        IN  /\ c \in SendCalls /\ t \in c.to /\ todo[s] # <<>>
            /\ CallsAre(s, rest)
            /\ outbox' = IF conn[t] = "open" THEN [outbox EXCEPT ![t] = Append(@, c.msg)] ELSE outbox
            /\ outbox' \in [Sessions -> Seq(Notices)]
            /\ UNCHANGED <<hubVars, conn, sess, inbox, sends>>
  BY SendCases
<1> QED BY <1>1 DEF CallsAre, Sends

LEMMA RunFindFinds ==
  ASSUME ServerInv, NEW s \in Sessions, RunFind(s)
  PROVE  Finds(s)
  BY FindCases DEF CallsAre, Finds

\* The calls a read begins.
LEMMA CallsBegun ==
  ASSUME ServerInv, NEW s \in Sessions, OnRead(s)
  PROVE  /\ todo[s] = <<>> /\ \A t \in Sessions \ {s} : todo'[t] = todo[t]
         /\ \/ \E id \in ViewerIds :
                 /\ Joins(s, id)
                 /\ todo'[s] = << [op |-> "send", to |-> {s}, msg |-> RoomJoined(id)],
                                  [op |-> "find", room |-> PageRoom[s], peer |-> HostId, msg |-> PeerJoined(id)] >>
            \/ \A i \in DOMAIN todo'[s] : todo'[s][i].msg.type \in PlainTypes
            \/ /\ Head(inbox[s]) \in LaterRequests(s) /\ Head(inbox[s]).type \in Relayed
               /\ todo'[s] = RelayCallList(s, Head(inbox[s]))
<1>0. todo[s] = <<>> /\ \A t \in Sessions \ {s} : todo'[t] = todo[t]
  BY ReadCases, CallsAfterRead, CallsType
<1>1. ASSUME NEW m \in Notices, CallsAre(s, Reply(s, m)), m.type \in PlainTypes
      PROVE  \A i \in DOMAIN todo'[s] : todo'[s][i].msg.type \in PlainTypes
  <2>1. todo'[s] = <<[op |-> "send", to |-> {s}, msg |-> m]>>
    BY <1>1, CallsType, ReplyIs
  <2> QED BY <1>1, <2>1
<1>2. CASE Registers(s)
  <2>1. HostRegistered.type \in PlainTypes
    BY DEF HostRegistered, Msg, PlainTypes
  <2> QED BY <1>0, <1>1, <1>2, <2>1, CallsRegistered, NoticeTypes
<1>3. \A code : Error(code).type \in PlainTypes
  BY DEF Error, Msg, PlainTypes
<1>4. CASE Rejected(s)
  BY <1>0, <1>1, <1>3, <1>4, CallsRejected, NoticeTypes
<1>5. CASE Fails(s)
  BY <1>0, <1>1, <1>3, <1>5, CallsFailed, NoticeTypes
<1>6. ASSUME NEW id \in ViewerIds, Joins(s, id)
      PROVE  todo'[s] = << [op |-> "send", to |-> {s}, msg |-> RoomJoined(id)],
                           [op |-> "find", room |-> PageRoom[s], peer |-> HostId, msg |-> PeerJoined(id)] >>
  BY <1>6, CallsJoined, CallsType, JoinCalls
<1>7. CASE Later(s)
  <2>1. PICK calls \in LaterCalls(s, Head(inbox[s])) : CallsAre(s, calls)
    BY <1>7, CallsLater
  <2>2. todo'[s] = calls
    BY <2>1, CallsType
  <2>3. CASE calls = <<>>
    BY <1>0, <2>2, <2>3
  <2>4. CASE calls = Reply(s, Error("UNAUTHORIZED_HOST"))
    BY <1>0, <1>1, <1>3, <2>1, <2>4, NoticeTypes
  <2>5. CASE calls = EndCalls(s)
    <3>1. todo'[s] = EndCallList(s)
      BY <2>2, <2>5, LaterCallList
    <3>2. \A i \in DOMAIN EndCallList(s) : EndCallList(s)[i].msg.type \in PlainTypes
      <4>1. SessionEnded("host_stopped").type \in PlainTypes /\ SessionEndAck.type \in PlainTypes
        BY DEF SessionEnded, SessionEndAck, Msg, PlainTypes
      <4>2. /\ DOMAIN EndCallList(s) = {1, 2}
            /\ EndCallList(s)[1].msg = SessionEnded("host_stopped") /\ EndCallList(s)[2].msg = SessionEndAck
        BY DEF EndCallList
      <4> QED BY <4>1, <4>2
    <3> QED BY <1>0, <3>1, <3>2
  <2>6. CASE calls = RelayCalls(s, Head(inbox[s])) /\ Head(inbox[s]).type \in Relayed
    BY <1>0, <1>7, <2>2, <2>6, LaterCallList DEF Later
  <2> QED BY <2>1, <2>3, <2>4, <2>5, <2>6 DEF LaterCalls
<1> QED BY <1>0, <1>2, <1>4, <1>5, <1>6, <1>7, ReadCases

\* The calls the end of a read loop begins.
LEMMA CallsAtEnd ==
  ASSUME ServerInv, NEW s \in Sessions, OnReadError(s)
  PROVE  /\ todo[s] = <<>> /\ \A t \in Sessions \ {s} : todo'[t] = todo[t]
         /\ \A i \in DOMAIN todo'[s] :
              \/ todo'[s][i].msg.type \in PlainTypes
              \/ sess[s].peerId \in ViewerIds /\ todo'[s][i].msg = PeerLeft(sess[s].peerId)
         /\ Leaves(s) => todo'[s] = LeaveNotices(PageRoom[s], sess[s].peerId)
<1>1. todo[s] = <<>> /\ todo \in [Sessions -> Seq(NoticeCalls)]
  BY LeaveCases DEF ServerInv, WireTypeOK
<1>2. CASE UNCHANGED todo /\ ~Leaves(s)
  BY <1>1, <1>2
<1>3. CASE Leaves(s)
  <2>1. todo'[s] = LeaveNotices(PageRoom[s], sess[s].peerId) /\ \A t \in Sessions \ {s} : todo'[t] = todo[t]
    BY <1>3, CallsType DEF Leaves
  <2>2. \A to, m : SendTo(to, m) = <<>> \/ SendTo(to, m) = <<[op |-> "send", to |-> to, msg |-> m]>>
    BY DEF SendTo
  <2>3. \A to, m : \A i \in DOMAIN SendTo(to, m) : SendTo(to, m)[i].msg = m
    <3> SUFFICES ASSUME NEW to, NEW m, NEW i \in DOMAIN SendTo(to, m) PROVE SendTo(to, m)[i].msg = m
      OBVIOUS
    <3> DEFINE c == [op |-> "send", to |-> to, msg |-> m]
    <3>1. c.msg = m
      OBVIOUS
    <3>2. SendTo(to, m) = <<>> \/ SendTo(to, m) = <<c>>
      BY <2>2
    <3> HIDE DEF c
    <3>3. CASE SendTo(to, m) = <<>>
      BY <3>3
    <3>4. CASE SendTo(to, m) = <<c>>
      <4>1. i = 1
        BY <3>4
      <4> QED BY <3>1, <3>4, <4>1
    <3> QED BY <3>2, <3>3, <3>4
  <2>4. SessionEnded("host_disconnected").type \in PlainTypes
    BY DEF SessionEnded, Msg, PlainTypes
  <2>5. sess[s].peerId = HostId \/ (sess[s].peerId \in ViewerIds /\ sess[s].peerId # HostId)
    BY <1>3, PeerNames DEF Leaves, Peers
  <2> QED BY <1>1, <2>1, <2>3, <2>4, <2>5 DEF LeaveNotices
<1> QED BY <1>2, <1>3, LeaveCases

\* The steps of the server as its pages see them.
LEMMA ServerSteps ==
  ASSUME ServerInv, NEW s \in Sessions, ServerStep(s)
  PROVE  \/ OnRead(s) /\ UNCHANGED <<conn, outbox>>
         \/ OnReadError(s) /\ UNCHANGED <<sess, inbox, outbox>>
         \/ \E t \in Sessions : Sends(s, t)
         \/ Finds(s)
         \/ UNCHANGED <<conn, sess, todo, inbox, outbox, hostOf, viewersOf>>
  BY ReadCases, LeaveCases, RunSendSends, RunFindFinds DEF ServerStep, Destroy, Free, sessionVars

LEMMA OutboxMoves ==
  ASSUME ServerInv, SignalingStep, NEW s \in Sessions
  PROVE  \/ outbox'[s] = outbox[s]
         \/ outbox'[s] = Tail(outbox[s]) /\ outbox[s] # <<>> /\ PageReceives(s)
         \/ outbox'[s] = <<>> /\ PageGoes(s) /\ conn'[s] = "closing"
         \/ \E t \in Sessions :
              /\ Sends(t, s) /\ conn[s] = "open" /\ UNCHANGED pageVars
              /\ outbox'[s] = Append(outbox[s], Head(todo[t]).msg)
<1>0. outbox \in [Sessions -> Seq(Notices)] /\ conn \in [Sessions -> {"none", "open", "closing", "closed"}]
  BY DEF ServerInv, WireTypeOK
<1>1. ASSUME NEW t \in Sessions, ServerStep(t), UNCHANGED pageVars
      PROVE  \/ outbox'[s] = outbox[s]
             \/ /\ Sends(t, s) /\ conn[s] = "open" /\ outbox'[s] = Append(outbox[s], Head(todo[t]).msg)
  <2>1. ASSUME NEW x \in Sessions, Sends(t, x)
        PROVE  \/ outbox'[s] = outbox[s]
               \/ /\ Sends(t, s) /\ conn[s] = "open" /\ outbox'[s] = Append(outbox[s], Head(todo[t]).msg)
    <3>1. outbox' = IF conn[x] = "open" THEN [outbox EXCEPT ![x] = Append(@, Head(todo[t]).msg)] ELSE outbox
      BY <2>1 DEF Sends
    <3> QED BY <1>0, <2>1, <3>1
  <2> QED BY <1>1, <2>1, ServerSteps DEF Finds
<1>2. ASSUME NEW t \in Sessions, PageReceives(t)
      PROVE  outbox'[s] = outbox[s] \/ (outbox'[s] = Tail(outbox[s]) /\ outbox[s] # <<>> /\ PageReceives(s))
  BY <1>0, <1>2 DEF PageReceives, ClientReceives
<1>3. ASSUME NEW t \in Sessions, PageGoes(t)
      PROVE  outbox'[s] = outbox[s] \/ (outbox'[s] = <<>> /\ PageGoes(s) /\ conn'[s] = "closing")
  BY <1>0, <1>3 DEF PageGoes
<1> QED BY <1>1, <1>2, <1>3 DEF SignalingStep, PageOpens, HostAsks, ViewerAnswers, wireVars

LEMMA TodoMoves ==
  ASSUME ServerInv, SignalingStep, NEW t \in Sessions
  PROVE  \/ todo'[t] = todo[t]
         \/ \E s \in Sessions : Sends(t, s)
         \/ Finds(t)
         \/ OnRead(t) /\ todo[t] = <<>>
         \/ OnReadError(t) /\ todo[t] = <<>>
<1>0. todo \in [Sessions -> Seq(NoticeCalls)]
  BY DEF ServerInv, WireTypeOK
<1>1. ASSUME NEW s \in Sessions, OnRead(s) PROVE todo'[t] = todo[t] \/ (OnRead(t) /\ todo[t] = <<>>)
  BY <1>1, CallsBegun
<1>2. ASSUME NEW s \in Sessions, OnReadError(s) PROVE todo'[t] = todo[t] \/ (OnReadError(t) /\ todo[t] = <<>>)
  BY <1>2, CallsAtEnd
<1>3. ASSUME NEW s \in Sessions, NEW x \in Sessions, Sends(s, x) PROVE todo'[t] = todo[t] \/ Sends(t, x)
  BY <1>0, <1>3 DEF Sends
<1>4. ASSUME NEW s \in Sessions, Finds(s) PROVE todo'[t] = todo[t] \/ Finds(t)
  BY <1>0, <1>4 DEF Finds
<1>5. ASSUME NEW s \in Sessions, ServerStep(s)
      PROVE  \/ todo'[t] = todo[t]
             \/ \E x \in Sessions : Sends(t, x)
             \/ Finds(t)
             \/ OnRead(t) /\ todo[t] = <<>>
             \/ OnReadError(t) /\ todo[t] = <<>>
  BY <1>1, <1>2, <1>3, <1>4, <1>5, ServerSteps
<1> QED BY <1>5 DEF SignalingStep, PageOpens, PageTakes, PageGoes, HostAsks, ViewerAnswers, wireVars

LEMMA SendsMoves ==
  ASSUME ServerInv, NEW s \in Sessions, NEW t \in Sessions, Sends(s, t)
  PROVE  /\ todo[s] \in Seq(NoticeCalls) /\ 1 \in DOMAIN todo[s] /\ Head(todo[s]) = todo[s][1]
         /\ todo[s][1] \in SendCalls /\ t \in todo[s][1].to
         /\ GoesOn(todo[s], todo[s][1].to \ {t}, todo[s][1].msg, todo'[s])
         /\ \A x \in Sessions \ {s} : todo'[x] = todo[x]
<1> DEFINE q == todo[s]
           c == Head(q)
<1>1. /\ todo \in [Sessions -> Seq(NoticeCalls)] /\ q \in Seq(NoticeCalls) /\ q # <<>>
      /\ 1 \in DOMAIN q /\ q[1] = c /\ c \in SendCalls /\ t \in c.to
      /\ todo' = [todo EXCEPT ![s] = SendTo(c.to \ {t}, c.msg) \o Tail(q)]
  BY DEF Sends, ServerInv, WireTypeOK
<1>2. c.to \subseteq Sessions /\ c.msg \in Notices /\ c.to \ {t} \in SUBSET Sessions
  BY <1>1 DEF SendCalls
<1>3. todo'[s] = SendTo(c.to \ {t}, c.msg) \o Tail(q) /\ \A x \in Sessions \ {s} : todo'[x] = todo[x]
  BY <1>1
<1>4. GoesOn(q, c.to \ {t}, c.msg, SendTo(c.to \ {t}, c.msg) \o Tail(q))
  <2> HIDE DEF q, c
  <2> QED BY <1>1, <1>2, CallsBehind
<1> QED BY <1>1, <1>2, <1>3, <1>4

LEMMA FindsMoves ==
  ASSUME ServerInv, NEW s \in Sessions, Finds(s)
  PROVE  /\ todo[s] \in Seq(NoticeCalls) /\ 1 \in DOMAIN todo[s] /\ Head(todo[s]) = todo[s][1]
         /\ todo[s][1] \in FindCalls /\ Found(todo[s][1].room, todo[s][1].peer) \subseteq Sessions
         /\ GoesOn(todo[s], Found(todo[s][1].room, todo[s][1].peer), todo[s][1].msg, todo'[s])
         /\ \A x \in Sessions \ {s} : todo'[x] = todo[x]
<1> DEFINE q == todo[s]
           c == Head(q)
           found == Found(c.room, c.peer)
<1>1. /\ todo \in [Sessions -> Seq(NoticeCalls)] /\ q \in Seq(NoticeCalls) /\ q # <<>>
      /\ 1 \in DOMAIN q /\ q[1] = c /\ c \in FindCalls
      /\ todo' = [todo EXCEPT ![s] = SendTo(found, c.msg) \o Tail(q)]
  BY DEF Finds, ServerInv, WireTypeOK
<1>2. c.room \in Rooms /\ c.peer \in Peers \cup {AllViewers} /\ c.msg \in Notices
  BY <1>1 DEF FindCalls
<1>3. todo'[s] = SendTo(found, c.msg) \o Tail(q) /\ \A x \in Sessions \ {s} : todo'[x] = todo[x]
  BY <1>1
<1>4. found \in SUBSET Sessions
  BY <1>2, FoundSessions DEF ServerInv
<1>5. GoesOn(q, found, c.msg, SendTo(found, c.msg) \o Tail(q))
  <2> HIDE DEF q, c, found
  <2> QED BY <1>1, <1>2, <1>4, CallsBehind
<1> QED BY <1>1, <1>3, <1>4, <1>5

\* Where the messages in a handler's calls come from.
LEMMA CallsOrigin ==
  ASSUME ServerInv, SignalingStep, NEW t \in Sessions, NEW i \in DOMAIN todo'[t]
  PROVE  \/ \E j \in DOMAIN todo[t] : todo'[t][i].msg = todo[t][j].msg
         \/ OnRead(t) \/ OnReadError(t)
<1>1. ASSUME NEW s \in Sessions, Sends(t, s) PROVE \E j \in DOMAIN todo[t] : todo'[t][i].msg = todo[t][j].msg
  <2>1. 1 \in DOMAIN todo[t] /\ GoesOn(todo[t], todo[t][1].to \ {s}, todo[t][1].msg, todo'[t])
    BY <1>1, SendsMoves
  <2> QED BY <2>1 DEF GoesOn
<1>2. ASSUME Finds(t) PROVE \E j \in DOMAIN todo[t] : todo'[t][i].msg = todo[t][j].msg
  <2>1. 1 \in DOMAIN todo[t] /\ GoesOn(todo[t], Found(todo[t][1].room, todo[t][1].peer), todo[t][1].msg, todo'[t])
    BY <1>2, FindsMoves
  <2> QED BY <2>1 DEF GoesOn
<1> QED BY <1>1, <1>2, TodoMoves

\* Where the messages on the way to a page come from.
LEMMA MessagesOrigin ==
  ASSUME ServerInv, SignalingStep, NEW s \in Sessions, NEW i \in DOMAIN outbox'[s]
  PROVE  \/ \E j \in DOMAIN outbox[s] : outbox'[s][i] = outbox[s][j]
         \/ \E t \in Sessions :
              Sends(t, s) /\ conn[s] = "open" /\ 1 \in DOMAIN todo[t] /\ outbox'[s][i] = todo[t][1].msg
<1>0. outbox[s] \in Seq(Notices)
  BY DEF ServerInv, WireTypeOK
<1>1. CASE outbox'[s] = outbox[s]
  BY <1>1
<1>2. CASE outbox'[s] = Tail(outbox[s]) /\ outbox[s] # <<>>
  <2>1. i + 1 \in DOMAIN outbox[s] /\ outbox'[s][i] = outbox[s][i + 1]
    BY <1>0, <1>2
  <2> QED BY <2>1
<1>3. CASE outbox'[s] = <<>>
  BY <1>3
<1>4. ASSUME NEW t \in Sessions, Sends(t, s), conn[s] = "open", outbox'[s] = Append(outbox[s], Head(todo[t]).msg)
      PROVE  \/ \E j \in DOMAIN outbox[s] : outbox'[s][i] = outbox[s][j]
             \/ 1 \in DOMAIN todo[t] /\ outbox'[s][i] = todo[t][1].msg
  <2>1. 1 \in DOMAIN todo[t] /\ Head(todo[t]) = todo[t][1]
    BY <1>4, SendsMoves
  <2>2. (i \in DOMAIN outbox[s] /\ outbox'[s][i] = outbox[s][i]) \/ outbox'[s][i] = Head(todo[t]).msg
    BY <1>0, <1>4
  <2> QED BY <2>1, <2>2
<1> QED BY <1>1, <1>2, <1>3, <1>4, OutboxMoves

\* A message on its way to an open page stays on its way until the page gets it.
LEMMA StaysOnItsWay ==
  ASSUME ServerInv, SignalingStep, NEW s \in Sessions, NEW m, OnItsWay(s, m), conn[s] = "open", conn'[s] = "open"
  PROVE  OnItsWay(s, m)' \/ (PageReceives(s) /\ outbox[s] # <<>> /\ Head(outbox[s]) = m)
<1>0. /\ outbox[s] \in Seq(Notices) /\ \A t \in Sessions : todo[t] \in Seq(NoticeCalls)
  BY DEF ServerInv, WireTypeOK
<1>1. ASSUME NEW i \in DOMAIN outbox[s], outbox[s][i] = m
      PROVE  Carries(outbox'[s], m) \/ (PageReceives(s) /\ outbox[s] # <<>> /\ Head(outbox[s]) = m)
  <2>1. CASE outbox'[s] = outbox[s]
    BY <1>1, <2>1 DEF Carries
  <2>2. CASE outbox'[s] = Tail(outbox[s]) /\ outbox[s] # <<>> /\ PageReceives(s)
    <3>1. i = 1 \/ (i - 1 \in DOMAIN outbox'[s] /\ outbox'[s][i - 1] = outbox[s][i])
      BY <1>0, <1>1, <2>2
    <3>2. Head(outbox[s]) = outbox[s][1]
      BY <1>0, <2>2
    <3> QED BY <1>1, <2>2, <3>1, <3>2 DEF Carries
  <2>3. ASSUME NEW t \in Sessions, outbox'[s] = Append(outbox[s], Head(todo[t]).msg)
        PROVE  Carries(outbox'[s], m)
    <3>1. i \in DOMAIN outbox'[s] /\ outbox'[s][i] = m
      BY <1>0, <1>1, <2>3
    <3> QED BY <3>1 DEF Carries
  <2> QED BY <2>1, <2>2, <2>3, OutboxMoves
<1>2. ASSUME NEW t \in Sessions, NEW i \in DOMAIN todo[t], todo[t][i].op = "send", s \in todo[t][i].to, todo[t][i].msg = m
      PROVE  OnItsWay(s, m)'
  <2>1. ASSUME NEW j \in DOMAIN todo'[t], todo'[t][j].op = "send", s \in todo'[t][j].to, todo'[t][j].msg = m
        PROVE  OnItsWay(s, m)'
    BY <2>1 DEF OnItsWay
  <2>2. CASE todo'[t] = todo[t]
    BY <1>2, <2>1, <2>2
  <2>3. ASSUME NEW x \in Sessions, Sends(t, x) PROVE OnItsWay(s, m)'
    <3>1. /\ 1 \in DOMAIN todo[t] /\ Head(todo[t]) = todo[t][1]
          /\ GoesOn(todo[t], todo[t][1].to \ {x}, todo[t][1].msg, todo'[t])
      BY <2>3, SendsMoves
    <3>2. CASE i # 1
      <4>1. PICK j \in DOMAIN todo'[t] : todo'[t][j] = todo[t][i]
        BY <3>1, <3>2 DEF GoesOn
      <4> QED BY <1>2, <2>1, <4>1
    <3>3. CASE i = 1 /\ x # s
      <4>1. todo[t][1].to \ {x} # {}
        BY <1>2, <3>3
      <4>2. 1 \in DOMAIN todo'[t] /\ todo'[t][1] = [op |-> "send", to |-> todo[t][1].to \ {x}, msg |-> todo[t][1].msg]
        BY <3>1, <4>1 DEF GoesOn
      <4>3. todo'[t][1].op = "send" /\ s \in todo'[t][1].to /\ todo'[t][1].msg = m
        BY <1>2, <3>3, <4>2
      <4> QED BY <2>1, <4>2, <4>3
    <3>4. CASE i = 1 /\ x = s
      <4>1. outbox' = [outbox EXCEPT ![s] = Append(@, Head(todo[t]).msg)]
        BY <2>3, <3>4 DEF Sends
      <4>2. outbox'[s] = Append(outbox[s], m)
        BY <1>2, <3>1, <3>4, <4>1 DEF ServerInv, WireTypeOK
      <4>3. Len(outbox[s]) + 1 \in DOMAIN outbox'[s] /\ outbox'[s][Len(outbox[s]) + 1] = m
        BY <1>0, <4>2
      <4> QED BY <4>3 DEF OnItsWay, Carries
    <3> QED BY <3>2, <3>3, <3>4
  <2>4. ASSUME Finds(t) PROVE OnItsWay(s, m)'
    <3>1. /\ 1 \in DOMAIN todo[t] /\ todo[t][1] \in FindCalls
          /\ GoesOn(todo[t], Found(todo[t][1].room, todo[t][1].peer), todo[t][1].msg, todo'[t])
      BY <2>4, FindsMoves
    <3>2. i # 1
      BY <1>2, <3>1 DEF FindCalls
    <3>3. PICK j \in DOMAIN todo'[t] : todo'[t][j] = todo[t][i]
      BY <3>1, <3>2 DEF GoesOn
    <3> QED BY <1>2, <2>1, <3>3
  <2>5. todo[t] # <<>>
    BY <1>2
  <2> QED BY <2>2, <2>3, <2>4, <2>5, TodoMoves
<1> QED BY <1>1, <1>2 DEF OnItsWay, Carries

----------------------------------------------------------------------------
(* Who has left: joins and leaves of one viewer keep their order *)

Gone(id) == \E s \in Sessions : sess[s].peerId = id /\ conn[s] = "closed"

\* Only the handler of a viewer announces it, and only while its session lives.
JoinsOwned ==
  \A t \in Sessions : \A i \in DOMAIN todo[t], id \in ViewerIds :
    todo[t][i].msg = PeerJoined(id) => sess[t].peerId = id /\ conn[t] # "closed"

\* Whoever is said to have left has left.
LeftGone ==
  \A t \in Sessions, id \in ViewerIds :
    /\ \A i \in DOMAIN todo[t] : todo[t][i].msg = PeerLeft(id) => Gone(id)
    /\ \A i \in DOMAIN outbox[t] : outbox[t][i] = PeerLeft(id) => Gone(id)

LeftLast ==
  \A s \in Sessions : \A i, j \in DOMAIN outbox[s], id \in ViewerIds :
    outbox[s][i] = PeerLeft(id) /\ outbox[s][j] = PeerJoined(id) => j < i

LEMMA NoticeNames ==
  /\ \A id : PeerJoined(id).type = "peer.joined" /\ PeerJoined(id).arg = id
  /\ \A id : PeerLeft(id).type = "peer.left" /\ PeerLeft(id).arg = id
  /\ \A id : RoomJoined(id).type = "room.joined" /\ RoomJoined(id).arg = id
  /\ \A why : SessionEnded(why).type = "session.ended"
  /\ \A type, id : Msg(type, id).type = type
  BY DEF PeerJoined, PeerLeft, RoomJoined, SessionEnded, Msg

\* The messages in the calls a session begins.
LEMMA MessagesBegun ==
  ASSUME ServerInv, NEW s \in Sessions, OnRead(s), NEW i \in DOMAIN todo'[s], NEW id \in ViewerIds
  PROVE  /\ todo'[s][i].msg = PeerJoined(id) => Joins(s, id)
         /\ todo'[s][i].msg # PeerLeft(id)
<1>1. ASSUME NEW other \in ViewerIds, Joins(s, other),
             todo'[s] = << [op |-> "send", to |-> {s}, msg |-> RoomJoined(other)],
                           [op |-> "find", room |-> PageRoom[s], peer |-> HostId, msg |-> PeerJoined(other)] >>
      PROVE  /\ todo'[s][i].msg = PeerJoined(id) => Joins(s, id)
             /\ todo'[s][i].msg # PeerLeft(id)
  <2>1. todo'[s][i].msg \in {RoomJoined(other), PeerJoined(other)}
    <3>1. i \in {1, 2}
      BY <1>1
    <3> QED BY <1>1, <3>1
  <2>2. RoomJoined(other) # PeerJoined(id) /\ RoomJoined(other) # PeerLeft(id) /\ PeerJoined(other) # PeerLeft(id)
        /\ (PeerJoined(other) = PeerJoined(id) => other = id)
    BY NoticeNames
  <2> QED BY <1>1, <2>1, <2>2
<1>2. ASSUME todo'[s][i].msg.type \in PlainTypes
      PROVE  todo'[s][i].msg # PeerJoined(id) /\ todo'[s][i].msg # PeerLeft(id)
  BY <1>2, NoticeNames DEF PlainTypes
<1>3. ASSUME Head(inbox[s]).type \in Relayed, todo'[s] = RelayCallList(s, Head(inbox[s]))
      PROVE  todo'[s][i].msg # PeerJoined(id) /\ todo'[s][i].msg # PeerLeft(id)
  <2>1. i = 1 /\ todo'[s][1].msg = Msg(Head(inbox[s]).type, sess[s].peerId)
    BY <1>3 DEF RelayCallList
  <2> QED BY <1>3, <2>1, NoticeNames DEF Relayed
<1> QED BY <1>1, <1>2, <1>3, CallsBegun

LEMMA MessagesAtEnd ==
  ASSUME ServerInv, NEW s \in Sessions, OnReadError(s), NEW i \in DOMAIN todo'[s], NEW id \in ViewerIds
  PROVE  /\ todo'[s][i].msg # PeerJoined(id)
         /\ todo'[s][i].msg = PeerLeft(id) => sess[s].peerId = id
<1>1. CASE todo'[s][i].msg.type \in PlainTypes
  BY <1>1, NoticeNames DEF PlainTypes
<1>2. CASE sess[s].peerId \in ViewerIds /\ todo'[s][i].msg = PeerLeft(sess[s].peerId)
  <2>1. PeerLeft(sess[s].peerId) # PeerJoined(id) /\ (PeerLeft(sess[s].peerId) = PeerLeft(id) => sess[s].peerId = id)
    BY NoticeNames
  <2> QED BY <1>2, <2>1
<1> QED BY <1>1, <1>2, CallsAtEnd

\* An identity, once taken, is kept; and so is the end of a connection.
LEMMA IdStays ==
  ASSUME ServerInv, AnyStep, NEW s \in Sessions, sess[s].peerId # NoPeer
  PROVE  sess'[s].peerId = sess[s].peerId
<1>1. ASSUME NEW id \in DrawnIds, Joins(s, id) PROVE FALSE
  BY <1>1, NewSessionFields DEF Joins
<1>2. ~Registers(s) /\ ~Rejected(s)
  BY NewSessionFields DEF Registers, Rejected
<1> QED BY <1>1, <1>2, IdOfStep

LEMMA GoneStays ==
  ASSUME ServerInv, AnyStep, NEW id \in ViewerIds, Gone(id)
  PROVE  Gone(id)'
<1>1. PICK s \in Sessions : sess[s].peerId = id /\ conn[s] = "closed"
  BY DEF Gone
<1>2. sess'[s].peerId = id /\ conn'[s] = "closed"
  BY <1>1, IdStays, ConnSteps, PeerNames
<1> QED BY <1>2 DEF Gone

LEMMA JoinsOwnedStep ==
  ASSUME ServerInv, SignalingStep, AnyStep, JoinsOwned
  PROVE  JoinsOwned'
<1> SUFFICES ASSUME NEW t \in Sessions, NEW i \in DOMAIN todo'[t], NEW id \in ViewerIds, todo'[t][i].msg = PeerJoined(id)
             PROVE  sess'[t].peerId = id /\ conn'[t] # "closed"
  BY DEF JoinsOwned
<1>1. ASSUME NEW j \in DOMAIN todo[t], todo'[t][i].msg = todo[t][j].msg, ~OnReadError(t)
      PROVE  sess'[t].peerId = id /\ conn'[t] # "closed"
  <2>1. sess[t].peerId = id /\ conn[t] # "closed"
    BY <1>1 DEF JoinsOwned
  <2>2. conn[t] \in {"none", "open", "closing", "closed"} /\ (conn[t] = "none" => todo[t] = <<>>)
    BY DEF ServerInv, WireTypeOK, UntouchedOK
  <2>3. Reading(t)
    BY <1>1, <2>1, <2>2 DEF Reading
  <2> QED BY <1>1, <2>1, <2>3, IdStays, ConnSteps, PeerNames DEF Reading
<1>2. CASE OnRead(t)
  <2>1. Joins(t, id)
    BY <1>2, MessagesBegun
  <2>2. sess'[t].peerId = id
    BY <2>1, SessJoined DEF SessIs
  <2> QED BY <1>2, <2>2, ReadCases DEF Reading
<1>3. CASE OnReadError(t)
  BY <1>3, MessagesAtEnd
<1> QED BY <1>1, <1>2, <1>3, CallsOrigin

LEMMA LeftGoneStep ==
  ASSUME ServerInv, SignalingStep, AnyStep, LeftGone
  PROVE  LeftGone'
<1>1. ASSUME NEW t \in Sessions, NEW id \in ViewerIds, NEW i \in DOMAIN todo'[t], todo'[t][i].msg = PeerLeft(id)
      PROVE  Gone(id)'
  <2>1. CASE \E j \in DOMAIN todo[t] : todo'[t][i].msg = todo[t][j].msg
    BY <1>1, <2>1, GoneStays DEF LeftGone
  <2>2. CASE OnRead(t)
    BY <1>1, <2>2, MessagesBegun
  <2>3. CASE OnReadError(t)
    <3>1. sess[t].peerId = id
      BY <1>1, <2>3, MessagesAtEnd
    <3>2. conn'[t] = "closed" /\ sess' = sess
      BY <2>3, LeaveCases DEF ServerInv, WireTypeOK
    <3> QED BY <3>1, <3>2 DEF Gone
  <2> QED BY <1>1, <2>1, <2>2, <2>3, CallsOrigin
<1>2. ASSUME NEW t \in Sessions, NEW id \in ViewerIds, NEW i \in DOMAIN outbox'[t], outbox'[t][i] = PeerLeft(id)
      PROVE  Gone(id)'
  <2>1. Gone(id)
    BY <1>2, MessagesOrigin DEF LeftGone
  <2> QED BY <2>1, GoneStays
<1> QED BY <1>1, <1>2 DEF LeftGone

LEMMA NotBoth ==
  ASSUME IdsUnique, JoinsOwned, NEW id \in ViewerIds, Gone(id)
  PROVE  ~Announcing(id)
<1> SUFFICES ASSUME NEW t \in Sessions, NEW i \in DOMAIN todo[t], todo[t][i].msg = PeerJoined(id) PROVE FALSE
  BY DEF Announcing
<1>1. sess[t].peerId = id /\ conn[t] # "closed"
  BY DEF JoinsOwned
<1>2. PICK s \in Sessions : sess[s].peerId = id /\ conn[s] = "closed"
  BY DEF Gone
<1> QED BY <1>1, <1>2 DEF IdsUnique

LEMMA LeftLastStep ==
  ASSUME ServerInv, SignalingStep, IdsUnique, JoinsOwned, LeftGone, LeftLast
  PROVE  LeftLast'
<1> SUFFICES ASSUME NEW s \in Sessions, NEW i \in DOMAIN outbox'[s], NEW j \in DOMAIN outbox'[s], NEW id \in ViewerIds,
                    outbox'[s][i] = PeerLeft(id), outbox'[s][j] = PeerJoined(id)
             PROVE  j < i
  BY DEF LeftLast
<1>0. outbox[s] \in Seq(Notices)
  BY DEF ServerInv, WireTypeOK
<1>1. CASE outbox'[s] = outbox[s]
  BY <1>1 DEF LeftLast
<1>2. CASE outbox'[s] = Tail(outbox[s]) /\ outbox[s] # <<>>
  <2>1. /\ i + 1 \in DOMAIN outbox[s] /\ outbox'[s][i] = outbox[s][i + 1]
        /\ j + 1 \in DOMAIN outbox[s] /\ outbox'[s][j] = outbox[s][j + 1]
    BY <1>0, <1>2
  <2>2. j + 1 < i + 1
    BY <2>1 DEF LeftLast
  <2>3. i \in Int /\ j \in Int
    BY <1>0, <1>2
  <2> QED BY <2>2, <2>3
<1>3. CASE outbox'[s] = <<>>
  BY <1>3
<1>4. ASSUME NEW t \in Sessions, Sends(t, s), outbox'[s] = Append(outbox[s], Head(todo[t]).msg)
      PROVE  j < i
  <2>1. 1 \in DOMAIN todo[t] /\ Head(todo[t]) = todo[t][1]
    BY <1>4, SendsMoves
  <2>2. i \in 1..(Len(outbox[s]) + 1) /\ j \in 1..(Len(outbox[s]) + 1) /\ Len(outbox[s]) \in Nat
    BY <1>0, <1>4
  <2>3. PeerLeft(id) # PeerJoined(id)
    BY NoticeNames
  <2>4. CASE j = Len(outbox[s]) + 1
    <3>1. outbox'[s][j] = todo[t][1].msg
      BY <1>0, <1>4, <2>1, <2>4
    <3>2. Announcing(id)
      BY <2>1, <3>1 DEF Announcing
    <3>3. i \in DOMAIN outbox[s] /\ outbox[s][i] = PeerLeft(id)
      BY <1>0, <1>4, <2>2, <2>3, <2>4
    <3> QED BY <3>2, <3>3, NotBoth DEF LeftGone
  <2>5. CASE j # Len(outbox[s]) + 1 /\ i = Len(outbox[s]) + 1
    BY <2>2, <2>5
  <2>6. CASE j # Len(outbox[s]) + 1 /\ i # Len(outbox[s]) + 1
    <3>1. /\ i \in DOMAIN outbox[s] /\ outbox[s][i] = PeerLeft(id)
          /\ j \in DOMAIN outbox[s] /\ outbox[s][j] = PeerJoined(id)
      BY <1>0, <1>4, <2>2, <2>6
    <3> QED BY <3>1 DEF LeftLast
  <2> QED BY <2>4, <2>5, <2>6
<1> QED BY <1>1, <1>2, <1>3, <1>4, OutboxMoves

LEMMA NoLateJoinHolds ==
  ASSUME IdsUnique, JoinsOwned, LeftGone, LeftLast
  PROVE  NoLateJoin
  BY NotBoth DEF NoLateJoin, LeftGone, LeftLast

----------------------------------------------------------------------------
(* What a step does to one page *)

ViewerKeeps(v) ==
  /\ viewerPage'[v].peerId = viewerPage[v].peerId
  /\ viewerPage'[v].pc = viewerPage[v].pc /\ viewerPage'[v].told = viewerPage[v].told

LEMMA ViewerMoves ==
  ASSUME ServerInv, PageTypeOK, SignalingStep, NEW v \in Viewers
  PROVE  \/ ViewerKeeps(v)
         \/ PageReceives(v) /\ outbox[v] # <<>> /\ ViewerHears(v, Head(outbox[v]), viewerPage'[v])
<1>0. viewerPage \in [Viewers -> ViewerPages] /\ v \in Sessions /\ v \notin Hosts
  BY PageTypes DEF Viewers
<1>1. CASE viewerPage' = viewerPage
  BY <1>1 DEF ViewerKeeps
<1>2. ASSUME NEW x \in Viewers, ViewerBecomes(x) PROVE ViewerKeeps(v)
  <2>1. PICK page \in ViewerPages :
          /\ viewerPage' = [viewerPage EXCEPT ![x] = page]
          /\ page.peerId = viewerPage[x].peerId /\ page.pc = viewerPage[x].pc /\ page.told = viewerPage[x].told
    BY <1>2 DEF ViewerBecomes
  <2>2. viewerPage'[v] = IF v = x THEN page ELSE viewerPage[v]
    BY <1>0, <2>1
  <2> QED BY <2>1, <2>2 DEF ViewerKeeps
<1>3. ASSUME NEW s \in Sessions, PageReceives(s)
      PROVE  ViewerKeeps(v) \/ (PageReceives(v) /\ outbox[v] # <<>> /\ ViewerHears(v, Head(outbox[v]), viewerPage'[v]))
  <2>1. CASE s \in Hosts
    <3>1. viewerPage' = viewerPage
      BY <1>3, <2>1, Receptions
    <3> QED BY <3>1, <1>1
  <2>2. CASE s \notin Hosts
    <3>1. PICK page : ViewerHears(s, Head(outbox[s]), page)
      BY <1>3, <2>2, Receptions
    <3>2. viewerPage' = [viewerPage EXCEPT ![s] = page] /\ outbox[s] # <<>>
      BY <1>3, <3>1, Receptions DEF ViewerHears
    <3>3. CASE s = v
      <4>1. viewerPage'[v] = page
        BY <1>0, <3>2, <3>3
      <4> QED BY <1>3, <3>1, <3>2, <3>3, <4>1
    <3>4. CASE s # v
      <4>1. viewerPage'[v] = viewerPage[v]
        BY <1>0, <3>2, <3>4
      <4> QED BY <4>1 DEF ViewerKeeps
    <3> QED BY <3>3, <3>4
  <2> QED BY <2>1, <2>2
<1>4. ASSUME NEW s \in Sessions, PageCloses(s) PROVE ViewerKeeps(v)
  <2>1. CASE s \in Hosts
    <3>1. viewerPage' = viewerPage
      BY <1>4, <2>1 DEF PageCloses
    <3> QED BY <3>1 DEF ViewerKeeps
  <2>2. CASE s \notin Hosts
    BY <1>2, <1>4, <2>2 DEF PageCloses, Viewers
  <2> QED BY <2>1, <2>2
<1>5. ASSUME NEW h \in Hosts, HostAsks(h) PROVE viewerPage' = viewerPage
  BY <1>5 DEF HostAsks
<1>6. ASSUME UNCHANGED pageVars PROVE viewerPage' = viewerPage
  BY <1>6 DEF pageVars
<1>7. ASSUME NEW x \in Viewers, ViewerAnswers(x) PROVE ViewerBecomes(x)
  BY <1>7 DEF ViewerAnswers
<1> HIDE DEF ViewerKeeps, ViewerHears, ViewerBecomes
<1>8. CASE \E s \in Sessions : PageReceives(s)
  BY <1>3, <1>8
<1>9. CASE (\E s \in Sessions : PageCloses(s)) \/ \E x \in Viewers : ViewerAnswers(x)
  BY <1>2, <1>4, <1>7, <1>9
<1>10. CASE (\E h \in Hosts : HostAsks(h)) \/ UNCHANGED pageVars
  BY <1>1, <1>5, <1>6, <1>10
<1> QED BY <1>8, <1>9, <1>10 DEF SignalingStep

HostKeeps(h) == hostPage'[h].peers = hostPage[h].peers /\ dropped'[h] = dropped[h]
HostDrops(h) ==
  hostPage'[h].peers = {} /\ dropped'[h] = dropped[h] \cup hostPage[h].peers

LEMMA HostMoves ==
  ASSUME ServerInv, PageTypeOK, SignalingStep, NEW h \in Hosts
  PROVE  \/ HostKeeps(h) \/ HostDrops(h)
         \/ /\ PageReceives(h) /\ outbox[h] # <<>> /\ dropped'[h] = dropped[h]
            /\ HostHears(h, Head(outbox[h]), hostPage'[h])
<1>0. hostPage \in [Hosts -> HostPages] /\ dropped \in [Hosts -> SUBSET ViewerIds] /\ h \in Sessions
  BY PageTypes, HostsAssumption
<1>1. CASE hostPage' = hostPage /\ dropped' = dropped
  BY <1>1 DEF HostKeeps
<1>2. ASSUME NEW g \in Hosts, NEW peers, HostBecomes(g, peers)
      PROVE  hostPage'[h].peers = IF h = g THEN peers ELSE hostPage[h].peers
  <2>1. PICK page \in HostPages : hostPage' = [hostPage EXCEPT ![g] = page] /\ page.peers = peers
    BY <1>2 DEF HostBecomes
  <2>2. hostPage'[h] = IF h = g THEN page ELSE hostPage[h]
    BY <1>0, <2>1
  <2> QED BY <2>1, <2>2
<1>3. ASSUME NEW s \in Sessions, PageReceives(s)
      PROVE  HostKeeps(h) \/ (/\ PageReceives(h) /\ outbox[h] # <<>> /\ dropped'[h] = dropped[h]
                              /\ HostHears(h, Head(outbox[h]), hostPage'[h]))
  <2>1. CASE s \notin Hosts
    <3>1. hostPage' = hostPage /\ dropped' = dropped
      BY <1>3, <2>1, Receptions
    <3> QED BY <3>1 DEF HostKeeps
  <2>2. CASE s \in Hosts
    <3>1. PICK page : HostHears(s, Head(outbox[s]), page)
      BY <1>3, <2>2, Receptions
    <3>2. hostPage' = [hostPage EXCEPT ![s] = page] /\ outbox[s] # <<>> /\ dropped' = dropped
      BY <1>3, <3>1, Receptions DEF HostHears
    <3>3. CASE s = h
      <4>1. hostPage'[h] = page
        BY <1>0, <3>2, <3>3
      <4> QED BY <1>3, <3>1, <3>2, <3>3, <4>1
    <3>4. CASE s # h
      <4>1. hostPage'[h] = hostPage[h]
        BY <1>0, <3>2, <3>4
      <4> QED BY <3>2, <4>1 DEF HostKeeps
    <3> QED BY <3>3, <3>4
  <2> QED BY <2>1, <2>2
<1>4. ASSUME NEW s \in Sessions, PageCloses(s) PROVE HostKeeps(h)
  <2>1. CASE s \in Hosts
    BY <1>2, <1>4, <2>1 DEF PageCloses, HostKeeps
  <2>2. CASE s \notin Hosts
    <3>1. hostPage' = hostPage /\ dropped' = dropped
      BY <1>4, <2>2 DEF PageCloses
    <3> QED BY <3>1 DEF HostKeeps
  <2> QED BY <2>1, <2>2
<1>5. ASSUME NEW g \in Hosts, HostAsks(g) PROVE HostKeeps(h) \/ HostDrops(h)
  <2>1. CASE HostBecomes(g, hostPage[g].peers) /\ UNCHANGED dropped
    BY <1>2, <2>1 DEF HostKeeps
  <2>2. CASE HostBecomes(g, {}) /\ dropped' = [dropped EXCEPT ![g] = @ \cup hostPage[g].peers]
    <3>1. hostPage'[h].peers = IF h = g THEN {} ELSE hostPage[h].peers
      BY <1>2, <2>2
    <3>2. dropped'[h] = IF h = g THEN dropped[h] \cup hostPage[h].peers ELSE dropped[h]
      BY <1>0, <2>2
    <3> QED BY <3>1, <3>2 DEF HostKeeps, HostDrops
  <2> QED BY <1>5, <2>1, <2>2 DEF HostAsks
<1>6. ASSUME NEW v \in Viewers, ViewerAnswers(v) PROVE hostPage' = hostPage /\ dropped' = dropped
  BY <1>6 DEF ViewerAnswers
<1>7. ASSUME UNCHANGED pageVars PROVE hostPage' = hostPage /\ dropped' = dropped
  BY <1>7 DEF pageVars
<1>8. CASE \E s \in Sessions : PageReceives(s)
  BY <1>3, <1>8
<1>9. CASE (\E s \in Sessions : PageCloses(s)) \/ \E g \in Hosts : HostAsks(g)
  BY <1>4, <1>5, <1>9
<1>10. CASE (\E v \in Viewers : ViewerAnswers(v)) \/ UNCHANGED pageVars
  BY <1>1, <1>6, <1>7, <1>10
<1> QED BY <1>8, <1>9, <1>10 DEF SignalingStep

----------------------------------------------------------------------------
(* Who was told its id: offers follow room.joined *)

HasRoomJoined(q) == \E i \in DOMAIN q : q[i].type = "room.joined"

\* The viewer page behind v knows its id, will read it next, or is gone.
Informed(v) ==
  conn[v] \in {"closing", "closed"} \/ viewerPage[v].peerId # NoPeer \/ HasRoomJoined(outbox[v])

Known(id) == \E v \in Viewers : sess[v].peerId = id /\ Informed(v)

\* A host hears of viewers only that were told their id before.
JoinsKnown ==
  /\ \A t \in Sessions : \A i \in DOMAIN todo[t], id \in ViewerIds : todo[t][i].msg = PeerJoined(id) =>
       \/ i = 1 /\ Known(id)
       \/ i = 2 /\ todo[t][1] = [op |-> "send", to |-> {t}, msg |-> RoomJoined(id)]
  /\ \A t \in Sessions : \A i \in DOMAIN outbox[t], id \in ViewerIds : outbox[t][i] = PeerJoined(id) => Known(id)
  /\ \A h \in Hosts : \A id \in hostPage[h].peers : Known(id)

\* So a host offers to such viewers only.
OfferAsked(m) == m.type = "webrtc.offer" => m.to \in ViewerIds /\ Known(m.to)
OfferOnItsWay(c) ==
  c.msg.type = "webrtc.offer" =>
    IF c.op = "find" THEN c.peer \in ViewerIds /\ Known(c.peer)
    ELSE \A v \in c.to : v \in Viewers /\ Informed(v)
OfferBehind(v, i) ==
  outbox[v][i].type = "webrtc.offer" =>
    viewerPage[v].peerId # NoPeer \/ \E j \in DOMAIN outbox[v] : j < i /\ outbox[v][j].type = "room.joined"

OffersKnown ==
  /\ \A s \in Sessions : \A i \in DOMAIN inbox[s] : OfferAsked(inbox[s][i])
  /\ \A s \in Sessions : \A i \in DOMAIN todo[s] : OfferOnItsWay(todo[s][i])
  /\ \A v \in Viewers : \A i \in DOMAIN outbox[v] : OfferBehind(v, i)

LEMMA ViewerIdStays ==
  ASSUME ServerInv, PageTypeOK, SignalingStep, NEW v \in Viewers, viewerPage[v].peerId # NoPeer
  PROVE  viewerPage'[v].peerId # NoPeer
<1>1. CASE ViewerKeeps(v)
  BY <1>1 DEF ViewerKeeps
<1>2. CASE outbox[v] # <<>> /\ ViewerHears(v, Head(outbox[v]), viewerPage'[v])
  <2>1. v \in Sessions
    BY DEF Viewers
  <2>2. Head(outbox[v]) \in Notices
    BY <1>2, <2>1, HeadIsNotice
  <2> QED BY <1>2, <2>2, PeerNames DEF ViewerHears, Notices
<1> QED BY <1>1, <1>2, ViewerMoves

\* A viewer that takes room.joined knows its id.
LEMMA TakesItsId ==
  ASSUME ServerInv, PageTypeOK, SignalingStep, NEW v \in Viewers, outbox[v] # <<>>,
         PageReceives(v), Head(outbox[v]).type = "room.joined"
  PROVE  viewerPage'[v].peerId # NoPeer
<1>1. v \in Sessions /\ v \notin Hosts
  BY DEF Viewers
<1>2. PICK page : ViewerHears(v, Head(outbox[v]), page)
  BY <1>1, Receptions
<1>3. viewerPage'[v] = page
  BY <1>2, PageTypes DEF ViewerHears
<1>4. Head(outbox[v]) \in Notices
  BY <1>1, HeadIsNotice
<1> QED BY <1>2, <1>3, <1>4, PeerNames DEF ViewerHears, Notices

LEMMA ClosesForGood ==
  ASSUME ServerInv, AnyStep, NEW s \in Sessions, conn[s] \in {"closing", "closed"}
  PROVE  conn'[s] \in {"closing", "closed"}
<1>0. conn \in [Sessions -> {"none", "open", "closing", "closed"}]
  BY DEF ServerInv, WireTypeOK
<1>1. ASSUME NEW t \in Sessions, ServerStep(t) PROVE conn'[s] \in {"closing", "closed"}
  BY <1>0, <1>1, ReadCases, LeaveCases DEF ServerStep, RunSend, RunFind, Destroy, sessionVars
<1>2. ASSUME NEW t \in Sessions, PageAct(t) PROVE conn'[s] \in {"closing", "closed"}
  BY <1>0, <1>2 DEF PageAct, PageOpens, PageAsks, PageGoes, PageTakes
<1> QED BY <1>1, <1>2 DEF AnyStep, wireVars

LEMMA InformedStays ==
  ASSUME ServerInv, PageTypeOK, SignalingStep, AnyStep, NEW v \in Viewers, Informed(v)
  PROVE  Informed(v)'
<1>0. v \in Sessions /\ outbox[v] \in Seq(Notices) /\ conn' \in [Sessions -> {"none", "open", "closing", "closed"}]
  BY ServerStepInv DEF ServerInv, WireTypeOK, Viewers
<1>1. CASE conn[v] \in {"closing", "closed"}
  <2>1. conn'[v] \in {"closing", "closed"}
    BY <1>0, <1>1, ClosesForGood
  <2> QED BY <2>1 DEF Informed
<1>2. CASE viewerPage[v].peerId # NoPeer
  BY <1>2, ViewerIdStays DEF Informed
<1>3. ASSUME NEW i \in DOMAIN outbox[v], outbox[v][i].type = "room.joined"
      PROVE  Informed(v)'
  <2>1. CASE outbox'[v] = outbox[v]
    BY <1>3, <2>1 DEF Informed, HasRoomJoined
  <2>2. CASE outbox'[v] = Tail(outbox[v]) /\ outbox[v] # <<>> /\ PageReceives(v)
    <3>1. i = 1 \/ (i - 1 \in DOMAIN outbox'[v] /\ outbox'[v][i - 1] = outbox[v][i])
      BY <1>0, <1>3, <2>2
    <3>2. CASE i = 1
      <4>1. Head(outbox[v]) = outbox[v][1]
        BY <1>0, <2>2
      <4> QED BY <1>3, <2>2, <3>2, <4>1, TakesItsId DEF Informed
    <3>3. CASE i - 1 \in DOMAIN outbox'[v] /\ outbox'[v][i - 1] = outbox[v][i]
      BY <1>3, <3>3 DEF Informed, HasRoomJoined
    <3> QED BY <3>1, <3>2, <3>3
  <2>3. CASE conn'[v] = "closing"
    BY <2>3 DEF Informed
  <2>4. ASSUME NEW t \in Sessions, outbox'[v] = Append(outbox[v], Head(todo[t]).msg)
        PROVE  Informed(v)'
    <3>1. i \in DOMAIN outbox'[v] /\ outbox'[v][i] = outbox[v][i]
      BY <1>0, <1>3, <2>4
    <3> QED BY <1>3, <3>1 DEF Informed, HasRoomJoined
  <2> QED BY <1>0, <2>1, <2>2, <2>3, <2>4, OutboxMoves
<1> QED BY <1>1, <1>2, <1>3 DEF Informed, HasRoomJoined

LEMMA KnownStays ==
  ASSUME ServerInv, PageTypeOK, SignalingStep, AnyStep, NEW id \in ViewerIds, Known(id)
  PROVE  Known(id)'
<1>1. PICK v \in Viewers : sess[v].peerId = id /\ Informed(v)
  BY DEF Known
<1>2. sess'[v].peerId = id /\ Informed(v)'
  BY <1>1, IdStays, InformedStays, PeerNames DEF Viewers
<1> QED BY <1>2 DEF Known

\* The viewer behind an id that is known.
LEMMA KnownIs ==
  ASSUME IdsUnique, NEW id \in ViewerIds, Known(id), NEW v \in Sessions, sess[v].peerId = id
  PROVE  v \in Viewers /\ Informed(v)
  BY DEF Known, IdsUnique, Viewers

\* The reply to room.join is sent: its viewer is known.
LEMMA ReplySent ==
  ASSUME ServerInv, SignalingStep, AnyStep, JoinsOwned, NEW t \in Sessions, NEW id \in ViewerIds,
         Sends(t, t), 1 \in DOMAIN todo[t], todo[t][1].msg = RoomJoined(id), sess[t].peerId = id
  PROVE  Known(id)'
<1>1. t \in Viewers
  BY DEF ServerInv, RolesOK, RoleOK
<1>2. sess'[t].peerId = id
  BY IdStays, PeerNames
<1>3. Head(todo[t]) = todo[t][1] /\ todo[t] # <<>> /\ outbox[t] \in Seq(Notices)
      /\ conn[t] \in {"open", "closing", "closed"} /\ conn' = conn
  BY SendsMoves DEF ServerInv, WireTypeOK, UntouchedOK, Sends
<1>4. CASE conn[t] \in {"closing", "closed"}
  BY <1>1, <1>2, <1>3, <1>4 DEF Known, Informed
<1>5. CASE conn[t] = "open"
  <2>1. outbox'[t] = Append(outbox[t], RoomJoined(id))
    BY <1>3, <1>5 DEF Sends, ServerInv, WireTypeOK
  <2>2. Len(outbox[t]) + 1 \in DOMAIN outbox'[t] /\ outbox'[t][Len(outbox[t]) + 1] = RoomJoined(id)
    BY <1>3, <2>1
  <2>3. HasRoomJoined(outbox'[t])
    BY <2>2, NoticeNames DEF HasRoomJoined
  <2> QED BY <1>1, <1>2, <2>3 DEF Known, Informed
<1> QED BY <1>3, <1>4, <1>5

\* JoinsKnown, for one message in the calls of a handler and for one in a queue.
JoinCalled(t, i, id) ==
  \/ i = 1 /\ Known(id)
  \/ i = 2 /\ todo[t][1] = [op |-> "send", to |-> {t}, msg |-> RoomJoined(id)]

\* At the head of a handler's calls, an announcement is of a known viewer.
LEMMA HeadKnown ==
  ASSUME JoinsKnown, NEW t \in Sessions, 1 \in DOMAIN todo[t], NEW id \in ViewerIds, todo[t][1].msg = PeerJoined(id)
  PROVE  Known(id)
<1>1. (1 = 1 /\ Known(id)) \/ 1 = 2
  BY DEF JoinsKnown
<1> QED BY <1>1

LEMMA JoinCalledSends ==
  ASSUME ServerInv, PageTypeOK, SignalingStep, AnyStep, JoinsOwned, JoinsKnown,
         NEW t \in Sessions, NEW s \in Sessions, Sends(t, s),
         NEW i \in DOMAIN todo'[t], NEW id \in ViewerIds, todo'[t][i].msg = PeerJoined(id)
  PROVE  JoinCalled(t, i, id)'
<1>0. /\ todo[t] \in Seq(NoticeCalls) /\ 1 \in DOMAIN todo[t] /\ s \in todo[t][1].to
      /\ GoesOn(todo[t], todo[t][1].to \ {s}, todo[t][1].msg, todo'[t])
  BY SendsMoves
<1>1. CASE i = 1 /\ todo'[t][i] = [op |-> "send", to |-> todo[t][1].to \ {s}, msg |-> todo[t][1].msg]
  <2>1. todo[t][1].msg = PeerJoined(id)
    BY <1>1
  <2>2. Known(id)
    BY <1>0, <2>1, HeadKnown
  <2> QED BY <1>1, <2>2, KnownStays DEF JoinCalled
<1>2. ASSUME NEW j \in DOMAIN todo[t], j # 1, todo'[t][i] = todo[t][j], j \in {i, i + 1}
      PROVE  JoinCalled(t, i, id)'
  <2>1. j = 2 /\ todo[t][1] = [op |-> "send", to |-> {t}, msg |-> RoomJoined(id)]
    BY <1>2 DEF JoinsKnown
  <2>2. todo[t][1].to = {t} /\ todo[t][1].msg = RoomJoined(id)
    BY <2>1
  <2>3. s = t /\ todo[t][1].to \ {s} = {}
    BY <1>0, <2>2
  <2>4. sess[t].peerId = id
    BY <1>2, <2>1 DEF JoinsOwned
  <2>5. Known(id)'
    BY <1>0, <2>2, <2>3, <2>4, ReplySent
  <2>6. i + 1 \in DOMAIN todo[t] /\ todo'[t][i] = todo[t][i + 1]
    BY <1>0, <2>3 DEF GoesOn
  <2>7. i = 1
    <3> DEFINE k == i + 1
    <3>1. k \in DOMAIN todo[t] /\ todo[t][k].msg = PeerJoined(id)
      BY <2>6
    <3> HIDE DEF k
    <3>2. k = 1 \/ k = 2
      BY <3>1 DEF JoinsKnown
    <3>3. i \in Int
      BY ServerStepInv DEF ServerInv, WireTypeOK
    <3>4. i \in {1, 2}
      BY <1>2, <2>1, <3>3
    <3> QED BY <3>2, <3>3, <3>4 DEF k
  <2> QED BY <2>5, <2>7 DEF JoinCalled
<1> QED BY <1>0, <1>1, <1>2 DEF GoesOn

LEMMA JoinCalledFinds ==
  ASSUME ServerInv, PageTypeOK, SignalingStep, AnyStep, JoinsKnown,
         NEW t \in Sessions, Finds(t),
         NEW i \in DOMAIN todo'[t], NEW id \in ViewerIds, todo'[t][i].msg = PeerJoined(id)
  PROVE  JoinCalled(t, i, id)'
<1> DEFINE to == Found(todo[t][1].room, todo[t][1].peer)
<1>0. /\ 1 \in DOMAIN todo[t] /\ todo[t][1] \in FindCalls
      /\ GoesOn(todo[t], to, todo[t][1].msg, todo'[t])
  BY FindsMoves
<1> HIDE DEF to
<1>1. CASE i = 1 /\ todo'[t][i] = [op |-> "send", to |-> to, msg |-> todo[t][1].msg]
  <2>1. todo[t][1].msg = PeerJoined(id)
    BY <1>1
  <2>2. Known(id)
    BY <1>0, <2>1, HeadKnown
  <2> QED BY <1>1, <2>2, KnownStays DEF JoinCalled
<1>2. ASSUME NEW j \in DOMAIN todo[t], j # 1, todo'[t][i] = todo[t][j] PROVE FALSE
  <2>1. todo[t][1] = [op |-> "send", to |-> {t}, msg |-> RoomJoined(id)]
    BY <1>2 DEF JoinsKnown
  <2>2. todo[t][1].op = "send"
    BY <2>1
  <2> QED BY <1>0, <2>2 DEF FindCalls
<1> QED BY <1>0, <1>1, <1>2 DEF GoesOn

LEMMA JoinCalledStep ==
  ASSUME ServerInv, PageTypeOK, SignalingStep, AnyStep, JoinsOwned, JoinsKnown,
         NEW t \in Sessions, NEW i \in DOMAIN todo'[t], NEW id \in ViewerIds, todo'[t][i].msg = PeerJoined(id)
  PROVE  JoinCalled(t, i, id)'
<1>1. CASE todo'[t] = todo[t]
  <2>1. JoinCalled(t, i, id)
    BY <1>1 DEF JoinsKnown, JoinCalled
  <2>2. Known(id) => Known(id)'
    BY KnownStays
  <2> QED BY <1>1, <2>1, <2>2 DEF JoinCalled
<1>2. CASE \E s \in Sessions : Sends(t, s)
  BY <1>2, JoinCalledSends
<1>3. CASE Finds(t)
  BY <1>3, JoinCalledFinds
<1>4. CASE OnRead(t)
  <2>1. Joins(t, id)
    BY <1>4, MessagesBegun
  <2> DEFINE c == [op |-> "send", to |-> {t}, msg |-> RoomJoined(id)]
             d == [op |-> "find", room |-> PageRoom[t], peer |-> HostId, msg |-> PeerJoined(id)]
  <2>2. todo'[t] = <<c, d>>
    BY <2>1, CallsJoined, CallsType, JoinCalls
  <2>3. c.msg # PeerJoined(id)
    BY NoticeNames
  <2> HIDE DEF c, d
  <2>4. i \in {1, 2} /\ todo'[t][1] = c
    BY <2>2
  <2> QED BY <2>3, <2>4 DEF JoinCalled, c
<1>5. CASE OnReadError(t)
  BY <1>5, MessagesAtEnd
<1> QED BY <1>1, <1>2, <1>3, <1>4, <1>5, TodoMoves

LEMMA JoinsKnownStep ==
  ASSUME ServerInv, PageTypeOK, SignalingStep, AnyStep, JoinsOwned, JoinsKnown
  PROVE  JoinsKnown'
<1>1. ASSUME NEW s \in Sessions, NEW i \in DOMAIN outbox'[s], NEW id \in ViewerIds, outbox'[s][i] = PeerJoined(id)
      PROVE  Known(id)'
  <2>1. Known(id)
    <3>1. CASE \E j \in DOMAIN outbox[s] : outbox'[s][i] = outbox[s][j]
      BY <1>1, <3>1 DEF JoinsKnown
    <3>2. CASE \E t \in Sessions : 1 \in DOMAIN todo[t] /\ outbox'[s][i] = todo[t][1].msg
      BY <1>1, <3>2, HeadKnown
    <3> QED BY <3>1, <3>2, MessagesOrigin
  <2> QED BY <2>1, KnownStays
<1>2. ASSUME NEW h \in Hosts, NEW id \in hostPage'[h].peers PROVE Known(id)'
  <2>0. hostPage[h].peers \subseteq ViewerIds /\ h \in Sessions
    BY PageTypes, HostsAssumption DEF HostPages
  <2>1. ASSUME id \in hostPage[h].peers PROVE Known(id)'
    BY <2>0, <2>1, KnownStays DEF JoinsKnown
  <2>2. CASE HostKeeps(h) \/ HostDrops(h)
    BY <1>2, <2>1, <2>2 DEF HostKeeps, HostDrops
  <2>3. CASE outbox[h] # <<>> /\ HostHears(h, Head(outbox[h]), hostPage'[h])
    <3>1. Head(outbox[h]) \in Notices /\ Head(outbox[h]) = outbox[h][1] /\ 1 \in DOMAIN outbox[h]
      BY <2>0, <2>3, HeadIsNotice
    <3>2. id \in hostPage[h].peers \/ (Head(outbox[h]).type = "peer.joined" /\ id = Head(outbox[h]).arg)
      BY <1>2, <2>3 DEF HostHears
    <3>3. CASE Head(outbox[h]).type = "peer.joined" /\ id = Head(outbox[h]).arg
      <4>1. id \in ViewerIds /\ outbox[h][1] = PeerJoined(id)
        <5>1. Head(outbox[h]) = Msg("peer.joined", id)
          BY <3>1, <3>3 DEF Notices, Messages, Msg
        <5> QED BY <3>1, <3>3, <5>1 DEF Notices, PeerJoined
      <4>2. Known(id)
        BY <2>0, <3>1, <4>1 DEF JoinsKnown
      <4> QED BY <4>1, <4>2, KnownStays
    <3> QED BY <2>1, <3>2, <3>3
  <2> QED BY <2>2, <2>3, HostMoves
<1>3. ASSUME NEW t \in Sessions, NEW i \in DOMAIN todo'[t], NEW id \in ViewerIds, todo'[t][i].msg = PeerJoined(id)
      PROVE  \/ i = 1 /\ Known(id)'
             \/ i = 2 /\ todo'[t][1] = [op |-> "send", to |-> {t}, msg |-> RoomJoined(id)]
  BY <1>3, JoinCalledStep DEF JoinCalled
<1> QED BY <1>1, <1>2, <1>3 DEF JoinsKnown

\* Where the offers of the pages come from.
LEMMA OffersAsked ==
  ASSUME ServerInv, SignalingStep, NEW s \in Sessions, NEW i \in DOMAIN inbox'[s], inbox'[s][i].type = "webrtc.offer"
  PROVE  \/ \E j \in DOMAIN inbox[s] : inbox'[s][i] = inbox[s][j]
         \/ s \in Hosts /\ inbox'[s][i].to \in hostPage[s].peers
<1>0. inbox \in [Sessions -> Seq(Requests)]
  BY DEF ServerInv, WireTypeOK
<1>1. CASE inbox'[s] = inbox[s]
  BY <1>1
<1>2. CASE inbox'[s] = Tail(inbox[s]) /\ inbox[s] # <<>>
  <2>1. i + 1 \in DOMAIN inbox[s] /\ inbox'[s][i] = inbox[s][i + 1]
    BY <1>0, <1>2
  <2> QED BY <2>1
<1>3. ASSUME NEW m, inbox'[s] = Append(inbox[s], m)
      PROVE  inbox'[s][i] = m \/ \E j \in DOMAIN inbox[s] : inbox'[s][i] = inbox[s][j]
  BY <1>0, <1>3
<1>4. ASSUME NEW t \in Sessions, ServerStep(t) PROVE inbox'[s] = inbox[s] \/ (inbox'[s] = Tail(inbox[s]) /\ inbox[s] # <<>>)
  <2>1. CASE OnRead(t)
    <3>1. inbox' = [inbox EXCEPT ![t] = Tail(@)] /\ inbox[t] # <<>>
      BY <2>1, ReadCases
    <3> QED BY <1>0, <3>1
  <2> QED BY <1>4, <2>1, ServerSteps DEF Sends, Finds
<1>5. ASSUME NEW t \in Sessions, PageOpens(t) PROVE inbox'[s] = inbox[s]
  <2>1. PICK m \in FirstRequests(t) : inbox' = [inbox EXCEPT ![t] = <<m>>]
    BY <1>5 DEF PageOpens
  <2>2. m.type # "webrtc.offer"
    <3>1. t \in Hosts \/ t \in Viewers
      BY DEF Viewers
    <3> QED BY <3>1, FirstFields
  <2>3. CASE t = s
    <3>1. inbox'[s] = <<m>>
      BY <1>0, <2>1, <2>3
    <3>2. i = 1
      BY <3>1
    <3> QED BY <2>2, <3>1, <3>2
  <2> QED BY <1>0, <2>1, <2>3
<1>6. ASSUME NEW t \in Sessions, PageGoes(t), AsksNothing(t)
      PROVE  \E j \in DOMAIN inbox[s] : inbox'[s][i] = inbox[s][j]
  <2>1. CASE t = s
    BY <1>6, <2>1 DEF AsksNothing
  <2>2. CASE t # s
    <3>1. inbox'[s] = inbox[s]
      BY <1>0, <1>6, <2>2 DEF PageGoes
    <3> QED BY <3>1
  <2> QED BY <2>1, <2>2
<1>7. ASSUME NEW h \in Hosts, HostAsks(h)
      PROVE  \/ \E j \in DOMAIN inbox[s] : inbox'[s][i] = inbox[s][j]
             \/ s \in Hosts /\ inbox'[s][i].to \in hostPage[s].peers
  <2>1. ASSUME NEW m, inbox' = [inbox EXCEPT ![h] = Append(@, m)],
               m.type = "webrtc.offer" => m.to \in hostPage[h].peers
        PROVE  \/ \E j \in DOMAIN inbox[s] : inbox'[s][i] = inbox[s][j]
               \/ s \in Hosts /\ inbox'[s][i].to \in hostPage[s].peers
    <3>1. CASE h = s
      <4>1. inbox'[s] = Append(inbox[s], m)
        BY <1>0, <2>1, <3>1
      <4> QED BY <1>3, <2>1, <3>1, <4>1
    <3>2. CASE h # s
      <4>1. inbox'[s] = inbox[s]
        BY <1>0, <2>1, <3>2
      <4> QED BY <4>1
    <3> QED BY <3>1, <3>2
  <2>2. ASSUME NEW id \in hostPage[h].peers, NEW token \in Tokens,
               inbox' = [inbox EXCEPT ![h] = Append(@, Request("webrtc.offer", PageRoom[h], token, id))]
        PROVE  \/ \E j \in DOMAIN inbox[s] : inbox'[s][i] = inbox[s][j]
               \/ s \in Hosts /\ inbox'[s][i].to \in hostPage[s].peers
    <3>1. Request("webrtc.offer", PageRoom[h], token, id).to = id
      BY DEF Request
    <3> QED BY <2>1, <2>2, <3>1
  <2>3. ASSUME NEW token \in Tokens,
               inbox' = [inbox EXCEPT ![h] = Append(@, Request("session.end", PageRoom[h], token, NoPeer))]
        PROVE  \/ \E j \in DOMAIN inbox[s] : inbox'[s][i] = inbox[s][j]
               \/ s \in Hosts /\ inbox'[s][i].to \in hostPage[s].peers
    <3>1. Request("session.end", PageRoom[h], token, NoPeer).type = "session.end"
      BY DEF Request
    <3> QED BY <2>1, <2>3, <3>1
  <2>4. CASE inbox' = inbox
    BY <1>1, <2>4
  <2> QED BY <1>7, <2>2, <2>3, <2>4 DEF HostAsks
<1>8. ASSUME NEW v \in Viewers, ViewerAnswers(v)
      PROVE  \E j \in DOMAIN inbox[s] : inbox'[s][i] = inbox[s][j]
  <2> DEFINE m == Request("webrtc.answer", PageRoom[v], NoToken, HostId)
  <2>1. inbox' = [inbox EXCEPT ![v] = Append(@, m)] /\ m.type # "webrtc.offer"
    BY <1>8 DEF ViewerAnswers, Request
  <2> HIDE DEF m
  <2>2. CASE v = s
    <3>1. inbox'[s] = Append(inbox[s], m)
      BY <1>0, <2>1, <2>2
    <3> QED BY <1>3, <2>1, <3>1
  <2>3. CASE v # s
    <3>1. inbox'[s] = inbox[s]
      BY <1>0, <2>1, <2>3
    <3> QED BY <3>1
  <2> QED BY <2>2, <2>3
<1>9. ASSUME NEW t \in Sessions, PageTakes(t) PROVE inbox'[s] = inbox[s]
  BY <1>9 DEF PageTakes
<1>10. ASSUME UNCHANGED wireVars PROVE inbox'[s] = inbox[s]
  BY <1>10 DEF wireVars
<1>11. CASE \/ \E t \in Sessions : ServerStep(t) \/ PageOpens(t) \/ PageTakes(t)
            \/ UNCHANGED wireVars
  BY <1>1, <1>2, <1>4, <1>5, <1>9, <1>10, <1>11
<1> QED BY <1>6, <1>7, <1>8, <1>11 DEF SignalingStep

LEMMA OfferAskedStep ==
  ASSUME ServerInv, PageTypeOK, SignalingStep, AnyStep, JoinsKnown, OffersKnown,
         NEW s \in Sessions, NEW i \in DOMAIN inbox'[s]
  PROVE  OfferAsked(inbox[s][i])'
<1> SUFFICES ASSUME inbox'[s][i].type = "webrtc.offer"
             PROVE  \E id \in ViewerIds : inbox'[s][i].to = id /\ Known(id)'
  BY DEF OfferAsked
<1>1. inbox'[s][i].to \in ViewerIds /\ Known(inbox'[s][i].to)
  <2>1. CASE \E j \in DOMAIN inbox[s] : inbox'[s][i] = inbox[s][j]
    BY <2>1 DEF OffersKnown, OfferAsked
  <2>2. CASE s \in Hosts /\ inbox'[s][i].to \in hostPage[s].peers
    <3>1. hostPage[s].peers \subseteq ViewerIds
      BY <2>2, PageTypes DEF HostPages
    <3> QED BY <2>2, <3>1 DEF JoinsKnown
  <2> QED BY <2>1, <2>2, OffersAsked
<1>2. PICK id \in ViewerIds : id = inbox'[s][i].to
  BY <1>1
<1>3. Known(id)
  BY <1>1, <1>2
<1> QED BY <1>2, <1>3, KnownStays

LEMMA OfferCallStays ==
  ASSUME ServerInv, PageTypeOK, SignalingStep, AnyStep, NEW c, OfferOnItsWay(c)
  PROVE  OfferOnItsWay(c)'
<1> SUFFICES ASSUME c.msg.type = "webrtc.offer"
             PROVE  IF c.op = "find" THEN c.peer \in ViewerIds /\ Known(c.peer)'
                    ELSE \A v \in c.to : v \in Viewers /\ Informed(v)'
  BY DEF OfferOnItsWay
<1>1. IF c.op = "find" THEN c.peer \in ViewerIds /\ Known(c.peer)
      ELSE \A v \in c.to : v \in Viewers /\ Informed(v)
  BY DEF OfferOnItsWay
<1>2. c.peer \in ViewerIds /\ Known(c.peer) => Known(c.peer)'
  BY KnownStays
<1>3. \A v \in Viewers : Informed(v) => Informed(v)'
  BY InformedStays
<1> QED BY <1>1, <1>2, <1>3

LEMMA OfferFinds ==
  ASSUME ServerInv, PageTypeOK, SignalingStep, AnyStep, IdsUnique,
         NEW c \in FindCalls, c.msg.type = "webrtc.offer", OfferOnItsWay(c),
         NEW v \in Found(c.room, c.peer)
  PROVE  v \in Viewers /\ Informed(v)'
<1>1. c.room \in Rooms /\ c.op = "find" /\ c.peer \in ViewerIds /\ Known(c.peer)
  BY DEF FindCalls, OfferOnItsWay
<1>2. v = viewersOf[c.room][c.peer] /\ ~Expired(viewersOf[c.room][c.peer])
  BY <1>1, PeerNames DEF Found, Lookup
<1>3. viewersOf[c.room][c.peer] # NoSession
  BY <1>1, <1>2, NothingExpires
<1>4. v \in Sessions /\ sess[v].peerId = c.peer
  BY <1>1, <1>2, <1>3, EntryOf DEF Viewers
<1>5. v \in Viewers /\ Informed(v)
  BY <1>1, <1>4, KnownIs
<1> QED BY <1>5, InformedStays

LEMMA OfferCallStep ==
  ASSUME ServerInv, PageTypeOK, SignalingStep, AnyStep, IdsUnique, OffersKnown,
         NEW t \in Sessions, NEW i \in DOMAIN todo'[t]
  PROVE  OfferOnItsWay(todo[t][i])'
<1>0. todo[t] \in Seq(NoticeCalls) /\ inbox[t] \in Seq(Requests)
  BY DEF ServerInv, WireTypeOK
<1>1. ASSUME NEW j \in DOMAIN todo[t], todo'[t][i] = todo[t][j] PROVE OfferOnItsWay(todo[t][i])'
  <2>1. PICK c : c = todo[t][j]
    OBVIOUS
  <2>2. OfferOnItsWay(c)
    BY <2>1 DEF OffersKnown
  <2>3. OfferOnItsWay(c)'
    BY <2>2, OfferCallStays
  <2> QED BY <1>1, <2>1, <2>3 DEF OfferOnItsWay
<1>2. ASSUME NEW to, NEW m, \A v \in to : m.type = "webrtc.offer" => v \in Viewers /\ Informed(v)',
             todo'[t][i] = [op |-> "send", to |-> to, msg |-> m]
      PROVE  OfferOnItsWay(todo[t][i])'
  <2>1. todo'[t][i].op = "send" /\ todo'[t][i].to = to /\ todo'[t][i].msg = m
    BY <1>2
  <2> QED BY <1>2, <2>1 DEF OfferOnItsWay
<1>3. ASSUME NEW s \in Sessions, Sends(t, s) PROVE OfferOnItsWay(todo[t][i])'
  <2>0. /\ 1 \in DOMAIN todo[t] /\ todo[t][1] \in SendCalls
        /\ GoesOn(todo[t], todo[t][1].to \ {s}, todo[t][1].msg, todo'[t])
    BY <1>3, SendsMoves
  <2>1. PICK c : c = todo[t][1]
    OBVIOUS
  <2>2. c \in SendCalls /\ OfferOnItsWay(c)
    BY <2>0, <2>1 DEF OffersKnown
  <2>3. OfferOnItsWay(c)' /\ c.op = "send"
    BY <2>2, OfferCallStays DEF SendCalls
  <2>4. \A v \in c.to \ {s} : c.msg.type = "webrtc.offer" => v \in Viewers /\ Informed(v)'
    BY <2>3 DEF OfferOnItsWay
  <2> QED BY <1>1, <1>2, <2>0, <2>1, <2>4 DEF GoesOn
<1>4. ASSUME Finds(t) PROVE OfferOnItsWay(todo[t][i])'
  <2> DEFINE to == Found(todo[t][1].room, todo[t][1].peer)
  <2>0. /\ 1 \in DOMAIN todo[t] /\ todo[t][1] \in FindCalls
        /\ GoesOn(todo[t], to, todo[t][1].msg, todo'[t])
    BY <1>4, FindsMoves
  <2>1. PICK c : c = todo[t][1]
    OBVIOUS
  <2>2. c \in FindCalls /\ OfferOnItsWay(c)
    BY <2>0, <2>1 DEF OffersKnown
  <2>3. \A v \in Found(c.room, c.peer) : c.msg.type = "webrtc.offer" => v \in Viewers /\ Informed(v)'
    BY <2>2, OfferFinds
  <2>4. to = Found(c.room, c.peer)
    BY <2>1
  <2> HIDE DEF to
  <2>5. \/ todo'[t][i] = [op |-> "send", to |-> to, msg |-> c.msg]
        \/ \E j \in DOMAIN todo[t] : todo'[t][i] = todo[t][j]
    BY <2>0, <2>1 DEF GoesOn
  <2>6. PICK found : found = to
    OBVIOUS
  <2> QED BY <1>1, <1>2, <2>3, <2>4, <2>5, <2>6
<1>5. ASSUME todo'[t][i].msg.type # "webrtc.offer" PROVE OfferOnItsWay(todo[t][i])'
  BY <1>5 DEF OfferOnItsWay
<1>6. CASE OnRead(t)
  <2>1. ASSUME NEW id \in ViewerIds,
               todo'[t] = << [op |-> "send", to |-> {t}, msg |-> RoomJoined(id)],
                             [op |-> "find", room |-> PageRoom[t], peer |-> HostId, msg |-> PeerJoined(id)] >>
        PROVE  todo'[t][i].msg.type # "webrtc.offer"
    <3>1. i \in {1, 2}
      BY <2>1
    <3>2. todo'[t][i].msg \in {RoomJoined(id), PeerJoined(id)}
      BY <2>1, <3>1
    <3> QED BY <3>2, NoticeNames
  <2>2. ASSUME todo'[t][i].msg.type \in PlainTypes PROVE todo'[t][i].msg.type # "webrtc.offer"
    BY <2>2 DEF PlainTypes
  <2>3. ASSUME todo'[t] = RelayCallList(t, Head(inbox[t])) PROVE OfferOnItsWay(todo[t][i])'
    <3>1. PICK m : m = Head(inbox[t])
      OBVIOUS
    <3>2. i = 1 /\ todo'[t][1].op = "find" /\ todo'[t][1].peer = m.to /\ todo'[t][1].msg.type = m.type
      BY <2>3, <3>1, NoticeNames DEF RelayCallList
    <3>3. inbox[t] # <<>> /\ m = inbox[t][1] /\ 1 \in DOMAIN inbox[t]
      BY <1>0, <1>6, <3>1, ReadCases
    <3>4. m.type = "webrtc.offer" => m.to \in ViewerIds /\ Known(m.to)
      BY <3>3 DEF OffersKnown, OfferAsked
    <3>5. m.type = "webrtc.offer" => m.to \in ViewerIds /\ Known(m.to)'
      BY <3>4, KnownStays
    <3>6. todo'[t][i].msg.type = "webrtc.offer" =>
            todo'[t][i].op = "find" /\ todo'[t][i].peer \in ViewerIds /\ Known(todo[t][i].peer)'
      BY <3>2, <3>5
    <3> QED BY <3>6 DEF OfferOnItsWay
  <2> QED BY <1>5, <1>6, <2>1, <2>2, <2>3, CallsBegun
<1>7. CASE OnReadError(t)
  <2>1. todo'[t][i].msg.type # "webrtc.offer"
    <3>1. CASE todo'[t][i].msg.type \in PlainTypes
      BY <3>1 DEF PlainTypes
    <3>2. CASE todo'[t][i].msg = PeerLeft(sess[t].peerId)
      BY <3>2, NoticeNames
    <3> QED BY <1>7, <3>1, <3>2, CallsAtEnd
  <2> QED BY <1>5, <2>1
<1>8. CASE todo'[t] = todo[t]
  BY <1>1, <1>8
<1> QED BY <1>3, <1>4, <1>6, <1>7, <1>8, TodoMoves

LEMMA OfferBehindStep ==
  ASSUME ServerInv, PageTypeOK, SignalingStep, AnyStep, OffersKnown,
         NEW v \in Viewers, NEW i \in DOMAIN outbox'[v]
  PROVE  OfferBehind(v, i)'
<1> SUFFICES ASSUME outbox'[v][i].type = "webrtc.offer", viewerPage'[v].peerId = NoPeer
             PROVE  \E j \in DOMAIN outbox'[v] : j < i /\ outbox'[v][j].type = "room.joined"
  BY DEF OfferBehind
<1>0. v \in Sessions /\ outbox[v] \in Seq(Notices) /\ viewerPage[v].peerId = NoPeer
  BY ViewerIdStays DEF ServerInv, WireTypeOK, Viewers
<1>1. CASE outbox'[v] = outbox[v]
  BY <1>0, <1>1 DEF OffersKnown, OfferBehind
<1>2. CASE outbox'[v] = Tail(outbox[v]) /\ outbox[v] # <<>> /\ PageReceives(v)
  <2>1. i + 1 \in DOMAIN outbox[v] /\ outbox'[v][i] = outbox[v][i + 1] /\ i \in Nat
    BY <1>0, <1>2
  <2> DEFINE k == i + 1
  <2>2. k \in DOMAIN outbox[v] /\ outbox[v][k].type = "webrtc.offer"
    BY <2>1
  <2> HIDE DEF k
  <2>3. PICK j \in DOMAIN outbox[v] : j < k /\ outbox[v][j].type = "room.joined"
    BY <1>0, <2>2 DEF OffersKnown, OfferBehind
  <2>4. j # 1
    <3> SUFFICES ASSUME j = 1 PROVE FALSE
      OBVIOUS
    <3>1. Head(outbox[v]).type = "room.joined"
      BY <1>0, <1>2, <2>3
    <3> QED BY <1>2, <3>1, TakesItsId
  <2>5. j - 1 \in DOMAIN outbox'[v] /\ outbox'[v][j - 1] = outbox[v][j] /\ j \in Nat
    BY <1>0, <1>2, <2>3, <2>4
  <2>6. j - 1 < i
    BY <2>1, <2>3, <2>5 DEF k
  <2> QED BY <2>3, <2>5, <2>6
<1>3. CASE outbox'[v] = <<>>
  BY <1>3
<1>4. ASSUME NEW t \in Sessions, Sends(t, v), conn[v] = "open", outbox'[v] = Append(outbox[v], Head(todo[t]).msg)
      PROVE  \E j \in DOMAIN outbox'[v] : j < i /\ outbox'[v][j].type = "room.joined"
  <2>1. /\ \A j \in DOMAIN outbox[v] : j \in DOMAIN outbox'[v] /\ outbox'[v][j] = outbox[v][j]
        /\ i \in DOMAIN outbox[v] \/ (i = Len(outbox[v]) + 1 /\ outbox'[v][i] = Head(todo[t]).msg)
        /\ \A j \in DOMAIN outbox[v] : j < Len(outbox[v]) + 1
    BY <1>0, <1>4
  <2>2. CASE i \in DOMAIN outbox[v]
    BY <1>0, <2>1, <2>2 DEF OffersKnown, OfferBehind
  <2>3. CASE i = Len(outbox[v]) + 1 /\ outbox'[v][i] = Head(todo[t]).msg
    <3>1. /\ 1 \in DOMAIN todo[t] /\ Head(todo[t]) = todo[t][1] /\ todo[t][1] \in SendCalls /\ v \in todo[t][1].to
      BY <1>0, <1>4, SendsMoves
    <3>2. todo[t][1].op = "send" /\ OfferOnItsWay(todo[t][1])
      BY <3>1 DEF SendCalls, OffersKnown
    <3>3. Informed(v)
      BY <2>3, <3>1, <3>2 DEF OfferOnItsWay
    <3>4. PICK j \in DOMAIN outbox[v] : outbox[v][j].type = "room.joined"
      BY <1>0, <1>4, <3>3 DEF Informed, HasRoomJoined
    <3> QED BY <2>1, <2>3, <3>4
  <2> QED BY <2>1, <2>2, <2>3
<1> QED BY <1>0, <1>1, <1>2, <1>3, <1>4, OutboxMoves

LEMMA OffersKnownStep ==
  ASSUME ServerInv, PageTypeOK, SignalingStep, AnyStep, IdsUnique, JoinsKnown, OffersKnown
  PROVE  OffersKnown'
  BY OfferAskedStep, OfferCallStep, OfferBehindStep DEF OffersKnown

LEMMA OfferAfterJoinedStep ==
  ASSUME ServerInv, PageTypeOK, SignalingStep, OffersKnown, OfferAfterJoined
  PROVE  OfferAfterJoined'
<1> SUFFICES ASSUME NEW v \in Viewers, viewerPage'[v].pc, viewerPage'[v].peerId = NoPeer PROVE FALSE
  BY DEF OfferAfterJoined
<1>0. v \in Sessions /\ outbox[v] \in Seq(Notices) /\ viewerPage[v].peerId = NoPeer
  BY ViewerIdStays DEF ServerInv, WireTypeOK, Viewers
<1>1. ~viewerPage[v].pc
  BY <1>0 DEF OfferAfterJoined
<1>2. outbox[v] # <<>> /\ ViewerHears(v, Head(outbox[v]), viewerPage'[v])
  BY <1>1, ViewerMoves DEF ViewerKeeps
<1>3. Head(outbox[v]).type = "webrtc.offer"
  BY <1>1, <1>2 DEF ViewerHears
<1>4. 1 \in DOMAIN outbox[v] /\ outbox[v][1].type = "webrtc.offer"
  BY <1>0, <1>2, <1>3
<1>5. PICK j \in DOMAIN outbox[v] : j < 1
  BY <1>0, <1>4 DEF OffersKnown, OfferBehind
<1> QED BY <1>0, <1>5

----------------------------------------------------------------------------
(* What a step does to one entry of the hub *)

LEMMA HubMoves ==
  ASSUME ServerInv, AnyStep
  PROVE  \/ UNCHANGED <<hostOf, viewersOf>>
         \/ \E s \in Sessions : OnRead(s) /\ (Registers(s) \/ \E id \in ViewerIds : Joins(s, id))
         \/ \E s \in Sessions : OnReadError(s) /\ Leaves(s)
<1>1. ASSUME NEW s \in Sessions, OnRead(s)
      PROVE  UNCHANGED <<hostOf, viewersOf>> \/ Registers(s) \/ \E id \in ViewerIds : Joins(s, id)
  BY <1>1, ReadCases, HubFailed DEF Rejected, Later, hubVars
<1>2. ASSUME NEW s \in Sessions, OnReadError(s) PROVE UNCHANGED <<hostOf, viewersOf>> \/ Leaves(s)
  BY <1>2, LeaveCases DEF hubVars
<1>3. ASSUME NEW s \in Sessions, RunSend(s) \/ RunFind(s) \/ Destroy(s) PROVE UNCHANGED <<hostOf, viewersOf>>
  BY <1>3 DEF RunSend, RunFind, Destroy, Free, hubVars
<1>4. ASSUME NEW s \in Sessions, PageAct(s) PROVE UNCHANGED <<hostOf, viewersOf>>
  BY <1>4 DEF PageAct, PageOpens, PageAsks, PageGoes, PageTakes, hubVars
<1>5. ASSUME UNCHANGED wireVars PROVE UNCHANGED <<hostOf, viewersOf>>
  BY <1>5 DEF wireVars, hubVars
<1> QED BY <1>1, <1>2, <1>3, <1>4, <1>5 DEF AnyStep, ServerStep

LEMMA HostEntryMoves ==
  ASSUME ServerInv, AnyStep, NEW r \in Rooms
  PROVE  \/ hostOf'[r] = hostOf[r]
         \/ hostOf[r] = NoSession /\ UNCHANGED viewersOf
         \/ hostOf'[r] = NoSession
<1>0. hostOf \in [Rooms -> Reference]
  BY DEF ServerInv, HubTypeOK
<1>1. ASSUME NEW s \in Sessions, Registers(s) PROVE hostOf'[r] = hostOf[r] \/ (hostOf[r] = NoSession /\ UNCHANGED viewersOf)
  BY <1>0, <1>1, HubRegistered
<1>2. ASSUME NEW s \in Sessions, NEW id \in ViewerIds, Joins(s, id) PROVE hostOf'[r] = hostOf[r]
  BY <1>2, HubJoined
<1>3. ASSUME NEW s \in Sessions, Leaves(s) PROVE hostOf'[r] = hostOf[r] \/ hostOf'[r] = NoSession
  BY <1>0, <1>3, HubLeft DEF Leaves, Peers
<1> QED BY <1>1, <1>2, <1>3, HubMoves

LEMMA ViewerEntryMoves ==
  ASSUME ~IdsCollide, ServerInv, AnyStep, NEW r \in Rooms, NEW id \in ViewerIds
  PROVE  \/ viewersOf'[r][id] = viewersOf[r][id]
         \/ /\ viewersOf[r][id] = NoSession
            /\ \E s \in Sessions : OnRead(s) /\ Joins(s, id) /\ PageRoom[s] = r /\ viewersOf'[r][id] = s
         \/ /\ viewersOf'[r][id] = NoSession
            /\ \E s \in Sessions : /\ OnReadError(s) /\ Leaves(s) /\ PageRoom[s] = r
                                   /\ sess[s].peerId \in {HostId, id}
<1>0. viewersOf \in [Rooms -> [ViewerIds -> Reference]] /\ NoViewers = [i \in ViewerIds |-> NoSession]
  BY DEF ServerInv, HubTypeOK, NoViewers
<1>1. ASSUME NEW s \in Sessions, Registers(s) PROVE viewersOf' = viewersOf
  BY <1>1, HubRegistered
<1>2. ASSUME NEW s \in Sessions, NEW i \in ViewerIds, OnRead(s), Joins(s, i)
      PROVE  \/ viewersOf'[r][id] = viewersOf[r][id]
             \/ /\ viewersOf[r][id] = NoSession
                /\ Joins(s, id) /\ PageRoom[s] = r /\ viewersOf'[r][id] = s
  <2>1. viewersOf' = [viewersOf EXCEPT ![PageRoom[s]] = [@ EXCEPT ![i] = s]]
    BY <1>2, HubJoined
  <2>2. CASE r = PageRoom[s] /\ id = i
    <3>1. \A t \in Sessions : sess[t].peerId # id
      BY <1>2, <2>2 DEF Joins, DrawnIds
    <3>2. viewersOf[r][id] = NoSession
      BY <3>1, EntryOf DEF Viewers
    <3>3. viewersOf'[r][id] = s
      BY <1>0, <2>1, <2>2
    <3> QED BY <1>2, <2>2, <3>2, <3>3
  <2>3. CASE ~(r = PageRoom[s] /\ id = i)
    <3>1. viewersOf'[r][id] = viewersOf[r][id]
      BY <1>0, <2>1, <2>3
    <3> QED BY <3>1
  <2> QED BY <2>2, <2>3
<1>3. ASSUME NEW s \in Sessions, Leaves(s)
      PROVE  \/ viewersOf'[r][id] = viewersOf[r][id]
             \/ viewersOf'[r][id] = NoSession /\ PageRoom[s] = r /\ sess[s].peerId \in {HostId, id}
  <2>1. CASE r # PageRoom[s]
    BY <1>0, <1>3, <2>1, HubLeft DEF Leaves, Peers
  <2>2. CASE r = PageRoom[s] /\ sess[s].peerId = HostId
    <3>1. viewersOf' = [viewersOf EXCEPT ![r] = NoViewers]
      BY <1>3, <2>2, HubLeft
    <3> QED BY <1>0, <2>2, <3>1
  <2>3. CASE r = PageRoom[s] /\ sess[s].peerId \in ViewerIds
    <3>1. viewersOf' = [viewersOf EXCEPT ![r] = [@ EXCEPT ![sess[s].peerId] = NoSession]]
      BY <1>3, <2>3, HubLeft
    <3>2. PICK left \in ViewerIds : left = sess[s].peerId
      BY <2>3
    <3>3. viewersOf'[r][id] = IF id = left THEN NoSession ELSE viewersOf[r][id]
      BY <1>0, <3>1, <3>2
    <3> QED BY <2>3, <3>2, <3>3
  <2> QED BY <1>3, <2>1, <2>2, <2>3 DEF Leaves, Peers
<1> QED BY <1>1, <1>2, <1>3, HubMoves

----------------------------------------------------------------------------
(* Who is put out of a room is told *)

\* A call that posts m to v.
LEMMA AboutToSend ==
  ASSUME NEW s \in Sessions, NEW to, NEW m, NEW v \in to,
         todo'[s] = SendTo(to, m)
  PROVE  OnItsWay(v, m)'
<1> DEFINE c == [op |-> "send", to |-> to, msg |-> m]
<1>1. c.op = "send" /\ v \in c.to /\ c.msg = m
  OBVIOUS
<1>2. todo'[s] = <<c>>
  BY DEF SendTo
<1> HIDE DEF c
<1>3. 1 \in DOMAIN todo'[s] /\ todo'[s][1] = c
  BY <1>2
<1> QED BY <1>1, <1>3 DEF OnItsWay

LEMMA ToldStays ==
  ASSUME ServerInv, PageTypeOK, SignalingStep, NEW v \in Viewers, conn[v] = "open", conn'[v] = "open",
         NEW why, viewerPage[v].told \/ OnItsWay(v, SessionEnded(why))
  PROVE  viewerPage'[v].told \/ OnItsWay(v, SessionEnded(why))'
<1>0. v \in Sessions /\ v \notin Hosts /\ viewerPage \in [Viewers -> ViewerPages]
  BY PageTypes DEF Viewers
<1>1. CASE viewerPage[v].told
  <2>1. CASE ViewerKeeps(v)
    BY <1>1, <2>1 DEF ViewerKeeps
  <2>2. CASE ViewerHears(v, Head(outbox[v]), viewerPage'[v])
    BY <1>1, <2>2 DEF ViewerHears
  <2> QED BY <2>1, <2>2, ViewerMoves
<1>2. ASSUME PageReceives(v), outbox[v] # <<>>, Head(outbox[v]) = SessionEnded(why) PROVE viewerPage'[v].told
  <2>1. PICK page : ViewerHears(v, Head(outbox[v]), page)
    BY <1>0, <1>2, Receptions
  <2>2. viewerPage'[v] = page
    BY <1>0, <2>1 DEF ViewerHears
  <2> QED BY <1>2, <2>1, <2>2, NoticeNames DEF ViewerHears
<1> QED BY <1>0, <1>1, <1>2, StaysOnItsWay

LEMMA EvictedAreToldStep ==
  ASSUME ~IdsCollide, ServerInv, PageTypeOK, SignalingStep, AnyStep, IdsUnique, EvictedAreTold
  PROVE  EvictedAreTold'
<1> SUFFICES ASSUME NEW v \in Viewers, conn'[v] = "open", sess'[v].peerId \in ViewerIds,
                    viewersOf'[PageRoom[v]][sess'[v].peerId] # v
             PROVE  \E why \in {"host_stopped", "host_disconnected"} :
                      viewerPage'[v].told \/ OnItsWay(v, SessionEnded(why))'
  BY DEF EvictedAreTold
<1>0. /\ v \in Sessions /\ v \notin Hosts /\ PageRoom[v] \in Rooms
      /\ conn[v] \in {"none", "open", "closing", "closed"} /\ sess[v].peerId \in Peers \cup {NoPeer}
  BY PageRoomAssumption DEF ServerInv, WireTypeOK, Fields, Viewers
<1>1. PICK id \in ViewerIds : id = sess'[v].peerId
  OBVIOUS
<1>2. ~Joins(v, id)
  <2> SUFFICES ASSUME Joins(v, id) PROVE FALSE
    OBVIOUS
  <2>1. viewersOf' = [viewersOf EXCEPT ![PageRoom[v]] = [@ EXCEPT ![id] = v]]
    BY <1>0, HubJoined
  <2>2. viewersOf'[PageRoom[v]][id] = v
    BY <1>0, <2>1 DEF ServerInv, HubTypeOK
  <2> QED BY <1>1, <2>2
<1>3. sess[v].peerId = id
  BY <1>0, <1>1, <1>2, IdOfStep, PeerNames
<1>4. conn[v] = "open"
  <2>1. conn[v] # "none"
    BY <1>0, <1>3, NewSessionFields, PeerNames DEF ServerInv, UntouchedOK
  <2> QED BY <1>0, <2>1, ClosesForGood
<1>5. CASE viewersOf[PageRoom[v]][id] # v
  <2>1. PICK why \in {"host_stopped", "host_disconnected"} :
          viewerPage[v].told \/ OnItsWay(v, SessionEnded(why))
    BY <1>3, <1>4, <1>5 DEF EvictedAreTold
  <2>2. viewerPage'[v].told \/ OnItsWay(v, SessionEnded(why))'
    BY <1>4, <2>1, ToldStays
  <2> QED BY <2>2
<1>6. CASE viewersOf[PageRoom[v]][id] = v
  <2>1. viewersOf'[PageRoom[v]][id] # viewersOf[PageRoom[v]][id] /\ viewersOf[PageRoom[v]][id] # NoSession
    BY <1>0, <1>1, <1>6, NoSessionAssumption
  <2>2. PICK s \in Sessions : /\ OnReadError(s) /\ Leaves(s) /\ PageRoom[s] = PageRoom[v]
                              /\ sess[s].peerId \in {HostId, id}
    BY <1>0, <2>1, ViewerEntryMoves
  <2>3. sess[s].peerId = HostId
    <3> SUFFICES ASSUME sess[s].peerId = id PROVE FALSE
      BY <2>2
    <3>1. s = v
      BY <1>0, <1>3 DEF IdsUnique
    <3>2. conn[s] = "closing"
      BY <2>2, LeaveCases
    <3> QED BY <1>4, <3>1, <3>2
  <2>4. todo'[s] = SendTo(LiveViewers(PageRoom[v]), SessionEnded("host_disconnected"))
    BY <2>2, <2>3, CallsAtEnd DEF LeaveNotices
  <2>5. v \in LiveViewers(PageRoom[v])
    BY <1>0, <1>6, <2>1, NothingExpires DEF LiveViewers, LiveEntries
  <2>6. OnItsWay(v, SessionEnded("host_disconnected"))'
    BY <2>4, <2>5, AboutToSend
  <2> QED BY <2>6
<1> QED BY <1>5, <1>6

----------------------------------------------------------------------------
(* The host of a room hears of every viewer in it *)

\* The lookup of the host that the handler of v has still to make.
AnnounceCall(r, id) == [op |-> "find", room |-> r, peer |-> HostId, msg |-> PeerJoined(id)]
ToAnnounce(v, r, id) == \E i \in DOMAIN todo[v] : todo[v][i] = AnnounceCall(r, id)

\* The host's page got the announcement, will get it, or the handler of that
\* viewer will look the host up.
Announced(r, id) ==
  LET h == hostOf[r]
  IN  \/ id \in hostPage[h].peers \cup dropped[h]
      \/ ToAnnounce(viewersOf[r][id], r, id)
      \/ OnItsWay(h, PeerJoined(id))

EntriesAnnounced ==
  \A r \in Rooms : hostOf[r] # NoSession => \A id \in Entries(r) :
    conn[hostOf[r]] = "open" => Announced(r, id)

\* A peer in the room was not reported as gone.
LEMMA PresentNotGone ==
  ASSUME ServerInv, IdsUnique, NEW r \in Rooms, NEW id \in ViewerIds, viewersOf[r][id] # NoSession
  PROVE  ~Gone(id)
<1>1. /\ viewersOf[r][id] \in Sessions /\ sess[viewersOf[r][id]].peerId = id
      /\ conn[viewersOf[r][id]] \in {"open", "closing"}
  BY EntryOf DEF Reading, Viewers
<1> QED BY <1>1 DEF Gone, IdsUnique

LEMMA PeerStays ==
  ASSUME ServerInv, PageTypeOK, SignalingStep, LeftGone, NEW h \in Hosts, NEW id \in ViewerIds, ~Gone(id),
         id \in hostPage[h].peers \cup dropped[h]
  PROVE  id \in hostPage'[h].peers \cup dropped'[h]
<1>1. CASE HostKeeps(h) \/ HostDrops(h)
  BY <1>1 DEF HostKeeps, HostDrops
<1>2. CASE outbox[h] # <<>> /\ dropped'[h] = dropped[h] /\ HostHears(h, Head(outbox[h]), hostPage'[h])
  <2>1. h \in Sessions
    BY HostsAssumption
  <2>2. Head(outbox[h]) \in Notices /\ Head(outbox[h]) = outbox[h][1] /\ 1 \in DOMAIN outbox[h]
    BY <1>2, <2>1, HeadIsNotice
  <2>3. ~(Head(outbox[h]).type = "peer.left" /\ Head(outbox[h]).arg = id)
    <3> SUFFICES ASSUME Head(outbox[h]).type = "peer.left", Head(outbox[h]).arg = id PROVE FALSE
      OBVIOUS
    <3>1. Head(outbox[h]) = Msg("peer.left", id)
      BY <2>2 DEF Notices, Messages, Msg
    <3>2. outbox[h][1] = PeerLeft(id)
      BY <2>2, <3>1 DEF PeerLeft
    <3> QED BY <2>1, <2>2, <3>2 DEF LeftGone
  <2> QED BY <1>2, <2>3 DEF HostHears
<1> QED BY <1>1, <1>2, HostMoves

LEMMA ArrivalIsKept ==
  ASSUME ServerInv, PageTypeOK, SignalingStep, NEW h \in Hosts, NEW id \in ViewerIds,
         conn[h] = "open", conn'[h] = "open", OnItsWay(h, PeerJoined(id))
  PROVE  OnItsWay(h, PeerJoined(id))' \/ id \in hostPage'[h].peers
<1>0. h \in Sessions /\ hostPage \in [Hosts -> HostPages]
  BY HostsAssumption, PageTypes
<1>1. ASSUME PageReceives(h), outbox[h] # <<>>, Head(outbox[h]) = PeerJoined(id) PROVE id \in hostPage'[h].peers
  <2>1. PICK page : HostHears(h, Head(outbox[h]), page)
    BY <1>0, <1>1, Receptions
  <2>2. hostPage'[h] = page
    BY <1>0, <2>1 DEF HostHears
  <2> QED BY <1>1, <2>1, <2>2, NoticeNames DEF HostHears
<1> QED BY <1>0, <1>1, StaysOnItsWay

\* The handler of a viewer goes on: the lookup stays, or finds the host.
LEMMA LookupGoesOn ==
  ASSUME ServerInv, SignalingStep, NEW v \in Sessions, NEW r \in Rooms, NEW id \in ViewerIds,
         hostOf[r] # NoSession, ToAnnounce(v, r, id)
  PROVE  ToAnnounce(v, r, id)' \/ OnItsWay(hostOf[r], PeerJoined(id))'
<1> DEFINE c == AnnounceCall(r, id)
<1>0. c.op = "find" /\ c.room = r /\ c.peer = HostId /\ c.msg = PeerJoined(id)
  BY DEF AnnounceCall
<1>1. PICK i \in DOMAIN todo[v] : todo[v][i] = c
  BY DEF ToAnnounce
<1>2. ASSUME NEW j \in DOMAIN todo'[v], todo'[v][j] = c PROVE ToAnnounce(v, r, id)'
  BY <1>2 DEF ToAnnounce, AnnounceCall
<1> HIDE DEF c
<1>3. CASE todo'[v] = todo[v]
  BY <1>1, <1>2, <1>3
<1>4. ASSUME NEW s \in Sessions, Sends(v, s) PROVE ToAnnounce(v, r, id)'
  <2>1. todo[v][1] \in SendCalls /\ GoesOn(todo[v], todo[v][1].to \ {s}, todo[v][1].msg, todo'[v])
    BY <1>4, SendsMoves
  <2>2. i # 1
    BY <1>0, <1>1, <2>1 DEF SendCalls
  <2>3. \E j \in DOMAIN todo'[v] : todo'[v][j] = c
    BY <1>1, <2>1, <2>2 DEF GoesOn
  <2> QED BY <1>2, <2>3
<1>5. ASSUME Finds(v) PROVE ToAnnounce(v, r, id)' \/ OnItsWay(hostOf[r], PeerJoined(id))'
  <2> DEFINE to == Found(todo[v][1].room, todo[v][1].peer)
  <2>1. GoesOn(todo[v], to, todo[v][1].msg, todo'[v]) /\ UNCHANGED hostOf
    BY <1>5, FindsMoves DEF Finds, hubVars
  <2>2. CASE i # 1
    <3>1. \E j \in DOMAIN todo'[v] : todo'[v][j] = c
      BY <1>1, <2>1, <2>2 DEF GoesOn
    <3> QED BY <1>2, <3>1
  <2>3. CASE i = 1
    <3>1. to = {hostOf[r]}
      BY <1>0, <1>1, <2>3, PeerNames, NothingExpires DEF Found, Lookup
    <3>2. PICK h : h = hostOf[r]
      OBVIOUS
    <3> HIDE DEF to
    <3>3. 1 \in DOMAIN todo'[v] /\ todo'[v][1] = [op |-> "send", to |-> {h}, msg |-> PeerJoined(id)]
      BY <1>0, <1>1, <2>1, <2>3, <3>1, <3>2 DEF GoesOn
    <3>4. todo'[v][1].op = "send" /\ h \in todo'[v][1].to /\ todo'[v][1].msg = PeerJoined(id)
      BY <3>3
    <3>5. OnItsWay(h, PeerJoined(id))'
      BY <3>3, <3>4 DEF OnItsWay
    <3> QED BY <2>1, <3>2, <3>5
  <2> QED BY <2>2, <2>3
<1>6. todo[v] # <<>>
  BY <1>1
<1> QED BY <1>3, <1>4, <1>5, <1>6, TodoMoves

LEMMA EntriesAnnouncedStep ==
  ASSUME ~IdsCollide, ServerInv, PageTypeOK, SignalingStep, AnyStep, IdsUnique, LeftGone, EntriesAnnounced
  PROVE  EntriesAnnounced'
<1> SUFFICES ASSUME NEW r \in Rooms, NEW id \in ViewerIds,
                    hostOf'[r] # NoSession, viewersOf'[r][id] # NoSession, conn'[hostOf'[r]] = "open"
             PROVE  Announced(r, id)'
  BY DEF EntriesAnnounced, Entries
<1>1. hostOf'[r] = hostOf[r]
  <2>1. CASE hostOf[r] = NoSession /\ UNCHANGED viewersOf
    BY <2>1 DEF ServerInv, RoomsAreInhabited, NoOrphanViewers, Entries
  <2> QED BY <2>1, HostEntryMoves
<1>2. PICK h : h = hostOf[r]
  OBVIOUS
<1>3. h \in Hosts /\ h \in Sessions /\ Reading(h) /\ hostOf'[r] = h /\ conn'[h] = "open"
  BY <1>1, <1>2, EntryOf, HostsAssumption
<1>4. conn[h] = "open"
  BY <1>3, ClosesForGood DEF Reading
<1>5. ASSUME id \in hostPage'[h].peers \cup dropped'[h] \/ OnItsWay(h, PeerJoined(id))'
      PROVE  Announced(r, id)'
  BY <1>3, <1>5 DEF Announced
<1>6. CASE viewersOf[r][id] = NoSession
  <2>1. PICK s \in Sessions : OnRead(s) /\ Joins(s, id) /\ PageRoom[s] = r /\ viewersOf'[r][id] = s
    BY <1>6, ViewerEntryMoves
  <2>2. todo'[s] = << [op |-> "send", to |-> {s}, msg |-> RoomJoined(id)], AnnounceCall(r, id) >>
    BY <2>1, CallsJoined, CallsType, JoinCalls DEF AnnounceCall
  <2>3. 2 \in DOMAIN todo'[s] /\ todo'[s][2] = AnnounceCall(r, id)
    BY <2>2
  <2>4. ToAnnounce(s, r, id)'
    BY <2>3 DEF ToAnnounce, AnnounceCall
  <2> QED BY <2>1, <2>4 DEF Announced
<1>7. CASE viewersOf[r][id] # NoSession
  <2>1. viewersOf'[r][id] = viewersOf[r][id]
    BY <1>7, ViewerEntryMoves
  <2>2. PICK v \in Sessions : v = viewersOf[r][id]
    BY <1>7, EntryOf DEF Viewers
  <2>3. Announced(r, id)
    BY <1>2, <1>3, <1>4, <1>7 DEF EntriesAnnounced, Entries
  <2>4. CASE id \in hostPage[h].peers \cup dropped[h]
    BY <1>3, <1>5, <1>7, <2>4, PresentNotGone, PeerStays
  <2>5. CASE OnItsWay(h, PeerJoined(id))
    BY <1>3, <1>4, <1>5, <2>5, ArrivalIsKept
  <2>6. CASE ToAnnounce(v, r, id)
    <3>1. ToAnnounce(v, r, id)' \/ OnItsWay(hostOf[r], PeerJoined(id))'
      BY <1>2, <1>3, <2>2, <2>6, NoSessionAssumption, LookupGoesOn
    <3>2. ASSUME ToAnnounce(v, r, id)' PROVE Announced(r, id)'
      BY <2>1, <2>2, <3>2 DEF Announced
    <3> QED BY <1>1, <1>2, <1>5, <3>1, <3>2 DEF Announced
  <2> QED BY <1>2, <2>2, <2>3, <2>4, <2>5, <2>6 DEF Announced
<1> QED BY <1>6, <1>7

LEMMA AnnouncedHolds ==
  ASSUME ServerInv, EntriesAnnounced
  PROVE  ViewersAnnounced
<1> SUFFICES ASSUME NEW r \in Rooms, hostOf[r] # NoSession, NEW id \in LiveEntries(r), conn[hostOf[r]] = "open"
             PROVE  \/ id \in hostPage[hostOf[r]].peers \cup dropped[hostOf[r]]
                    \/ Announcing(id) \/ OnItsWay(hostOf[r], PeerJoined(id))
  BY DEF ViewersAnnounced
<1>1. id \in ViewerIds /\ id \in Entries(r)
  BY NothingExpires DEF Entries
<1>2. Announced(r, id) /\ viewersOf[r][id] \in Sessions
  BY <1>1, EntryOf DEF EntriesAnnounced, Entries, Viewers
<1>3. AnnounceCall(r, id).msg = PeerJoined(id)
  BY DEF AnnounceCall
<1> QED BY <1>2, <1>3 DEF Announced, ToAnnounce, Announcing

----------------------------------------------------------------------------
(* The theorems *)

LEMMA PageTypeInit == Init => PageTypeOK
<1> SUFFICES ASSUME Init PROVE PageTypeOK
  OBVIOUS
<1>1. NewHostPage \in HostPages /\ NewHostPage.offering = {} /\ NewHostPage.peers = {}
  BY DEF NewHostPage, HostPages
<1>2. NewViewerPage \in ViewerPages
  BY DEF NewViewerPage, ViewerPages
<1> QED BY <1>1, <1>2, PageTypes DEF Init

LEMMA SignalingNext ==
  ASSUME ServerInv, PageTypeOK, [Next]_vars
  PROVE  SignalingStep /\ AnyStep
  BY NextIsSignalingStep, SignalingIsAnyStep

\* The server behind the pages keeps its invariant, and so keeps its entries
\* owned (ws_session.cpp:50-54), its rooms inhabited (ws_hub.cpp:106-120) and has
\* work left while a page that is gone is not forgotten (ws_session.cpp:36-54):
\* the pages of app_host.js and app_viewer.js send nothing that the clients of
\* ServerSpec do not.
THEOREM SignalingSafe ==
  Spec => [](EntriesOwned /\ NothingLeftBehind /\ PageTypeOK)
<1>1. Init => ServerInv /\ PageTypeOK
  BY ServerInvInit, PageTypeInit DEF Init
<1>2. ServerInv /\ PageTypeOK /\ [Next]_vars => ServerInv' /\ PageTypeOK'
  BY SignalingNext, ServerStepInv, PageTypeStep
<1>3. ServerInv /\ PageTypeOK => EntriesOwned /\ NothingLeftBehind /\ PageTypeOK
  BY WireIsSessionType, GoneLeavesWork DEF ServerInv, EntriesOwned, ServerTypeOK, NothingLeftBehind
<1> QED BY <1>1, <1>2, <1>3, PTL DEF Spec, Safety

\* With the pages of app_host.js and app_viewer.js in front of it the server
\* implements RoomRegistry as it does for any client of ServerSpec: who is in
\* which room changes as the registry allows (ws_session_handlers.cpp:92-102,
\* ws_hub.cpp:56-131).
THEOREM SignalingImplementsRegistry ==
  ASSUME ~IdsCollide
  PROVE  Spec => KeepsRegistry
<1>1. Init => RegistryInv /\ Registry!RegistryInit /\ PageTypeOK
  BY RegistryInvInit, PageTypeInit DEF Init
<1>2. RegistryInv /\ PageTypeOK /\ [Next]_vars => RegistryInv' /\ PageTypeOK'
  BY SignalingNext, RegistryInvStep, PageTypeStep DEF RegistryInv
<1>3. RegistryInv /\ PageTypeOK /\ [Next]_vars => [Registry!RegistryNext]_(Registry!registryVars)
  <2> SUFFICES ASSUME RegistryInv, PageTypeOK, [Next]_vars
               PROVE  [Registry!RegistryNext]_(Registry!registryVars)
    OBVIOUS
  <2>1. Registry!RegistryNext \/ UNCHANGED <<Online, Left, hostOf, Members>>
    BY SignalingNext, RegistryStep DEF RegistryInv
  <2> QED BY <2>1 DEF Registry!registryVars, Online, Left, Members, MembersOf
<1> QED BY <1>1, <1>2, <1>3, PTL DEF Spec, Safety, KeepsRegistry, Registry!RegistrySafety

\* The inductive invariant of the pages: the ids are of one viewer each, and what
\* is on its way between viewers and hosts tells the truth about them.
SignalingInv ==
  /\ ServerInv /\ PageTypeOK /\ IdsUnique
  /\ JoinsOwned /\ LeftGone /\ LeftLast
  /\ JoinsKnown /\ OffersKnown /\ OfferAfterJoined
  /\ EntriesAnnounced /\ EvictedAreTold

LEMMA SignalingInvInit == Init => SignalingInv
<1> SUFFICES ASSUME Init PROVE SignalingInv
  OBVIOUS
<1>1. ServerInv /\ PageTypeOK
  BY ServerInvInit, PageTypeInit DEF Init
<1>2. IdsUnique /\ EvictedAreTold
  BY NewSessionFields, PeerNames DEF Init, ServerInit, IdsUnique, EvictedAreTold, Viewers
<1>3. JoinsOwned /\ LeftGone /\ LeftLast
  BY DEF Init, ServerInit, JoinsOwned, LeftGone, LeftLast
<1>4. JoinsKnown
  BY HostsAssumption DEF Init, ServerInit, JoinsKnown, NewHostPage
<1>5. OffersKnown /\ OfferAfterJoined
  BY DEF Init, ServerInit, OffersKnown, OfferAfterJoined, NewViewerPage, Viewers
<1>6. EntriesAnnounced
  BY DEF Init, ServerInit, HubInit, EntriesAnnounced
<1> QED BY <1>1, <1>2, <1>3, <1>4, <1>5, <1>6 DEF SignalingInv

LEMMA SignalingInvStep ==
  ASSUME ~IdsCollide, SignalingInv, [Next]_vars
  PROVE  SignalingInv'
<1>1. /\ ServerInv /\ PageTypeOK /\ IdsUnique /\ JoinsOwned /\ LeftGone /\ LeftLast
      /\ JoinsKnown /\ OffersKnown /\ OfferAfterJoined /\ EntriesAnnounced /\ EvictedAreTold
  BY DEF SignalingInv
<1>2. SignalingStep /\ AnyStep
  BY <1>1, SignalingNext
<1>3. ServerInv' /\ PageTypeOK' /\ IdsUnique'
  BY <1>1, <1>2, ServerStepInv, PageTypeStep, IdsUniqueStep
<1>4. JoinsOwned' /\ LeftGone' /\ LeftLast'
  BY <1>1, <1>2, JoinsOwnedStep, LeftGoneStep, LeftLastStep
<1>5. JoinsKnown' /\ OffersKnown' /\ OfferAfterJoined'
  BY <1>1, <1>2, JoinsKnownStep, OffersKnownStep, OfferAfterJoinedStep
<1>6. EntriesAnnounced' /\ EvictedAreTold'
  BY <1>1, <1>2, EntriesAnnouncedStep, EvictedAreToldStep
<1> QED BY <1>3, <1>4, <1>5, <1>6 DEF SignalingInv

\* No viewer in a room is lost to the page of the room's host: the page knows it,
\* threw it away with stopShare, is about to be told, or the handler of the
\* viewer has the lookup of the host still to make (ws_session_handlers.cpp:92-102,
\* app_host.js:304-312).  The ids are never drawn twice.
THEOREM MembersAreAnnounced ==
  ASSUME ~IdsCollide
  PROVE  Spec => []MembersAnnounced
<1>1. SignalingInv /\ [Next]_vars => SignalingInv'
  BY SignalingInvStep
<1>2. SignalingInv => MembersAnnounced
  BY AnnouncedHolds DEF SignalingInv, MembersAnnounced
<1> QED BY <1>1, <1>2, SignalingInvInit, PTL DEF Spec, Safety

\* A connected viewer that the server put out of its room has been told so or
\* will be (ws_hub.cpp:104-129).
THEOREM EvictedViewersAreTold ==
  ASSUME ~IdsCollide
  PROVE  Spec => []EvictedAreTold
<1>1. SignalingInv /\ [Next]_vars => SignalingInv'
  BY SignalingInvStep
<1>2. SignalingInv => EvictedAreTold
  BY DEF SignalingInv
<1> QED BY <1>1, <1>2, SignalingInvInit, PTL DEF Spec, Safety

\* No viewer page handles an offer before it knows its id, and no host page is
\* told that a peer joined after it was told that the peer left
\* (ws_session_handlers.cpp:98-102, ws_hub.cpp:104-129).
THEOREM NoticesKeepTheirOrder ==
  ASSUME ~IdsCollide
  PROVE  Spec => []NoticesInOrder
<1>1. SignalingInv /\ [Next]_vars => SignalingInv'
  BY SignalingInvStep
<1>2. SignalingInv => NoticesInOrder
  BY NoLateJoinHolds DEF SignalingInv, NoticesInOrder
<1> QED BY <1>1, <1>2, SignalingInvInit, PTL DEF Spec, Safety
=============================================================================
