----------------------------- MODULE Signaling -----------------------------
(***************************************************************************)
(* The signaling server of WsSession together with the pages that talk to  *)
(* it: host pages (www/assets/app_host.js) and viewer pages                *)
(* (www/assets/app_viewer.js).  Each page opens one socket, once, and      *)
(* never reconnects; a page that was reloaded is another session.          *)
(*                                                                         *)
(* The browser's WebRTC is reduced to who owes whom an offer or an answer: *)
(* creating one takes the page out of the handler (await), so sending it   *)
(* is a step of its own.                                                   *)
(***************************************************************************)
EXTENDS WsSession

VARIABLES
  hostPage,    \* hostPage[h]: state, registered, sharing, the keys of peers,
               \* and the peers for which createOffer is running
  viewerPage,  \* viewerPage[v]: state, peerId, whether there is a
               \* RTCPeerConnection, whether an answer is being created,
               \* and whether it ever handled session.ended (history)
  dropped      \* dropped[h]: the peers stopShare has thrown away (history)

pageVars == <<hostPage, viewerPage, dropped>>
vars     == <<serverVars, pageVars>>

NewHostPage == [state |-> "registering", registered |-> FALSE, sharing |-> FALSE,
                peers |-> {}, offering |-> {}]
NewViewerPage == [state |-> "connecting", peerId |-> NoPeer, pc |-> FALSE, answering |-> FALSE,
                  told |-> FALSE]

PageTypeOK ==
  /\ hostPage \in [Hosts -> [state : {"registering", "ready", "sharing", "idle", "error", "closed"},
                             registered : BOOLEAN, sharing : BOOLEAN,
                             peers : SUBSET ViewerIds, offering : SUBSET ViewerIds]]
  /\ viewerPage \in [Viewers ->
       [state : {"connecting", "joined", "negotiating", "ended", "error", "closed"},
        peerId : ViewerIds \cup {NoPeer}, pc : BOOLEAN, answering : BOOLEAN,
        told : BOOLEAN]]
  /\ dropped \in [Hosts -> SUBSET ViewerIds]
  /\ \A h \in Hosts : hostPage[h].offering \subseteq hostPage[h].peers

----------------------------------------------------------------------------
(* The host page *)

SetHost(h, page) == hostPage' = [hostPage EXCEPT ![h] = page]

\* ensurePeer: a peer that joins while the screen is shared gets a track, and
\* with it an offer.
EnsurePeerNoTrack(page, id) ==        \* seeded fault: no track, no offer
  [page EXCEPT !.peers = @ \cup {id}]
EnsurePeer(page, id) ==
  IF id \in page.peers THEN page
  ELSE [page EXCEPT !.peers = @ \cup {id},
                    !.offering = IF page.sharing THEN @ \cup {id} ELSE @]

CleanupPeerOnly(page, id) == [page EXCEPT !.peers = @ \ {id}]   \* seeded fault
CleanupPeer(page, id) ==
  [page EXCEPT !.peers = @ \ {id}, !.offering = @ \ {id}]

HostReceives(h, m) ==
  LET page == hostPage[h] IN
  CASE m.type = "host.registered" ->
         SetHost(h, [page EXCEPT !.registered = TRUE, !.state = "ready"])
    [] m.type = "peer.joined" -> SetHost(h, EnsurePeer(page, m.arg))
    [] m.type = "peer.left"   -> SetHost(h, CleanupPeer(page, m.arg))
    [] m.type = "error"       -> SetHost(h, [page EXCEPT !.state = "error"])
    [] OTHER -> UNCHANGED hostPage   \* answer, ice, session.end.ack

\* waitForHostReady, then the user picks a screen and every peer gets the track.
StartShare(h) ==
  /\ conn[h] = "open" /\ sends[h] < MaxSends
  /\ ~hostPage[h].sharing
  /\ hostPage[h].registered \/ hostPage[h].state \in {"ready", "sharing"}
  /\ SetHost(h, [hostPage[h] EXCEPT !.sharing = TRUE, !.state = "sharing",
                                    !.offering = hostPage[h].peers])
  /\ sends' = [sends EXCEPT ![h] = @ + 1]
  /\ UNCHANGED <<hubVars, conn, sess, todo, inbox, outbox, viewerPage, dropped>>

\* The end of negotiatePeer.
SendOffer(h, id) ==
  /\ conn[h] = "open" /\ id \in hostPage[h].offering
  /\ SetHost(h, [hostPage[h] EXCEPT !.offering = @ \ {id}])
  /\ \E token \in Tokens :
       PageSends(h, <<Request("webrtc.offer", PageRoom[h], token, id)>>)
  /\ UNCHANGED <<hubVars, conn, sess, todo, outbox, sends, viewerPage, dropped>>

\* stopShare closes the peers but does not take their viewers out of the room.
\* The desktop's stop-share command needs no stream to stop; bound: such a
\* command counts as one of the page's MaxSends.
StopShare(h) ==
  /\ conn[h] = "open"
  /\ \/ hostPage[h].sharing /\ UNCHANGED sends
     \/ ~hostPage[h].sharing /\ sends[h] < MaxSends /\ sends' = [sends EXCEPT ![h] = @ + 1]
  /\ SetHost(h, [hostPage[h] EXCEPT
       !.sharing = FALSE, !.peers = {}, !.offering = {},
       !.state = IF hostPage[h].registered THEN "ready" ELSE "idle"])
  /\ dropped' = [dropped EXCEPT ![h] = @ \cup hostPage[h].peers]
  /\ \E token \in Tokens :
       PageSends(h, <<Request("session.end", PageRoom[h], token, NoPeer)>>)
  /\ UNCHANGED <<hubVars, conn, sess, todo, outbox, viewerPage>>

\* beforeunload: a registered page still says that the session ends.
HostUnloads(h) ==
  /\ conn[h] = "open" /\ hostPage[h].registered
  /\ conn' = [conn EXCEPT ![h] = "closing"]
  /\ outbox' = [outbox EXCEPT ![h] = <<>>]
  /\ \E token \in Tokens :
       PageSends(h, <<Request("session.end", PageRoom[h], token, NoPeer)>>)
  /\ SetHost(h, [hostPage[h] EXCEPT !.registered = FALSE, !.state = "closed"])
  /\ UNCHANGED <<hubVars, sess, todo, sends, viewerPage, dropped>>

----------------------------------------------------------------------------
(* The viewer page *)

SetViewer(v, page) == viewerPage' = [viewerPage EXCEPT ![v] = page]

ViewerReceives(v, m) ==
  LET page == viewerPage[v] IN
  CASE m.type = "room.joined" ->
         SetViewer(v, [page EXCEPT !.peerId = m.arg, !.state = "joined"])
    [] m.type = "webrtc.offer" ->
         SetViewer(v, [page EXCEPT !.state = "negotiating", !.pc = TRUE, !.answering = TRUE])
    [] m.type = "session.ended" ->   \* cleanupPc: the pending answer never comes
         SetViewer(v, [page EXCEPT !.state = "ended", !.pc = FALSE, !.answering = FALSE,
                                   !.told = TRUE])
    [] m.type = "error" -> SetViewer(v, [page EXCEPT !.state = "error"])
    [] OTHER -> UNCHANGED viewerPage \* ice

\* The end of onOffer.
SendAnswer(v) ==
  /\ conn[v] = "open" /\ viewerPage[v].answering
  /\ SetViewer(v, [viewerPage[v] EXCEPT !.answering = FALSE])
  /\ PageSends(v, <<Request("webrtc.answer", PageRoom[v], NoToken, HostId)>>)
  /\ UNCHANGED <<hubVars, conn, sess, todo, outbox, sends, hostPage, dropped>>

----------------------------------------------------------------------------
(* Pages and server *)

\* ws.onmessage of either page.
PageReceives(s) ==
  /\ ClientReceives(s)
  /\ IF s \in Hosts THEN HostReceives(s, Head(outbox[s])) /\ UNCHANGED viewerPage
     ELSE ViewerReceives(s, Head(outbox[s])) /\ UNCHANGED hostPage
  /\ UNCHANGED dropped

PageConnects(s) == \E token \in Tokens : Connect(s, token) /\ UNCHANGED pageVars

\* ws.onclose, or the page is gone.
PageDisconnects(s) ==
  /\ Disconnect(s)
  /\ IF s \in Hosts
     THEN /\ SetHost(s, [hostPage[s] EXCEPT !.registered = FALSE, !.state = "closed"])
          /\ UNCHANGED viewerPage
     ELSE SetViewer(s, [viewerPage[s] EXCEPT !.state = "closed"]) /\ UNCHANGED hostPage
  /\ UNCHANGED dropped

Init ==
  /\ ServerInit
  /\ hostPage = [h \in Hosts |-> NewHostPage]
  /\ viewerPage = [v \in Viewers |-> NewViewerPage]
  /\ dropped = [h \in Hosts |-> {}]

HostStep(h) ==
  \/ StartShare(h) \/ StopShare(h) \/ HostUnloads(h)
  \/ \E id \in ViewerIds : SendOffer(h, id)

Next ==
  \/ \E s \in Sessions : ServerStep(s) /\ UNCHANGED pageVars
  \/ \E s \in Sessions : PageConnects(s) \/ PageReceives(s) \/ PageDisconnects(s)
  \/ \E h \in Hosts : HostStep(h)
  \/ \E v \in Viewers : SendAnswer(v)

\* The server's threads run what is ready; the browser delivers messages and
\* settles the promises of WebRTC.  The user and the network owe nothing.
Fairness ==
  /\ \A s \in Sessions : WF_vars(ServerStep(s) /\ UNCHANGED pageVars)
  /\ \A s \in Sessions : WF_vars(PageReceives(s))
  /\ \A h \in Hosts, id \in ViewerIds : WF_vars(SendOffer(h, id))
  /\ \A v \in Viewers : WF_vars(SendAnswer(v))

Safety == Init /\ [][Next]_vars
Spec == Safety /\ Fairness

----------------------------------------------------------------------------
(* Properties *)

Carries(queue, msg) == \E i \in DOMAIN queue : queue[i] = msg

\* msg is on its way to the page of s: posted, or about to be posted.
OnItsWay(s, msg) ==
  \/ Carries(outbox[s], msg)
  \/ \E t \in Sessions : \E i \in DOMAIN todo[t] :
       todo[t][i].op = "send" /\ s \in todo[t][i].to /\ todo[t][i].msg = msg

\* A viewer in a room is known to the page of the room's host, or its handler
\* is still announcing it, unless that page threw its peers away: between the
\* insertion under the lock and the lookup of the host (two critical sections,
\* ws_session_handlers.cpp:92-102) the announcement cannot be lost.
ViewersAnnounced ==
  \A r \in Rooms : hostOf[r] # NoSession => \A id \in LiveEntries(r) :
    LET h == hostOf[r] IN
    conn[h] = "open" =>
      \/ id \in hostPage[h].peers \cup dropped[h]
      \/ Announcing(id) \/ OnItsWay(h, PeerJoined(id))

MembersAnnounced == PageTypeOK /\ ViewersAnnounced

\* A viewer that the server took out of its room while the viewer is connected
\* is told so (ws_hub.cpp:106-126): its page has seen session.ended or will.
EvictedAreTold ==
  \A v \in Viewers :
    conn[v] = "open" /\ sess[v].peerId \in ViewerIds
      /\ viewersOf[PageRoom[v]][sess[v].peerId] # v
    => \/ viewerPage[v].told
       \/ \E why \in {"host_stopped", "host_disconnected"} : OnItsWay(v, SessionEnded(why))

\* No offer is handled before room.joined: the announcement to the host is made
\* after the reply to the viewer (ws_session_handlers.cpp:99-102), so the host
\* cannot answer faster than the server.
OfferAfterJoined ==
  \A v \in Viewers : viewerPage[v].pc => viewerPage[v].peerId # NoPeer

\* Neither page is told a later thing first: no offer before room.joined, and no
\* peer.joined behind the peer.left of the same viewer.
NoticesInOrder == OfferAfterJoined /\ NoLateJoin

\* A peer that is gone does not stay on a host page, even one that it was
\* announced to although it had joined under an earlier host.
GhostsVanish ==
  \A h \in Hosts, v \in Viewers, id \in ViewerIds :
    conn[v] = "closed" /\ sess[v].peerId = id /\ id \in hostPage[h].peers
      ~> id \notin hostPage[h].peers \/ conn[h] # "open"

\* A viewer in the room of a host that shares its screen gets an offer, whether
\* it joined before or after the sharing began (app_host.js:369-405, 470-497).
MembersGetOffers ==
  \A r \in Rooms, h \in Hosts, v \in Viewers, id \in ViewerIds :
    hostOf[r] = h /\ hostPage[h].sharing /\ viewersOf[r][id] = v
      ~> \/ viewerPage[v].pc \/ viewersOf[r][id] # v \/ hostOf[r] # h
         \/ ~hostPage[h].sharing \/ id \in dropped[h]
         \/ conn[h] # "open" \/ conn[v] # "open"

\* "one room has exactly one host" (docs/SIGNALING_PROTOCOL.md:12): two open host
\* pages of one room are never both registered.
OneHostPerRoom ==
  \A g, h \in Hosts :
    g # h /\ PageRoom[g] = PageRoom[h]
      => ~(hostPage[g].registered /\ hostPage[h].registered)

\* "viewer handles session.ended (explicit end state + cleanup)"
\* (docs/PROGRESS_WIP.md:21): the end state is left for a new offer or with the
\* connection only.
EndStateIsExplicit ==
  [][\A v \in Viewers :
       viewerPage[v].state = "ended"
         => viewerPage'[v].state \in {"ended", "negotiating", "closed"}]_vars
=============================================================================
