# Formal models of the LAN desktop sharing host

TLA+ models of the program in this repository, the TLC configurations that check
them on small instances, and proofs for TLAPS. Paths in this file are relative
to the repository; `HANDLERS` stands for
`src/core/server/ws_session_handlers.cpp`.

## 1. The system

A desktop program (Win32 window with an admin page in a WebView, or a tray or
menu bar shell) starts a local server. The server serves static pages over HTTP
and relays signaling messages over WebSockets. A *host page* captures the screen;
*viewer pages* show it. The pages find each other in a *room* of the server (one
host, a limited number of viewers), negotiate WebRTC connections through it, and
then exchange the media directly. The admin page embeds the host page in a frame
and drives it by `postMessage`.

```
 admin page (app.js) --postMessage--> host page (app_host.js, in a frame)
    |  snapshots, commands               |  WebSocket
 desktop host (MainWindow.cpp)       WsSession ... WsSession   (one per page)
    |  child process                    \        /
 ServiceHost --- Listener --- HttpSession  WsHub (rooms_, one mutex)
                                           /
                               viewer page (app_viewer.js) <== WebRTC ==> host page
```

### Inventory

| Component | State | Operations | Interacts through | Hard behaviour | What makes it correct |
|---|---|---|---|---|---|
| Room hub `ws_hub.cpp` | `rooms_`: per room a weak reference to the host and a map of weak references to viewers | RegisterHost, JoinViewer, Leave, GetPeer, statistics | called by every session on any thread, posts messages to sessions after unlocking | entries that expire, check and act under one lock but notifications after it | capacity, no viewer without host, no room without members, one host |
| Signaling sessions `ws_session.cpp`, `ws_session_handlers.cpp` | `peerId_`, `room_`, role; `outbox_`, `writing_` | read loop, one handler per message, Send, Leave on a read error | strands of one io_context, the hub | handlers of two sessions interleave between any two hub calls; posts arrive later | announcements are neither lost, reordered nor sent to the wrong host; one write at a time |
| Host page `app_host.js` | socket, registration, peers, stream, command queue | commands, picker, track events, messages | WebSocket, frame messages, browser | every `await` lets other events in | what is captured is what is shared; every peer is sent it |
| Viewer page `app_viewer.js` | socket, peer connection, video, retry timer, shown state | join, offers, playback, cleanup | WebSocket, browser | promises that settle after the session has ended | end state stays, playback is retried |
| Admin page `webui/app.js` | pending and queued request, timer, frame, last snapshot | start, change, stop, timeouts, reload | `postMessage`, snapshots | answers after their timeout, a page that reloads or never answers | each request ends once, stop always stops |
| Service `service_host.cpp`, `listener.cpp`, `http_session.cpp` | io_context, hub, listener, threads, status | Start, Stop, accept loop, read loop | threads running handlers | start that fails half way, handlers left behind by a stop | reachable while running, no threads or handlers of a dead run |
| Desktop host window `MainWindow.cpp`, action, session and observability coordinators | session, page state, viewer count, poll flag, handoff flags | start, stop, restart, copy, open, export, tick, poll, poll result, page status | window messages, poll thread, server process | results and statuses of an earlier server applied later; a crash leaves a server behind | polls resume, counts converge, what is called copied or stopped is so |
| Server process control `ServerController.cpp` | child process, pipe and process handles, two readers | Start, Stop, Cleanup, stale process cleanup | pipes, process table, ports | readers, child and caller move between any two steps of a call | no reader without its handles, every call returns |
| Host session, edit session | configuration, draft, handoff flags | normalise, apply, draw credentials, templates | desktop host | values edited while the server runs, blank and invalid input | a change takes back what was handed out |
| Admin shell `WebViewHost.cpp`, `ShellEffectExecutor.cpp`, shell coordinators | WebView status, readiness, navigation, tray icon, fallback | navigate, retry, publish, hide, close, tray commands | WebView callbacks, posted messages | creation that fails or never ends, pages that load late, a window that goes away | the page comes up or the user can retry, nothing starts by itself |
| Native shells `src/host_shell`, `apps/linux_tray` | last sample, alert memory, menu, icon, managed process | poll, click, wait, spawn, terminate | HTTP to the service, processes | waits inside a click, a child that died unnoticed, answers that fail | no server lost, a way to stop it, no flicker |
| Network and endpoint selection, platform layer | address, mode, hotspot, last diagnosis | refresh, rank, probe, hotspot on and off | operating system, admin page | the machine changes between two probes; two rankings | a report is true of the machine it looked at |
| Share artifacts `share_artifact_service.cpp` | the bundle's files, the pages open on it | export, poll the status script, draw the code | disk, browser | a write that fails half way, pages older than the files | files of one snapshot, pages that catch up |
| Presenters | none | formatting, and a few decisions | - | - | modelled where a decision has consequences |
| Localisation, packaging | none | - | - | - | not modelled |

The list in `PROJECT.json` under `components` is the same with the files and what
is left out; `hazards` lists what is hard to test, each at its line.

## 2. The modules

| Module | Models | Builds on |
|---|---|---|
| `RoomRegistry` | what a room promises (abstract): one host, then members up to a limit, all gone with the host | - |
| `FifoChannel` | what the send path of a session promises (abstract) | - |
| `WsHub` | `ws_hub.cpp`: each action is one critical section | - |
| `WsSession` | the sessions and their handlers | extends `WsHub`, implements `RoomRegistry` |
| `Signaling` | the two pages' signaling, with the server | extends `WsSession` |
| `WsOutbox` | Send, DoWrite and OnWrite of one session | implements `FifoChannel` |
| `HostShare` | capture, picker, tracks, commands and peers of the host page | - |
| `HostBridge` | the admin page's requests to the embedded host page and the service | extends `HostShare` |
| `ViewerPlayback` | negotiation and playback on the viewer page | - |
| `ServiceHost` | the service, its threads, accept loop and io_context | - |
| `HostSession` | the shared session: normalisation, changes, drafts (operators) | - |
| `ServerController` | the child process, its pipe readers, the ports of the machine | extends `HostSession` |
| `DesktopHost` | the window's UI thread, its commands, polls and posted messages | extends `ServerController` |
| `AdminShell` | the window as a shell around its WebView: navigation, retries, tray, messages | - |
| `ShellAlerts` | debouncing, notifications, menu and icon of a native shell (operators) | - |
| `NativeShell` | the Linux tray shell and the server it forks | extends `ShellAlerts` |
| `EndpointSelection` | the two rankings of addresses (operators) | - |
| `SelfCheck` | the conclusions of one look at the machine (operators) | extends `EndpointSelection` |
| `ShareBundle` | the exported files and the pages that follow them (operators) | extends `SelfCheck` |
| `NetworkHost` | address, hotspot, diagnosis, bundle and snapshot of the window | extends `ShareBundle` |
| `SignalingProofs` | proofs about hub, sessions and pages | `Signaling`, and with it `WsSession` and `WsHub` |
| `ServerProcessProofs` | proofs about two parts of the server process that share no state | `ServiceHost` and `WsOutbox` |
| `HostBridgeProofs` (and `HostShare`), `ViewerPlaybackProofs`, `DesktopHostProofs`, `NativeShellProofs`, `AdminShellProofs`, `NetworkHostProofs` | proofs | the module of their name |
| `MCWsSession`, `MCSignaling`, `MCDesktopHost`, `MCNetworkHost` | sets and symmetries for TLC | the module of their name |

The other runs take the specification as it is, with the constants in the `.cfg`.

### How state and actions correspond to the code

*WsHub.* `rooms`, `hostOf`, `viewersOf` are `rooms_` and the two fields of
`RoomState`. A weak reference is the session it was made of; `freed` are the
sessions that were destroyed, so that `Expired(ref)` is `weak_ptr::expired`.
`PruneExpiredViewers` is called by the same operations as in the code. The
statistics (`GetStats`) only read and are no action.

*WsSession.* A handler is split where the lock is released. `OnRead`
does the first critical section; the posts and lookups that follow wait in
`todo[s]` and are done one per step, in the order of the code, with any steps of
other sessions between them. `outbox[s]` is what was posted to the strand of `s`
and has not reached the page. A session is freed when its read has failed and
nothing refers to it any more.

*Signaling.* A page is a record of what its handlers keep. Creating an offer or
an answer leaves the handler (`await`), so sending it is a step of its own.
`dropped` and `ended` are histories for the properties.

*WsOutbox.* `posted` are the Send calls whose posted function has not run yet,
`outbox` is `outbox_`, `writing` is `writing_`, `writes` the outstanding
`async_write`s with the buffer each one uses. The bound on the messages,
`MaxMessages`, is any natural number for the proof.

*HostShare.* `job` is the command that is suspended at an await (waiting for the
registration, for the picker, or for the wake lock), `queue` the commands on
`hostControlQueue` behind it. A track is live, ended with its event not yet
delivered, or released. The end of a track bypasses the queue, as in the code.

*HostBridge.* The desktop host is reduced to what the admin page sees of it:
commands go out in order (`toDesktop`) and snapshots come back, of which the last
one counts. `FrameReachesHost` says whether status messages of the framed page
reach the native side as well; the code leaves this to the embedding, and both
values were checked (the run uses FALSE, the weaker coupling).

*ViewerPlayback.* `job` is the `await` that `onOffer` stands at, `play` the
pending `video.play()`. What a browser runs as a microtask at the end of a
handler is part of that handler's step.

*ServiceHost.* `ops` are the asynchronous operations that have not completed and
`ready` the handlers no thread has taken; both live in the `io_context`, which
survives a stop. A run of the service is known by the number of its start. The
caller's Start and Stop are cut where worker threads can act in between.

*HostSession.* A text is a name or nothing, with or without blanks around it; a port
is one of the valid ones, absent, or not a number. The operators are the functions
of `host_session_coordinator.cpp` and of the edit form, by their names.

*ServerController.* `child` is what `m_pi` names, `handles` the pipe ends and the
process handle that are open, `reader` where each `ReaderThreadProc` is. `call` is
where the thread inside Start or Stop stands: terminate, join, close and spawn are
separate steps, because child and readers move between them. `owner` says who
listens on each port: nobody, the child, a server nobody holds, or another program.

*DesktopHost.* One UI thread: `job` is the host action it is inside of (the operations
left, where the current one is, what its end does to the handoff flags), and no other
message is handled meanwhile. `posted` are the messages in the window's queue,
`poll` the detached thread with the port it asks. The timer's message comes only when
nothing is posted, as `WM_TIMER` does. A crash ends the app and leaves its server
running; the app may be started again. `copied` is a history.

*AdminShell.* A handler of the window is a function from the window record `w` to the
window record, since the UI thread runs it to its end; the WebView's creation, the
loading of a page and the delivery of messages are steps of their own. Of the server
only whether it is stopped, starting or serving counts here. Equal snapshots on their
way to the page are one.

*ShellAlerts, NativeShell.* The GTK thread is `doing` one thing (a timer's poll or a
click) at some point `at`; each of the two requests of a poll is a step, and the machine
may change before, between and after them. `proc` are the processes that were forked
(starting, serving, zombie, waited for), `pid` is `managedServerPid_`. A wait makes
at most `Probes` polls, the timeout over the interval.

*EndpointSelection, SelfCheck, ShareBundle.* Addresses are numbers (0 for none), names
the words the code looks for in them. The operators are the functions of the source, a
text reduced to which text is chosen. What the code sorts and filters is said by what comes
out (`InOrder`: every member at the place that the number of those before it gives; `Kept`),
which is the same list and, unlike how it is come by, can be reasoned about.

*NetworkHost.* `todo` is what is left of the handler the UI thread is in, cut at each probe
of the machine; `found` and `look` are what a refresh and a diagnosis have gathered so
far, `files` the bundle on the disk, `opened` a page of it in a browser, `page` the
snapshot of the admin page. A server that runs has the bind address it was started with,
which is not the window's (`win.bind`) once another one was entered: `Answers` and
`AnswersLocally` are what it does at an address of the machine and at 127.0.0.1. Whether a
viewer gets in (`ViewerGetsIn`) is said by them and by the firewall, by nothing the window
believes but the address that it gives to the viewers. `calm` in a look says whether the
machine stood still since the look began, `fresh` whether it did since the probes. `wanted`
is a history.

### Abstractions

Names, tokens and SDP texts are members of small sets; JSON, logging and wording
are left out. A handler of a destroyed object is undefined behaviour: in
`ServiceHost` it does nothing, so that what such a handler may do afterwards is
never relied on, and that it runs at all is what `HandlersUseLiveListener`
forbids. Connections that were open at a stop are served again after a restart (their
reads are still in `ops`), by sessions of the previous run.

The modules of the desktop meet where the code's parts do, but are checked one by one:
`DesktopHost` takes the address from nowhere, `AdminShell` the server as four states,
`NetworkHost` the server as what a probe sees of it. Each leaves the other's moves free,
so that what holds holds whatever the other part does within them.

## 3. The runs

Every property has a mutant in `PROJECT.json`: a plausible slip in the modelled
code that makes TLC find the property violated under the same configuration.
The operators marked "seeded fault" in the modules are these slips and are not
used by the specifications.

| Run | Bounds | Shows |
|---|---|---|
| `server_tabs` | 2 host pages at once, 2 viewers, limit 1, one client that sends 1 `session.end` after its first message or whose first one lacks the room or the token | every table entry belongs to a session that is read and will leave under exactly that name (`EntriesOwned`, with the types); a room has members, viewers have a host, and an idle server has forgotten the pages that are gone (`NothingLeftBehind`); what waits for a session enables one of its steps (`HandlersNeverBlock`); the interleaved handlers implement `RoomRegistry` (`KeepsRegistry`), the refusals of a full room included |
| `signaling_hosts` | 2 host pages in turn, 1 viewer page, limit 1, 1 message after the first | members are announced, evicted viewers are told, no notice comes before what it refers to (`NoticesInOrder`), ghosts vanish, members get offers |
| `outbox` | 5 messages, the connection may break | the inductive invariant of the proof (`Inv`: one write at a time, its buffer stays, nothing is stranded, order), and `FifoChannel` with its liveness |
| `host_share` | 3 commands, 2 streams, 1 peer | nothing else is captured, peers see the current screen, an old track stops nothing, commands are run |
| `host_bridge` | 3 clicks, 3 commands, 1 stream | requests always have a timeout, answers end their own request only, a queued stop stops, a stopped service captures nothing |
| `viewer_playback` | 5 events (offers, ends, interruptions, losses) | nothing of an ended session comes back, interrupted playback is retried, negotiation ends |
| `service_restart` | 2 workers, 2 connections, 2 starts, each of which may fail at every point | a running service is accepting and keeps its workers (`StaysReachable`), a stop joins them and returns |
| `desktop` | 2 ports, 2 names, 3 commands, statuses or crashes, 1 move of viewers or ports, 1 viewer | readers have their handles, one poll at a time, what is called copied or stopped is so, every call returns and the count converges (`AppSettles`) |
| `native_shell` | 2 samples, cooldown 1, 2 forks, 3 moves of machine, viewers or timeouts, 2 viewers, 2 polls a wait | no server is lost, a managed one can be stopped, shown changes are debounced, clicks return and the shell shows what is there |
| `admin_shell` | the dashboard and 1 page, 3 moves of users and machine | nothing outlives the window or shows late, retries load the page and start nothing, at rest page and window agree or a retry is offered |
| `network` | 3 adapters, 2 firewalls, 4 bind addresses, 2 probes, 2 moves, 2 commands | what a report says of the machine is so, and what works is called ready but for three cases (`ReportIsTrue`, with the types), the files of a bundle are of one snapshot with the window's address, admin page and open pages catch up |
| `signaling_tabs` | 3 host pages, no viewer | one room has one host: violated (section 6) |

*Why the bounds are enough to be interesting.* In `server_tabs` two viewers
come for one place: the room is full, refuses, empties and is filled again; no other run
refuses a viewer for want of space. Two hosts are enough for every late message of one to
meet the other; three host pages are what the eviction in `signaling_tabs` needs. Five
messages let a queue grow while a write is outstanding, drain, and grow again. Three
commands are a start, a change and a stop, in every order; two streams are an old and a
new one. Three clicks are a request that timed out, its successor and a stop. Two
workers and one leftover accept are enough for a handler of an old run to be taken by a
new worker. In `desktop` the app starts its server by itself, so three commands are a
stop, a start and a change between them, or a crash, a restart and a stop, with two
ports for a session that moves away from its server. In `native_shell` two samples
are the least that debounces, two forks a server and its successor, three moves a
crash, a foreign server and a viewer. `network` probes two candidates of three, so that the
window's address can be selected among them, be one of them without being the first, be
an older one, or be none, and every branch of the plan over the probes is taken; its
adapters are one on the LAN, the one of the hotspot, and a tunnel, which only the window
lists. Its bind addresses are 0.0.0.0, `*`, which only the window knows, the loopback
address and that of the LAN adapter; any other text is like an address the machine does
not have, which the last becomes when its adapter goes down.
`HostsOverlap = FALSE` (in `signaling_hosts`) excludes the eviction that `signaling_tabs`
reports, so that the hand-over between hosts is seen without it. In `server_tabs` host
pages overlap, and the registry allows for the eviction. `IdsCollide` is FALSE in all
runs; what survives two viewers drawing the same id is proved (section 4). A first request
without a room comes from no page of this repository, which does not connect then, but the
server answers it; other requests that a page never makes (a wrong token, the room of
another page) are outside the clients of the models. One client at most leaves the pattern
of one complete first request: each further message and each incomplete first request
counts in `sends`. The relayed messages (`webrtc.*`), which change nothing in the hub, are
sent in `signaling_hosts`.

`CHECK_DEADLOCK FALSE` stands where the program may really stop: all pages
closed, all commands given, the service stopped, a bound reached. `network` is
checked with it on.

### Fairness

- Server: weak fairness of each session's next posted call, of the delivery of what
  was posted, and of the failing read of a closed connection: strands run what is
  posted to them, and the io_context has workers (`StaysReachable`).
  There is none on what users or pages begin.
- Pages: weak fairness of delivering messages and of promises the page itself
  settles. The picker has none: the user may leave it open.
- Admin page: timers fire, posted messages arrive, the desktop host handles its
  messages and refreshes. The user owes nothing.
- Service: the caller goes on with a call it has begun and the operating system
  runs every thread. Nobody has to connect, to send or to call Stop; connections
  may stay open for ever.
- `DesktopHost`: the UI thread goes on with its action or takes its next message, the
  timer fires when the queue is empty, each reader reaches its next test, and a request
  of the poll thread is answered or times out (WinHTTP has timeouts). The child may
  resist termination, crash or live on; users, viewers and other programs owe nothing.
- `NativeShell`: only the GTK thread. A request that is taken and never answered is
  excluded (section 6).
- `AdminShell`: the timer, posted messages, the callbacks of the WebView, the loading of
  a page, the delivery of its messages, a server that was started comes to listen, and
  the 1200 ms between two navigations pass. A creation that never calls back is a
  case of its own (`stuck`), not an unfair delay.
- `NetworkHost`: a handler goes on to its end, a tick comes after it, and an open page
  polls. Machine and user owe nothing.

## 4. What is proved

For every value of the constants, under the named ASSUMEs of the modules (finite
id set, limits natural numbers, the "none" values outside their sets, at most as many
clicks as commands in `HostBridge`, where a click may become a command; in `WsSession` the
mark for "all viewers", which is a method of its own in the code, is no peer id, and there
is an id to draw, for each viewer where none is drawn twice):

- `SignalingProofs`, first part, for `HubSpec`, the hub under any order of calls:
  `HubTypeCorrect`, `HubCapacity`, `HubKeepsNoEmptyRoom`, `HubRoomsAreInhabited`,
  `HubReplacesNoLiveHost` and `HubAdmitsUnderLiveHost`. Capacity is inductive with the
  type: an insertion follows a prune in the same critical section and a test of what the
  prune left, all other operations only remove entries (`FewerEntries`, `OneMoreEntry`,
  `CapacityOfOthers`). The count includes expired entries, hence the prune matters.
- Second part, for `ServerSpec`, the sessions around the hub. That an entry is owned is
  not inductive alone: the invariant `ServerInv` (`ServerSafe`) adds that the first request of
  a session is read once and before the others (`InboxOK`), that the identity of a session
  fits its role and its room (`RolesOK`), that a session nobody opened is untouched and one
  that is freed was closed, and that what waits in `todo` names viewers. From it
  `ServerOwnsEntries` and `ServerKeepsNoEmptyRoom`; and `ServerNeverBlocks`, that what waits
  for a session meets the guards of one of its steps (requests have handlers by `InboxOK`,
  calls go to somebody by their type, and a viewer without identity finds an id because
  the others have drawn at most one each), with `ServerLeavesNothingBehind`. Each critical
  section of a handler is a step of `HubSpec` (`ServerUsesTheHub`), so what is proved of the
  hub holds of the server (`ServerKeepsHubPromises`). `ServerImplementsRegistry` proves the refinement of
  `RoomRegistry`, step by step (`HostEntersStep`, `ViewerEntersStep`, `HostLeavesStep`,
  `ViewerLeavesStep`, `RegistryPageStep`), with `IdsUnique`, `HostsApart` and `HostInPlace`.
  The steps are stated for `AnyStep`, clients that may do more than those of the
  specifications, so that the third part can use them.
- Third part, for `Spec`, the server with the pages: `SignalingSafe` and
  `SignalingImplementsRegistry` carry the above over. `SignalingInv` follows each notice on its
  way: the handler of a viewer announces only itself, while it lives (`JoinsOwned`); who is
  said to have left has left, and nothing after it says otherwise (`LeftGone`, `LeftLast`); a
  host hears only of viewers that were told their id (`JoinsKnown`) and answers only those
  (`OffersKnown`), so an offer stands behind the reply (`OfferAfterJoined`); and an entry is
  known to its host's page, on its way or still to be looked up (`EntriesAnnounced`). From it
  `MembersAreAnnounced`, `EvictedViewersAreTold` and `NoticesKeepTheirOrder`.
- The theorems that follow identities assume `~IdsCollide`: when two viewers draw one
  id the second replaces the first in the table and notices can no longer be told apart. The
  two refinements hold for hosts in turn and for hosts that overlap: `RoomRegistry` has the
  same constant, and only with it may a host page that was turned away take the host along
  (section 6); `HostsApart` and `HostInPlace` are what the proof needs where they do not.
  `ServerSafe`, `SignalingSafe` and what follows from them alone hold when ids collide, too.
- `HostBridgeProofs`: on the host page `NothingElseCaptured` and `PeersSeeScreen` are
  inductive together, as they stand, because what takes a screen away releases its track
  and re-attaches the senders in the same handler: `ShareCapturesNothingElse`,
  `SharePeersSeeScreen`, and from them the action property `ShareOldTrackStopsNothing`. With
  the admin page in front, `BridgeInv` (`BridgeSafe`) adds the channels, the pending and
  queued request with their timer, and that every command was a click of its own
  (`ClicksCover`, which bounds the commands without a guard). From it `BridgeWaitsWithTimeout`,
  `BridgeCapturesNothingElse` (the reload of the frame included) and the action property
  `BridgeAnswersOwnRequest`.
- `ViewerPlaybackProofs`: `PlaybackTypeOK` is inductive as it stands (`PlaybackSafe`): every
  path that drops the connection drops video, job and pending play with it.
- `AdminShellProofs`: `WindowSafe` is inductive as it stands (`WindowIsSafe`); the work is in
  the handlers, which are compositions of functions on the window. Each is classified by
  what it may do: touch the WebView only (`Aside`), start the server (`MayStart`), show a
  pending balloon (`Calms`), leave none pending that was not (`Keeps`). The plan that hides the
  window marks a balloon and shows it (`HidingCalms`), the plan of the end starts nothing
  again (`DestroyEnds`). `BackgroundIsQuiet` is the safety half of `RetriesLoadThePage`.
- `ServerProcessProofs`, for `OutboxSpec`: the inductive invariant `Inv` (`OutboxSafe`) says that there is at
  most one write, that it is outstanding exactly while `writing_` is set, that its
  buffer is the front of `outbox_`, and how sent, received, outbox and posted
  messages partition the messages in order. From it: `WritesAreSerialized`,
  `BufferOutlivesWrite`, `QueueIsServed`, and the safety part of the refinement,
  `OutboxImplementsChannel`: the initial state and each step map to `FifoChannel`.
  The run's `ImplementsChannel` adds the channel's liveness.
- `ServerProcessProofs`, for the service: the inductive invariant `ServiceInvariant` (`ServiceSafe`).
  That the service accepts is not inductive: one also needs that no operation left in
  the io_context belongs to the run about to begin (`RunsBegun`), that no accept of
  the run that is up was aborted (`NotAborted`), that this run's io_context is not
  stopped, and in which phases of the caller threads may exist (`ThreadPhases`).
  Exit of a worker is then impossible because `Accepting` contradicts
  `NothingLeft`. From it: `ServiceTypeCorrect`, `ServiceIsReachable`,
  `ServiceStopJoins` (the Stop of a running service), and, where the creation of a
  thread cannot fail, `ServiceJoinsThreads` (every Stop, the one in the catch of Start
  included).
- `NativeShellProofs`: the invariant `ShellInvariant` (`ShellSafe`) ties the managed pid
  to the processes (it names one that was forked and not waited for, and there is no
  other), the menu of an idle thread to the last sample and the pid, and the pending
  values to the last sample (`MemorySeen`). From it `ShellLosesNoServer` and
  `ShellOffersStop`. `ShellDebounces` needs two samples or more: then a stable value
  changes only when the sample before it was already its pending one (`DebouncedTick`).
  With one sample the statement is false; the code's default, which the run takes, is two.
- `DesktopHostProofs`: the invariant `DesktopInvariant` (`DesktopSafe`) joins the
  controller's (readers, handles and the point a call has reached), the action the UI
  thread is in with the call it makes, the session with its copied link, the page state
  with the server, the posted messages with the poll thread and flag, and the bounds. Each
  part is disturbed by few steps; the controller's part knows nothing of the window, as in
  the code. From it: `DesktopReadersSafe` (a joined reader is done before its handles are
  closed, through every order of child, reader and call), `DesktopShowsWhatIsSo` and
  `DesktopPollsOnce`.
- `NetworkHostProofs`: `ArtifactsAgree` speaks of the idle window only; between the steps of
  a handler files, page and address differ. The invariant `ArtifactsInv` says that what is
  wrong is still to be made good by the handler that is running: the files agree with each
  other and have the window's address, or a write is ahead; the page has it, or a
  publication is ahead; and a handler that takes an address of its own choosing has both
  after that step (`HotspotIsFollowed`). The lemmas before the steps show that the handlers,
  as they are put together from others, are of this form. From it `ArtifactsAlwaysAgree`,
  for any ranking of the addresses.
- `NetworkHostProofs` on the rankings: the members of a finite set under a strict order have
  the ranks 0, 1, 2, ... by how many precede them (`RankInRange`, `RankGrows`, `RanksTaken`),
  so the list of them exists, has each once and is sorted (`RankedIsSorted`). This gives, for
  any adapters, `CandidatesAreRanked` (the window's list has every address it should, each
  once, the better first, and recommends the first only) and `ServiceChoosesTheBest` (the
  service takes an adapter that none outscores, ties included).
- `NetworkHostProofs` on the report: what a report says is not inductive, since it is made
  of a look taken some steps before. The invariant `ReportInv` orders what is left of a
  handler (`Ordered`: the probes of a diagnosis come right after its beginning, what takes over a
  diagnosis right after the probes), and says what a look is worth between them
  (`LookTells`): if it is `calm`, what it knew before the probes is so (`BegunTrue`), and if
  it is `fresh`, what the probes found is so, as far as the window had reason to ask
  (`ProbesTrue`). The handlers keep that order however they are put together (`Piece`,
  `PiecesJoin`). What is concluded from such a look is then a matter of the operators:
  `ReadyIsTrue`, `HandoffIsTrue` and `SuggestionIsTrue` need the probes only, whatever the
  machine did before them and whatever bind address the window has; `InIsReady` and
  `OverallIsTrue` need the beginning too. From these `ReportAlwaysTrue`, with the types of
  the module (`TypesFollow`).

Only model-checked: all liveness (`GhostsVanish`, `MembersGetOffers`, `CommandsAreRun`,
`QueuedStopStops`, `StoppedCapturesNothing`, `InterruptedIsRetried`, `NegotiationEnds`,
`StopReturns`, `AppSettles`, `ShellSettles`, `PageComesUp` in `RetriesLoadThePage`,
`WindowConverges`, `PageCatchesUp`, `OpenPageCatchesUp`, the liveness of `ImplementsChannel`), since
temporal reasoning with fairness is beyond the prover; and `HandlersNeverBlock`, which speaks
of ENABLED. `Ready`, in the theorem beside it, writes the guards out; since what is `Ready` is
`Busy`, TLC, which finds every busy session enabled, also finds that a ready one can step. That
`OneHostPerRoom` fails (section 6) leaves nothing to prove. No module declares a RECURSIVE
operator, and there is no induction: lists that are sorted or filtered are described by the
ranks of their members, and the cardinality theorems of the library do the rest.

## 5. What is not modelled, and why

- HTTP request handling and static files: no state beyond a request.
- WebRTC itself (ICE, media): a browser component; modelled from how the pages use
  it, as offers, answers and connection events.
- The data race on the acceptor when a worker looks at it while Stop closes it: what it
  does inside the library is not defined by this code. The same holds for the detached
  poll thread, which may use a window that has been destroyed: in `DesktopHost` its
  answer then reaches nobody.
- Of `MainWindow.cpp`: the native pages behind the admin page (never shown while
  `PreferHtmlAdminUi` is TRUE), the QuickFix and wizard commands, `RunNetworkDiagnostics`
  and `ExportRemoteProbeGuide`, which only open programs or write texts;
  `ApplyAdminShellHotspotRequest` and `AutoHotspot`, the hotspot's name and password; the
  first of the two diagnoses of `RefreshShareInfo`, whose result goes to a hidden text box.
- The guided preparation and the rendering of the admin page; installation, full screen
  and wake lock of the pages.
- The macOS shell (the same controller, poller and loop as the Linux one) and the Windows
  branches of the native shell's controller.
- The other presenters, localisation, the wrappers that open paths or settings pages,
  packaging: stateless formatting or thin calls to the system.

## 6. Disagreements and limits of the code

One run expects a violation of what a document says; `PROJECT.json` quotes the line.

1. `signaling_tabs`, `OneHostPerRoom`: a second host page that is refused takes the
   registered host and all viewers out of the room when it disconnects
   (HANDLERS:66).

More properties stand in the modules and are refuted as well, when the named
configuration checks them in place of its own properties:

2. `StopStopsService` (`MCHostBridge.cfg`): Stop while the screen is being chosen is
   dropped (`app.js:1648`, against
   `docs/desktop_host/GUIDED_ONBOARDING_FLOW_SPEC.md:297-301`).
3. `HandlersUseLiveListener` (`MCServiceRestart.cfg`): after a restart an accept handler
   of the previous run uses the destroyed Listener (`listener.cpp:36`,
   `service_host.cpp:38`).
4. `EndStateIsExplicit` (`MCSignalingHosts.cfg`): the end of a session overtakes the
   reply to a join, and the viewer page leaves its end state again (HANDLERS:99,
   against `docs/PROGRESS_WIP.md:21`).
5. `CleanupShowsEnd` (`MCViewerPlayback.cfg`): a pending `video.play()` that is
   settled by the cleanup overwrites "ended" (`app_viewer.js:194`, against the
   same line).
6. `PickerNeedsRegistration` (`MCHostShare.cfg`): a picker cancelled after the socket
   has closed makes the page "ready", and the next command opens the picker
   (`app_host.js:517`, against `app_host.js:505`).
7. `StopJoinsThreads` (`MCServiceRestart.cfg`): a Start that fails after its first
   thread leaves that thread, because the Stop in its catch returns at once
   (`service_host.cpp:72`, against `service_host.h:33`).
8. `ChosenIsSelected` (`MCNetworkHost.cfg`): choosing another adapter does nothing,
   because `m_networkCandidateIps` is filled only for the native page
   (`MainWindow.cpp:2248`, 2050; `GUIDED_ONBOARDING_FLOW_SPEC.md:21` offers the manual
   choice).
9. `AdvisedBindIsReady` (`MCNetworkHost.cfg`): /health is asked at 127.0.0.1 only
   (`MainWindow.cpp:614`) and no address is probed without that answer (630-634). A server
   that runs with the selected LAN address as its bind address does not answer there, so
   the path is called not ready although a viewer gets in. That bind is what the program
   advises (`network_diagnostics_policy.cpp:61`, `share_artifact_service.cpp:815`).

No text of the repository promises the contrary of the following, so no property states
it; the models have each of them, unless it says otherwise, and the properties above
are worded so that they hold with them.

- *Desktop host.* The delivered flag and its notice survive a stop
  (`runtime_controller.cpp:52`); a status of the page that was on its way overwrites
  "stopped" (only until the next stop; a start sets it anew); a poll result of the old
  run is applied to the new one, until the next poll. While the server runs the session may
  be moved to another port: links and polls then use a port nobody serves. The address in
  a copied link is not part of the session and may be old. After a crash of the app its
  server is found by the port of the session only, so one on another port stays for ever.
  The reader tests for output before it tests for the exit and may lose the last lines
  (`ServerController.cpp:417`). Restoring the window starts a server that was stopped.
- *Native shell.* With a cooldown of one tick or more only the first notification of a
  tick is shown (`native_shell_alert_coordinator.cpp:25`). `stopRequested` is never set, so
  a stop by the user is notified like a crash. "Running and healthy" may be
  another server on the port. `StartServer` refuses while a dead child is managed. `HttpGet`
  bounds none of its synchronous calls (`native_shell_live_poller.cpp:74`): a peer that
  accepts and never answers blocks the shell (excluded from the model).
- *Admin shell.* A page reloaded by the user while the server is down shows an error, and
  since the window still holds it ready it is not retried (`MainWindow.cpp:1681`; the
  liveness property therefore asks for pages that have not said they are ready). A start
  from the tray does not clear an earlier startup error. A creation of the WebView that
  fails before its first callback reads "initializing" for ever (`WebViewHost.cpp:158`),
  and there is no handler for a WebView process that dies. A URL that waited for a failed
  WebView is forgotten. An icon that could not be added is not tried again until the
  taskbar asks for it.
- *Network and bundle.* The service and the window rank addresses by different rules and
  may differ for good, which the report calls a mismatch of the selected adapter.
  A path that works is called not ready in three cases (`Overlooked`): the bind field says
  loopback while the server still runs with 0.0.0.0; the server has an address of its own;
  another address is first of several. The properties allow them and nothing else. The port
  is one value, that a change of it while the server runs is not taken over is in
  `DesktopHost` only. The probes of one look are one step, and whether the firewall lets a
  viewer through is the code's own test of it, taken now: there is nothing else in the
  repository that it could be compared with. First actions of one severity and category
  keep their order, the code sorts them by title.
  Not in the models either: rules of the firewall that block, and localized output of `netsh`
  and the firewall's tools. A rule for any port counts whatever program it is for
  (`firewall_diagnostics_win.cpp:67-92`). The address stays after the hotspot was stopped
  until the next refresh. A server that crashed is reported without the hint that one
  gets that was stopped (`share_artifact_service.cpp:30`). "Ready" does not ask for the
  path of the viewers. Failures of the optional files are not reported. Mode and
  address of a refresh may be of two different looks, and so may the halves of a
  snapshot of the admin page.

## 7. Plan

Done, in this order: the hub, the sessions, the signaling of the pages, the send
path, the proofs of hub and send path; the host page's capture; the admin page's
bridge; the viewer's playback; the service and its proofs; the server process, the
session and the desktop window with their proofs; the native shell with its proofs; the
admin shell; endpoint selection, self-check, share bundle and the window's network.

Then the proofs of sessions, signaling and registry, of the host page, the admin page's
bridge, the viewer's playback, the admin shell and the window's share bundle.

Then the rankings of addresses, the truth of the report, and that no handler of the
server blocks.

Next, theorems: what `EndStateIsExplicit` and the other refuted properties need to hold.

Next, models: the composition of `DesktopHost` with `AdminShell` (one server, one
queue of the window); the guided preparation of the admin page.

## 8. Running

In this directory: `tlc -workers 2 -config MCNativeShell.cfg NativeShell` (configuration
and module of each run are in `PROJECT.json`), `tlapm SignalingProofs.tla` (the longest proof, about seven minutes). The longest runs
are `server_tabs`, `signaling_hosts`, `network` and `desktop`, two to four minutes each on
two cores; the others take seconds to a minute and a half.
