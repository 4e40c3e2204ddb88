----------------------------- MODULE HostBridge -----------------------------
(***************************************************************************)
(* The admin page and the host page it embeds in a frame                   *)
(* (src/desktop_host/webui/app.js, hostBridge).  A click becomes one       *)
(* request to the host page, kept in pending until the page answers or a   *)
(* timer gives it up; the page of HostShare runs it when it comes to it.   *)
(* The desktop host starts and stops the service and sends snapshots; the  *)
(* frame shows the host page while the last snapshot says that the service *)
(* runs.                                                                   *)
(***************************************************************************)
EXTENDS HostShare

CONSTANTS
  MaxClicks,        \* bound on the clicks of the user
  FrameReachesHost  \* do the status messages of a page in a frame reach the desktop host?

\* every click may become a command of the page
ASSUME MaxClicksAssumption == MaxClicks \in 0..MaxCommands
ASSUME FrameReachesHostAssumption == FrameReachesHost \in BOOLEAN

VARIABLES
  service,     \* does the service run?
  native,      \* the desktop host's idea of the page: m_hostPageState, m_captureState
  toDesktop,   \* commands sent to the desktop host
  snapshots,   \* snapshots sent to the admin page
  seen,        \* the admin page's state: serverRunning, hostState, captureState
  frame,       \* "blank", "loading", "loaded" (previewLoaded)
  bridgeReady, \* hostBridge.ready
  pending,     \* hostBridge.pendingCommand
  inFlight,    \* hostBridge.inFlightRequestId, 0 when empty
  timer,       \* the request the armed timeout is for, 0 when none is armed
  toPage,      \* requests posted to the frame
  clicks,      \* how often the user has clicked
  stopAsked    \* the user's last click was Stop, and the service still runs (history)

adminVars  == <<seen, frame, bridgeReady, pending, inFlight, timer, toPage>>
bridgeVars == <<service, native, toDesktop, snapshots, adminVars, clicks, stopAsked>>
vars       == <<shareVars, bridgeVars>>
pageVars   == <<socket, registered, state, captureState, captureVars, peerVars, commandVars>>

NoRequest == [kind |-> "none", id |-> 0, stopAfter |-> FALSE]
Request(kind, stopAfter) == [kind |-> kind, id |-> clicks + 1, stopAfter |-> stopAfter]
Snapshot(running, page) == [running |-> running, page |-> page]
Page(host, capture) == [host |-> host, capture |-> capture]

Busy == pending # NoRequest \/ inFlight # 0
Sharing == seen.page.capture = "active" \/ seen.page.host = "sharing"
Selecting == seen.page.capture = "selecting" \/ seen.page.host = "starting_share"

----------------------------------------------------------------------------
(* Requests to the host page *)

SendStop(stopAfter) ==
  toDesktop' = IF stopAfter THEN Append(toDesktop, "stop-server") ELSE toDesktop

\* tryFlushHostBridgeCommand, after the frame or hostBridge.ready may have
\* changed: the request goes out, once, and gets a new timeout.
MayFlushEarly(request) ==              \* seeded fault: into a frame still loading
  bridgeReady' /\ request # NoRequest /\ inFlight = 0
MayFlush(request) == frame' = "loaded" /\ bridgeReady' /\ request # NoRequest /\ inFlight = 0
Flush(request) ==
  IF MayFlush(request)
  THEN /\ inFlight' = request.id /\ timer' = request.id
       /\ toPage' = Append(toPage, Command(request.kind, request.id))
  ELSE UNCHANGED <<inFlight, timer, toPage>>

\* queueHostBridgeCommand: while one is under way the new one is dropped.
QueueRequest(request) ==
  IF Busy THEN UNCHANGED adminVars
  ELSE /\ pending' = request
       /\ UNCHANGED <<seen, frame, bridgeReady>>
       /\ IF MayFlush(request) THEN Flush(request)
          ELSE timer' = request.id /\ UNCHANGED <<inFlight, toPage>>

\* handleQueuedHostBridgeTimeout, handleHostBridgeTimeout.
TimeoutForgetsStop ==                  \* seeded fault: the service is left running
  /\ timer # 0 /\ timer' = 0
  /\ inFlight' = 0 /\ pending' = NoRequest
  /\ UNCHANGED <<shareVars, service, native, toDesktop, snapshots, seen, frame, bridgeReady,
                 toPage, clicks, stopAsked>>

Timeout ==
  /\ timer # 0 /\ timer' = 0
  /\ inFlight' = 0 /\ pending' = NoRequest
  /\ SendStop(pending.stopAfter)
  /\ UNCHANGED <<shareVars, service, native, snapshots, seen, frame, bridgeReady, toPage,
                 clicks, stopAsked>>

MatchesAny(id) == pending # NoRequest  \* seeded fault: any answer will do
Matches(id) == pending # NoRequest /\ pending.id = id

\* finalizeHostBridgeRequest
FinalizeKeepsTimer(id) ==              \* seeded fault: the timeout is not cleared
  /\ pending' = NoRequest
  /\ inFlight' = IF inFlight = id THEN 0 ELSE inFlight
  /\ UNCHANGED timer
Finalize(id) ==
  /\ pending' = NoRequest
  /\ inFlight' = IF inFlight = id THEN 0 ELSE inFlight
  /\ timer' = 0

----------------------------------------------------------------------------
(* What the admin page receives *)

\* A new document in the frame: the old one and what it captured are gone, the
\* messages it had posted are not.
Reload ==
  /\ socket' = "connecting" /\ registered' = FALSE /\ state' = "idle" /\ captureState' = "idle"
  /\ screen' = NoStream /\ endings' = {}
  /\ track' = [s \in Streams |-> IF track[s] = "unused" THEN "unused" ELSE "released"]
  /\ peers' = {} /\ sender' = [p \in Peers |-> NoStream] /\ UNCHANGED known
  /\ queue' = <<>> /\ job' = NoJob /\ UNCHANGED given

\* updateHostPreview
KeepFrame(running) ==                  \* seeded fault: the frame keeps its page
  IF running /\ frame = "blank"
  THEN frame' = "loading" /\ bridgeReady' = FALSE /\ Reload
  ELSE UNCHANGED <<frame, bridgeReady, pageVars>>

UpdateHostPreview(running) ==
  IF running = (frame # "blank") THEN UNCHANGED <<frame, bridgeReady, pageVars>>
  ELSE /\ frame' = IF running THEN "loading" ELSE "blank"
       /\ bridgeReady' = FALSE
       /\ Reload

\* render: the whole snapshot replaces what the admin page knew.
ReceiveSnapshot ==
  /\ snapshots # <<>> /\ snapshots' = Tail(snapshots)
  /\ seen' = Head(snapshots)
  /\ UpdateHostPreview(Head(snapshots).running)
  /\ IF frame' # frame THEN UNCHANGED <<inFlight, timer>> /\ toPage' = <<>> ELSE Flush(pending)
  /\ UNCHANGED <<toShell, service, native, toDesktop, pending, clicks, stopAsked>>

FrameLoads ==
  /\ frame = "loading" /\ frame' = "loaded"
  /\ UNCHANGED bridgeReady
  /\ Flush(pending)
  /\ UNCHANGED <<shareVars, service, native, toDesktop, snapshots, seen, pending, clicks, stopAsked>>

ReceiveStatus(m) ==
  /\ m.kind = "status"
  /\ bridgeReady' = TRUE /\ UNCHANGED frame
  /\ Flush(pending)
  /\ UNCHANGED <<toDesktop, pending>>

ReceiveResult(m) ==
  /\ m.kind = "result"
  /\ IF Matches(m.id)
     THEN Finalize(m.id) /\ SendStop(pending.stopAfter)
     ELSE UNCHANGED <<pending, inFlight, timer, toDesktop>>
  /\ UNCHANGED <<frame, bridgeReady, toPage>>

ReceiveFromPage ==
  /\ toShell # <<>> /\ toShell' = Tail(toShell)
  /\ LET m == Head(toShell) IN
       /\ seen' = [seen EXCEPT !.page = Page(m.state, m.capture)]
       /\ native' = IF FrameReachesHost /\ m.kind = "status" THEN Page(m.state, m.capture) ELSE native
       /\ ReceiveStatus(m) \/ ReceiveResult(m)
  /\ UNCHANGED <<pageVars, service, snapshots, clicks, stopAsked>>

----------------------------------------------------------------------------
(* The user *)

Click == clicks < MaxClicks /\ clicks' = clicks + 1

\* startGuidedShareCommand, when the button is enabled.
ClickStart(kind) ==
  /\ Click
  /\ ~Busy /\ ~Selecting /\ (kind = "start-share" => ~Sharing)
  /\ toDesktop' = IF seen.running THEN toDesktop ELSE Append(toDesktop, "start-server")
  /\ QueueRequest(Request(kind, FALSE))
  /\ stopAsked' = FALSE
  /\ UNCHANGED <<shareVars, service, native, snapshots>>

\* stopGuidedShareCommand: enabled while the user is choosing, busy or not.
ClickStop ==
  /\ Click
  /\ ~Busy \/ Selecting
  /\ seen.running \/ Sharing \/ Selecting
  /\ IF Sharing \/ Selecting
     THEN QueueRequest(Request("stop-share", TRUE)) /\ UNCHANGED toDesktop
     ELSE SendStop(TRUE) /\ UNCHANGED adminVars
  /\ stopAsked' = service
  /\ UNCHANGED <<shareVars, service, native, snapshots>>

----------------------------------------------------------------------------
(* The desktop host and the host page *)

Publish == snapshots' = Append(snapshots, Snapshot(service', native'))

\* PerformStartServerAction, PerformStopServerAction; a snapshot follows.
Started ==
  \/ ~service /\ service' = TRUE /\ native' = Page("loading", "idle")
  \/ UNCHANGED <<service, native>>
Stopped ==
  /\ service' = FALSE
  /\ native' = IF service THEN Page("stopped", "idle") ELSE native

DesktopRuns ==
  /\ toDesktop # <<>> /\ toDesktop' = Tail(toDesktop)
  /\ IF Head(toDesktop) = "start-server" THEN Started ELSE Stopped
  /\ Publish
  /\ stopAsked' = (stopAsked /\ service')
  /\ UNCHANGED <<shareVars, adminVars, clicks>>

\* The periodic refresh.
DesktopRefreshes ==
  /\ snapshots = <<>> /\ seen # Snapshot(service, native)
  /\ UNCHANGED <<shareVars, service, native, toDesktop, adminVars, clicks, stopAsked>>
  /\ Publish

PageReceives ==
  /\ toPage # <<>> /\ toPage' = Tail(toPage)
  /\ Enqueue(Head(toPage))
  /\ UNCHANGED <<service, native, toDesktop, snapshots, seen, frame, bridgeReady, pending,
                 inFlight, timer, clicks, stopAsked>>

\* The page lives in the frame; its socket is open while the service runs.
PageRuns ==
  /\ frame # "blank"
  /\ \/ service /\ (Opens \/ Registers \/ Refused)
     \/ ~service /\ Closes
     \/ TrackStep \/ CommandStep
  /\ UNCHANGED bridgeVars

UserActs == frame # "blank" /\ UserStep /\ UNCHANGED bridgeVars

Init ==
  /\ ShareInit
  /\ service = FALSE /\ native = Page("stopped", "idle")
  /\ toDesktop = <<>> /\ snapshots = <<>>
  /\ seen = Snapshot(FALSE, Page("stopped", "idle"))
  /\ frame = "blank" /\ bridgeReady = FALSE
  /\ pending = NoRequest /\ inFlight = 0 /\ timer = 0 /\ toPage = <<>>
  /\ clicks = 0 /\ stopAsked = FALSE

AdminStep == ReceiveSnapshot \/ FrameLoads \/ ReceiveFromPage
DesktopStep == DesktopRuns \/ DesktopRefreshes
Next ==
  \/ AdminStep \/ Timeout \/ DesktopStep \/ PageReceives \/ PageRuns \/ UserActs
  \/ ClickStop \/ \E kind \in {"start-share", "choose-share"} : ClickStart(kind)

\* Messages arrive, timers fire, the desktop host polls.  The user owes nothing.
Spec ==
  /\ Init /\ [][Next]_vars
  /\ WF_vars(ReceiveSnapshot) /\ WF_vars(FrameLoads) /\ WF_vars(ReceiveFromPage)
  /\ WF_vars(Timeout) /\ WF_vars(DesktopRuns) /\ WF_vars(DesktopRefreshes)
  /\ WF_vars(PageReceives) /\ WF_vars(PageRuns)

----------------------------------------------------------------------------
Requests == [kind : Kinds, id : 1..MaxClicks, stopAfter : BOOLEAN] \cup {NoRequest}

\* What was posted to the frame was posted to a loaded page (app.js:1600-1645).
BridgeTypeOK ==
  /\ ShareTypeOK
  /\ service \in BOOLEAN /\ bridgeReady \in BOOLEAN /\ stopAsked \in BOOLEAN
  /\ toDesktop \in Seq({"start-server", "stop-server"})
  /\ frame \in {"blank", "loading", "loaded"}
  /\ pending \in Requests /\ inFlight \in 0..MaxClicks /\ timer \in 0..MaxClicks
  /\ toPage \in Seq(Commands) /\ clicks \in 0..MaxClicks
  /\ toPage # <<>> => frame = "loaded"

\* The admin page never waits for an answer without a timeout of its own for
\* exactly that request: the one handle serves two kinds of timeout and every
\* path that ends a request clears it (app.js:1518-1523, 1537-1545, 1631-1636).
WaitsWithTimeout ==
  /\ BridgeTypeOK
  /\ pending # NoRequest <=> timer # 0
  /\ pending # NoRequest => timer = pending.id
  /\ inFlight # 0 => inFlight = pending.id

\* A late answer ends no request but its own: when the picker was open longer
\* than the timeout, the answer comes while another request is pending
\* (app.js:1533-1535, 2889-2891).
AnswersOwnRequest ==
  [][pending # NoRequest /\ pending' = NoRequest /\ timer # 0 /\ toShell' # toShell
       => Head(toShell).kind = "result" /\ Head(toShell).id = pending.id]_vars

\* A stop that was queued stops the service, whether the host page answers, is
\* suspended in its picker, reloads or is dead (app.js:1570-1576, 1590-1596,
\* 2904-2914).
QueuedStopStops == pending.stopAfter ~> ~service \/ ~stopAsked

\* A service that stays stopped leaves nothing captured in the frame: the host
\* page has no way to stop itself (app.js:1463-1469).
StoppedCapturesNothing ==
  ~service ~> service \/ \A s \in Streams : track[s] # "live"

\* "结束本次共享 ... 停止服务": Stop ends this share and stops the service
\* (docs/desktop_host/GUIDED_ONBOARDING_FLOW_SPEC.md:297-301).
StopStopsService == stopAsked ~> ~stopAsked
=============================================================================
