-------------------------- MODULE HostBridgeProofs --------------------------
(***************************************************************************)
(* Proofs about the host page by itself (HostShare) and in the frame of    *)
(* the admin page (HostBridge), for any streams, peers and bounds.         *)
(***************************************************************************)
EXTENDS HostBridge, TLAPS

(***************************************************************************)
(* The captured screen.  The two invariants of the host page hold together *)
(* and are inductive as they stand: whatever takes screen away releases    *)
(* its track and closes or re-attaches the senders in the same step.       *)
(***************************************************************************)
ShareInv == NothingElseCaptured /\ PeersSeeScreen

\* The parts of the type that the captured screen does not touch.
CommandTypeOK ==
  /\ queue \in Seq(Commands) /\ given \in 0..MaxCommands
  /\ job \in {NoJob} \cup [command : Commands, step : {"waiting", "picking", "waking"}, had : BOOLEAN]

SocketTypeOK ==
  /\ socket \in {"connecting", "open", "answered", "closed"} /\ registered \in BOOLEAN
  /\ state \in {"idle", "registering", "ready", "starting_share", "sharing", "closed", "error"}
  /\ captureState \in {"idle", "selecting", "active"}

CaptureOK ==
  /\ screen \in Streams \cup {NoStream}
  /\ track \in [Streams -> {"unused", "live", "ended", "released"}]
  /\ endings \subseteq Streams
  /\ \A s \in Streams : track[s] \in {"live", "ended"} => s = screen

PeersOK ==
  /\ peers \subseteq known /\ known \subseteq Peers
  /\ sender \in [Peers -> Streams \cup {NoStream}]
  /\ \A p \in Peers \ peers : sender[p] = NoStream
  /\ \A p \in peers : sender[p] = screen

LEMMA ShareInvParts ==
  ShareInv <=> CommandTypeOK /\ SocketTypeOK /\ CaptureOK /\ PeersOK
  BY DEF ShareInv, NothingElseCaptured, PeersSeeScreen, ShareTypeOK, CommandTypeOK,
         SocketTypeOK, CaptureOK, PeersOK

LEMMA ShareInvPartsNext ==
  ShareInv' <=> CommandTypeOK' /\ SocketTypeOK' /\ CaptureOK' /\ PeersOK'
  BY ShareInvParts, PTL

\* A suspended command is one of the commands.
LEMMA SuspendedJob ==
  ASSUME CommandTypeOK, job.step \in {"waiting", "picking", "waking"}
  PROVE  job \in [command : Commands, step : {"waiting", "picking", "waking"}, had : BOOLEAN]
  BY DEF CommandTypeOK, NoJob

LEMMA NextInQueue ==
  ASSUME CommandTypeOK, queue # <<>>
  PROVE  Head(queue) \in Commands /\ Tail(queue) \in Seq(Commands)
  BY DEF CommandTypeOK

\* What stopShare leaves behind: nothing captured, nobody connected.
LEMMA StopShareSafe ==
  ASSUME CaptureOK, PeersOK, SocketTypeOK, StopShare, UNCHANGED <<socket, registered, known>>,
         endings' \subseteq endings
  PROVE  CaptureOK' /\ PeersOK' /\ SocketTypeOK'
  BY NoStreamAssumption DEF CaptureOK, PeersOK, SocketTypeOK, StopShare, Release

\* What a pick leaves behind: the new stream is the screen, the old one is released.
LEMMA ApplySafe ==
  ASSUME CaptureOK, PeersOK, NEW s \in Streams, ApplyCaptureStream(s),
         UNCHANGED <<peers, known, endings>>
  PROVE  CaptureOK' /\ PeersOK'
<1>1. Release(screen) \in [Streams -> {"unused", "live", "ended", "released"}]
  BY DEF CaptureOK, Release
<1>2. \A t \in Streams : Release(screen)[t] \notin {"live", "ended"}
  BY NoStreamAssumption DEF CaptureOK, Release
<1>3. CaptureOK'
  BY <1>1, <1>2 DEF CaptureOK, ApplyCaptureStream
<1>4. PeersOK'
  BY DEF PeersOK, ApplyCaptureStream, Attach
<1> QED BY <1>3, <1>4

LEMMA OpenPickerSafe ==
  ASSUME SocketTypeOK, NEW c \in Commands, OpenPicker(c), UNCHANGED <<socket, registered>>
  PROVE  /\ SocketTypeOK'
         /\ job' \in [command : Commands, step : {"waiting", "picking", "waking"}, had : BOOLEAN]
  BY DEF SocketTypeOK, OpenPicker, Job

----------------------------------------------------------------------------
LEMMA ShareInitSafe == PageInit /\ given = 0 => ShareInv
<1> SUFFICES ASSUME PageInit, given = 0 PROVE ShareInv
  OBVIOUS
<1>1. CommandTypeOK
  BY MaxCommandsAssumption DEF PageInit, CommandTypeOK
<1>2. SocketTypeOK /\ CaptureOK /\ PeersOK
  BY DEF PageInit, SocketTypeOK, CaptureOK, PeersOK
<1> QED BY <1>1, <1>2, ShareInvParts

LEMMA CommandStepSafe == ShareInv /\ CommandStep => ShareInv'
<1> SUFFICES ASSUME CommandTypeOK, SocketTypeOK, CaptureOK, PeersOK, CommandStep
             PROVE  CommandTypeOK' /\ SocketTypeOK' /\ CaptureOK' /\ PeersOK'
  BY ShareInvParts, ShareInvPartsNext
<1>1. CASE NextCommand
  <2> DEFINE c == Head(queue)
  <2>1. c \in Commands /\ queue' \in Seq(Commands) /\ given' \in 0..MaxCommands
    BY <1>1, NextInQueue DEF NextCommand, CommandTypeOK
  <2>2. CASE c.kind = "stop-share" /\ StopShare /\ UNCHANGED <<endings, known, job>>
    <3>1. CaptureOK' /\ PeersOK' /\ SocketTypeOK'
      BY <1>1, <2>2, StopShareSafe DEF NextCommand
    <3> QED BY <2>1, <2>2, <3>1 DEF CommandTypeOK
  <2>3. CASE UNCHANGED <<state, captureState, captureVars, peerVars, job>>
    BY <1>1, <2>1, <2>3 DEF NextCommand, CommandTypeOK, SocketTypeOK, CaptureOK, PeersOK,
                            captureVars, peerVars
  <2>4. CASE OpenPicker(c) /\ UNCHANGED <<captureVars, peerVars>>
    <3>1. SocketTypeOK' /\ CommandTypeOK'
      BY <1>1, <2>1, <2>4, OpenPickerSafe DEF NextCommand, CommandTypeOK
    <3> QED BY <2>4, <3>1 DEF CaptureOK, PeersOK, captureVars, peerVars
  <2>5. CASE job' = Job(c, "waiting", FALSE) /\ UNCHANGED <<state, captureState, captureVars, peerVars>>
    <3>1. CommandTypeOK'
      BY <2>1, <2>5 DEF CommandTypeOK, Job
    <3> QED BY <1>1, <2>5, <3>1 DEF NextCommand, SocketTypeOK, CaptureOK, PeersOK, captureVars, peerVars
  <2> QED BY <1>1, <2>2, <2>3, <2>4, <2>5 DEF NextCommand
<1>2. CASE BecomesReady
  <2>1. job.command \in Commands
    BY <1>2, SuspendedJob DEF BecomesReady
  <2>2. SocketTypeOK' /\ CommandTypeOK'
    BY <1>2, <2>1, OpenPickerSafe DEF BecomesReady, CommandTypeOK
  <2> QED BY <1>2, <2>2 DEF BecomesReady, CaptureOK, PeersOK, captureVars, peerVars
<1>3. CASE NotReady \/ Wakes
  BY <1>3 DEF NotReady, Wakes, CommandTypeOK, SocketTypeOK, CaptureOK, PeersOK, captureVars, peerVars
<1> QED BY <1>1, <1>2, <1>3 DEF CommandStep

LEMMA SocketStepSafe == ShareInv /\ SocketStep => ShareInv'
<1> SUFFICES ASSUME CommandTypeOK, SocketTypeOK, CaptureOK, PeersOK, SocketStep
             PROVE  CommandTypeOK' /\ SocketTypeOK' /\ CaptureOK' /\ PeersOK'
  BY ShareInvParts, ShareInvPartsNext
<1> QED BY DEF SocketStep, Opens, Registers, Refused, Closes, CommandTypeOK, SocketTypeOK,
               CaptureOK, PeersOK, captureVars, peerVars, commandVars

LEMMA TrackStepSafe == ShareInv /\ TrackStep => ShareInv'
<1> SUFFICES ASSUME CommandTypeOK, SocketTypeOK, CaptureOK, PeersOK, NEW s \in Streams, OnEnded(s)
             PROVE  CommandTypeOK' /\ SocketTypeOK' /\ CaptureOK' /\ PeersOK'
  BY ShareInvParts, ShareInvPartsNext DEF TrackStep
<1>1. CommandTypeOK'
  BY DEF OnEnded, CommandTypeOK, commandVars
<1>2. CASE StopShare
  BY <1>1, <1>2, StopShareSafe DEF OnEnded
<1>3. CASE UNCHANGED <<state, captureState, screen, track, peers, sender>>
  BY <1>1, <1>3 DEF OnEnded, SocketTypeOK, CaptureOK, PeersOK
<1> QED BY <1>2, <1>3 DEF OnEnded

LEMMA UserStepSafe == ShareInv /\ UserStep => ShareInv'
<1> SUFFICES ASSUME CommandTypeOK, SocketTypeOK, CaptureOK, PeersOK, UserStep
             PROVE  CommandTypeOK' /\ SocketTypeOK' /\ CaptureOK' /\ PeersOK'
  BY ShareInvParts, ShareInvPartsNext
<1>1. CASE Cancel
  BY <1>1 DEF Cancel, CommandTypeOK, SocketTypeOK, CaptureOK, PeersOK, captureVars, peerVars
<1>2. ASSUME NEW s \in Streams, Pick(s)
      PROVE  CommandTypeOK' /\ SocketTypeOK' /\ CaptureOK' /\ PeersOK'
  <2>1. CommandTypeOK'
    BY <1>2, SuspendedJob DEF Pick, CommandTypeOK
  <2>2. CaptureOK' /\ PeersOK'
    BY <1>2, ApplySafe DEF Pick
  <2>3. SocketTypeOK'
    BY <1>2 DEF Pick, ApplyCaptureStream, SocketTypeOK
  <2> QED BY <2>1, <2>2, <2>3
<1>3. ASSUME NEW s \in Streams, TrackEnds(s)
      PROVE  CommandTypeOK' /\ SocketTypeOK' /\ CaptureOK' /\ PeersOK'
  BY <1>3 DEF TrackEnds, CommandTypeOK, SocketTypeOK, CaptureOK, PeersOK, peerVars, commandVars
<1> QED BY <1>1, <1>2, <1>3 DEF UserStep

LEMMA PeerStepSafe == ShareInv /\ PeerStep => ShareInv'
<1> SUFFICES ASSUME CommandTypeOK, SocketTypeOK, CaptureOK, PeersOK, NEW p \in Peers,
                    PeerJoined(p) \/ PeerLeft(p)
             PROVE  CommandTypeOK' /\ SocketTypeOK' /\ CaptureOK' /\ PeersOK'
  BY ShareInvParts, ShareInvPartsNext DEF PeerStep
<1>1. CommandTypeOK' /\ SocketTypeOK'
  BY DEF PeerJoined, PeerLeft, CommandTypeOK, SocketTypeOK, commandVars
<1>2. CaptureOK'
  BY DEF PeerJoined, PeerLeft, CaptureOK, captureVars
<1>3. CASE PeerJoined(p)
  <2>1. /\ known' = known \cup {p} /\ peers' = peers \cup {p}
        /\ sender' = [sender EXCEPT ![p] = screen] /\ screen' = screen
    BY <1>3 DEF PeerJoined, EnsurePeer, captureVars
  <2>2. sender' \in [Peers -> Streams \cup {NoStream}]
    BY <2>1 DEF PeersOK, CaptureOK
  <2>3. \A q \in Peers : sender'[q] = IF q = p THEN screen ELSE sender[q]
    BY <2>1 DEF PeersOK
  <2> QED BY <1>1, <1>2, <2>1, <2>2, <2>3 DEF PeersOK
<1>4. CASE PeerLeft(p)
  <2>1. /\ known' = known /\ peers' = peers \ {p}
        /\ sender' = [sender EXCEPT ![p] = NoStream] /\ screen' = screen
    BY <1>4 DEF PeerLeft, captureVars
  <2>2. \A q \in Peers : sender'[q] = IF q = p THEN NoStream ELSE sender[q]
    BY <2>1 DEF PeersOK
  <2> QED BY <1>1, <1>2, <2>1, <2>2 DEF PeersOK
<1> QED BY <1>1, <1>2, <1>3, <1>4

\* A command that arrives is one of the commands.
LEMMA EnqueueSafe ==
  ASSUME ShareInv, NEW c \in Commands, given < MaxCommands, Enqueue(c)
  PROVE  ShareInv'
<1>1. CommandTypeOK /\ SocketTypeOK /\ CaptureOK /\ PeersOK
  BY ShareInvParts
<1>2. CommandTypeOK'
  BY <1>1, MaxCommandsAssumption DEF Enqueue, CommandTypeOK
<1>3. SocketTypeOK' /\ CaptureOK' /\ PeersOK'
  BY <1>1 DEF Enqueue, SocketTypeOK, CaptureOK, PeersOK, captureVars, peerVars
<1> QED BY <1>2, <1>3, ShareInvPartsNext

LEMMA ShareStutters ==
  ASSUME ShareInv, UNCHANGED pageVars
  PROVE  ShareInv'
  BY DEF ShareInv, NothingElseCaptured, PeersSeeScreen, ShareTypeOK, pageVars, captureVars,
         peerVars, commandVars

LEMMA ShareStep == ShareInv /\ [ShareNext]_shareVars => ShareInv'
<1> SUFFICES ASSUME ShareInv, [ShareNext]_shareVars PROVE ShareInv'
  OBVIOUS
<1>1. CASE PageNext
  BY <1>1, SocketStepSafe, PeerStepSafe, TrackStepSafe, UserStepSafe, CommandStepSafe DEF PageNext
<1>2. CASE GiveCommand
  <2>1. PICK kind \in Kinds : Enqueue(Command(kind, given + 1))
    BY <1>2 DEF GiveCommand
  <2>2. given \in Nat /\ given < MaxCommands
    BY <1>2, ShareInvParts, MaxCommandsAssumption DEF GiveCommand, CommandTypeOK
  <2>3. Command(kind, given + 1) \in Commands
    BY <2>2, MaxCommandsAssumption DEF Command, Commands
  <2> QED BY <2>1, <2>2, <2>3, EnqueueSafe
<1>3. CASE ShellReads \/ UNCHANGED shareVars
  BY <1>3, ShareStutters DEF ShellReads, shareVars, pageVars
<1> QED BY <1>1, <1>2, <1>3 DEF ShareNext

\* The host page on its own keeps the two invariants of the screen, in whatever
\* order commands, pickers, peers and the end of a track come.
THEOREM ShareSafe == ShareSpec => []ShareInv
  BY ShareInitSafe, ShareStep, PTL DEF ShareSpec, ShareInit

\* A track that still captures is the one the page shares, whatever was picked,
\* changed, ended or stopped in whatever order (app_host.js:417-425, 470-497,
\* 553-556).
THEOREM ShareCapturesNothingElse == ShareSpec => []NothingElseCaptured
  BY ShareSafe, PTL DEF ShareInv

\* Each connected peer is sent the screen that is shared now
\* (app_host.js:402-404, 483-485).
THEOREM SharePeersSeeScreen == ShareSpec => []PeersSeeScreen
  BY ShareSafe, PTL DEF ShareInv

\* The queued end of a track stops no share but that track's own
\* (app_host.js:421, 477-480): an ended event finds either the screen or a track
\* that was released.
THEOREM ShareOldTrackStopsNothing == ShareSpec => OldTrackStopsNothing
<1>1. ShareInv /\ [ShareNext]_shareVars =>
        [\A s \in endings \ endings' : screen # s => screen' = screen]_shareVars
  <2> SUFFICES ASSUME CaptureOK, ShareNext, NEW s \in endings, s \notin endings', screen # s
               PROVE  screen' = screen
    BY ShareInvParts
  <2>1. ASSUME NEW t \in Streams, OnEnded(t) PROVE screen' = screen
    <3>1. t = s
      BY <2>1 DEF OnEnded
    <3>2. track[t] # "ended"
      BY <2>1, <3>1 DEF CaptureOK
    <3> QED BY <2>1, <3>2 DEF OnEnded
  <2>2. UNCHANGED endings \/ endings \subseteq endings' \/ TrackStep
    BY DEF ShareNext, PageNext, SocketStep, Opens, Registers, Refused, Closes, PeerStep,
           PeerJoined, PeerLeft, UserStep, Cancel, Pick, TrackEnds, CommandStep, NextCommand,
           BecomesReady, NotReady, Wakes, GiveCommand, Enqueue, ShellReads, captureVars
  <2> QED BY <2>1, <2>2 DEF TrackStep
<1> QED BY <1>1, ShareSafe, PTL DEF ShareSpec, OldTrackStopsNothing

(***************************************************************************)
(* The request to the host page.                                           *)
(***************************************************************************)
ChannelOK ==
  /\ service \in BOOLEAN /\ stopAsked \in BOOLEAN
  /\ toDesktop \in Seq({"start-server", "stop-server"})

RequestOK ==
  /\ bridgeReady \in BOOLEAN /\ frame \in {"blank", "loading", "loaded"}
  /\ pending \in Requests /\ inFlight \in 0..MaxClicks /\ timer \in 0..MaxClicks
  /\ toPage \in Seq(Commands) /\ clicks \in 0..MaxClicks
  /\ toPage # <<>> => frame = "loaded"
  /\ pending # NoRequest <=> timer # 0
  /\ pending # NoRequest => timer = pending.id
  /\ inFlight # 0 => inFlight = pending.id

\* Every command of the page, the ones under way included, was a click of its own.
Unsent == IF pending # NoRequest /\ inFlight = 0 THEN 1 ELSE 0
ClicksCover == given + Len(toPage) + Unsent <= clicks

BridgeInv == ShareInv /\ ChannelOK /\ RequestOK /\ ClicksCover

LEMMA BridgeInvShows == BridgeInv => WaitsWithTimeout
  BY DEF BridgeInv, ShareInv, NothingElseCaptured, ChannelOK, RequestOK, WaitsWithTimeout, BridgeTypeOK

LEMMA GivenType == ShareInv => given \in Nat
  BY ShareInvParts, MaxCommandsAssumption DEF CommandTypeOK

LEMMA RequestFacts ==
  /\ NoRequest.id = 0 /\ NoRequest.stopAfter = FALSE
  /\ \A r \in Requests : r # NoRequest =>
       /\ r.id \in 1..MaxClicks /\ r.id # 0 /\ r.stopAfter \in BOOLEAN
       /\ Command(r.kind, r.id) \in Commands
<1> SUFFICES ASSUME NEW r \in Requests, r # NoRequest
             PROVE  /\ r.id \in 1..MaxClicks /\ r.id # 0 /\ r.stopAfter \in BOOLEAN
                    /\ Command(r.kind, r.id) \in Commands
  BY DEF NoRequest
<1>1. r \in [kind : Kinds, id : 1..MaxClicks, stopAfter : BOOLEAN]
  BY DEF Requests
<1>2. r.id \in 1..MaxCommands
  BY <1>1, MaxClicksAssumption, MaxCommandsAssumption
<1> QED BY <1>1, <1>2, MaxClicksAssumption, MaxCommandsAssumption DEF Command, Commands

\* tryFlushHostBridgeCommand sends the pending request at most once and arms the
\* timeout for it.
LEMMA FlushSafe ==
  ASSUME given \in Nat, RequestOK, ClicksCover, Flush(pending), UNCHANGED <<pending, clicks, given>>,
         frame' \in {"blank", "loading", "loaded"}, bridgeReady' \in BOOLEAN,
         toPage # <<>> => frame' = "loaded"
  PROVE  RequestOK' /\ ClicksCover'
<1>1. CASE MayFlush(pending)
  <2>1. /\ inFlight' = pending.id /\ timer' = pending.id /\ inFlight = 0
        /\ toPage' = Append(toPage, Command(pending.kind, pending.id))
        /\ frame' = "loaded" /\ pending # NoRequest
    BY <1>1 DEF Flush, MayFlush
  <2>2. pending.id \in 1..MaxClicks /\ Command(pending.kind, pending.id) \in Commands
    BY <2>1, RequestFacts DEF RequestOK
  <2>3. toPage' \in Seq(Commands) /\ Len(toPage') = Len(toPage) + 1
    BY <2>1, <2>2 DEF RequestOK
  <2>4. Len(toPage) \in Nat /\ clicks \in Nat
    BY MaxClicksAssumption, MaxCommandsAssumption DEF RequestOK
  <2>5. RequestOK'
    BY <2>1, <2>2, <2>3, MaxClicksAssumption, MaxCommandsAssumption DEF RequestOK
  <2>6. Unsent = 1 /\ Unsent' = 0
    BY <2>1, <2>2 DEF Unsent
  <2>7. ClicksCover'
    BY <2>3, <2>4, <2>6 DEF ClicksCover
  <2> QED BY <2>5, <2>7
<1>2. CASE ~MayFlush(pending)
  BY <1>2 DEF Flush, RequestOK, ClicksCover, Unsent
<1> QED BY <1>1, <1>2

\* The end of a request: nothing is pending, in flight or timed any more.
LEMMA RequestEnds ==
  ASSUME given \in Nat, RequestOK, ClicksCover, pending' = NoRequest, inFlight' = 0, timer' = 0,
         UNCHANGED <<toPage, clicks, given, frame>>, bridgeReady' \in BOOLEAN
  PROVE  RequestOK' /\ ClicksCover'
<1>1. RequestOK'
  BY RequestFacts, MaxClicksAssumption DEF RequestOK, Requests
<1>2. Unsent \in {0, 1} /\ Unsent' = 0
  BY DEF Unsent
<1>3. Len(toPage) \in Nat /\ clicks \in Nat
  BY MaxClicksAssumption, MaxCommandsAssumption DEF RequestOK
<1>4. ClicksCover'
  BY <1>2, <1>3 DEF ClicksCover
<1> QED BY <1>1, <1>4

\* A click may become the pending request.
LEMMA QueueSafe ==
  ASSUME given \in Nat, RequestOK, ClicksCover, Click, NEW kind \in Kinds, NEW stopAfter \in BOOLEAN,
         QueueRequest(Request(kind, stopAfter)), UNCHANGED given
  PROVE  RequestOK' /\ ClicksCover'
<1> DEFINE r == Request(kind, stopAfter)
<1>1. clicks \in Nat /\ clicks' = clicks + 1 /\ clicks' \in 0..MaxClicks /\ Len(toPage) \in Nat
  BY MaxClicksAssumption, MaxCommandsAssumption DEF RequestOK, Click
<1>2. r \in Requests /\ r.id = clicks + 1 /\ r.id \in 1..MaxClicks /\ r # NoRequest
  BY <1>1, MaxClicksAssumption, MaxCommandsAssumption DEF Request, Requests, NoRequest, Click
<1>3. CASE Busy
  BY <1>1, <1>3 DEF QueueRequest, adminVars, RequestOK, ClicksCover, Unsent
<1>4. CASE ~Busy
  <2>1. pending = NoRequest /\ inFlight = 0 /\ pending' = r /\ UNCHANGED <<frame, bridgeReady>>
    BY <1>4 DEF Busy, QueueRequest
  <2>2. timer' = r.id /\ Unsent = 0
    BY <1>4, <2>1 DEF QueueRequest, Flush, Unsent
  <2>3. CASE MayFlush(r)
    <3>1. /\ inFlight' = r.id /\ toPage' = Append(toPage, Command(r.kind, r.id))
          /\ frame' = "loaded"
      BY <1>4, <2>3 DEF QueueRequest, Flush, MayFlush
    <3>2. Command(r.kind, r.id) \in Commands
      BY <1>2, RequestFacts
    <3>3. toPage' \in Seq(Commands) /\ Len(toPage') = Len(toPage) + 1
      BY <3>1, <3>2 DEF RequestOK
    <3>4. Unsent' = 0
      BY <1>2, <3>1 DEF Unsent
    <3>5. RequestOK'
      BY <1>1, <1>2, <2>1, <2>2, <3>1, <3>3, MaxClicksAssumption, MaxCommandsAssumption DEF RequestOK
    <3> QED BY <1>1, <2>2, <3>3, <3>4, <3>5 DEF ClicksCover
  <2>4. CASE ~MayFlush(r)
    <3>1. UNCHANGED <<inFlight, toPage>>
      BY <1>4, <2>4 DEF QueueRequest
    <3>2. Unsent' \in {0, 1}
      BY DEF Unsent
    <3>3. RequestOK'
      BY <1>1, <1>2, <2>1, <2>2, <3>1, MaxClicksAssumption, MaxCommandsAssumption DEF RequestOK
    <3> QED BY <1>1, <2>2, <3>1, <3>2, <3>3 DEF ClicksCover
  <2> QED BY <2>3, <2>4
<1> QED BY <1>3, <1>4

\* A new document in the frame starts from the initial page.
LEMMA ReloadSafe == ASSUME ShareInv, Reload PROVE ShareInv'
<1>1. CommandTypeOK /\ SocketTypeOK /\ CaptureOK /\ PeersOK
  BY ShareInvParts
<1>2. CommandTypeOK'
  BY <1>1 DEF Reload, CommandTypeOK
<1>3. SocketTypeOK' /\ CaptureOK' /\ PeersOK'
  BY <1>1 DEF Reload, SocketTypeOK, CaptureOK, PeersOK
<1> QED BY <1>2, <1>3, ShareInvPartsNext

----------------------------------------------------------------------------
LEMMA BridgeInit == Init => BridgeInv
<1> SUFFICES ASSUME Init PROVE BridgeInv
  OBVIOUS
<1>1. ShareInv
  BY ShareInitSafe DEF Init, ShareInit
<1>2. ChannelOK
  <2>1. service \in BOOLEAN /\ stopAsked \in BOOLEAN /\ toDesktop = <<>>
    BY DEF Init
  <2> QED BY <2>1 DEF ChannelOK
<1>3. RequestOK
  <2>1. /\ bridgeReady \in BOOLEAN /\ frame = "blank" /\ toPage = <<>>
        /\ pending = NoRequest /\ inFlight = 0 /\ timer = 0 /\ clicks = 0
    BY DEF Init
  <2>2. NoRequest \in Requests /\ 0 \in 0..MaxClicks
    BY MaxClicksAssumption, MaxCommandsAssumption DEF Requests
  <2> QED BY <2>1, <2>2 DEF RequestOK
<1>4. ClicksCover
  BY DEF Init, ShareInit, ClicksCover, Unsent
<1> QED BY <1>1, <1>2, <1>3, <1>4 DEF BridgeInv

LEMMA SendStopKeeps ==
  ASSUME ChannelOK, NEW stopAfter \in BOOLEAN, SendStop(stopAfter)
  PROVE  toDesktop' \in Seq({"start-server", "stop-server"})
  BY DEF ChannelOK, SendStop

LEMMA PendingStop == RequestOK => pending.stopAfter \in BOOLEAN
  BY RequestFacts DEF RequestOK

LEMMA AdminStepSafe == BridgeInv /\ AdminStep => BridgeInv'
<1> SUFFICES ASSUME ShareInv, ChannelOK, RequestOK, ClicksCover, given \in Nat, AdminStep
             PROVE  ShareInv' /\ ChannelOK' /\ RequestOK' /\ ClicksCover'
  BY GivenType DEF BridgeInv
<1>1. CASE ReceiveSnapshot
  <2> DEFINE running == Head(snapshots).running
  <2>1. /\ UNCHANGED <<service, toDesktop, pending, clicks, stopAsked>> /\ UpdateHostPreview(running)
        /\ IF frame' # frame THEN UNCHANGED <<inFlight, timer>> /\ toPage' = <<>> ELSE Flush(pending)
    BY <1>1 DEF ReceiveSnapshot
  <2>2. /\ Reload \/ UNCHANGED pageVars
        /\ frame' \in {"blank", "loading", "loaded"} /\ bridgeReady' \in BOOLEAN
    BY <2>1 DEF UpdateHostPreview, RequestOK
  <2>3. ShareInv' /\ given' = given
    BY <2>2, ReloadSafe, ShareStutters DEF Reload, pageVars, commandVars
  <2>4. ChannelOK'
    BY <2>1 DEF ChannelOK
  <2>5. CASE frame' # frame
    <3>1. RequestOK'
      BY <2>1, <2>2, <2>5 DEF RequestOK
    <3>2. Unsent' = Unsent /\ Unsent \in {0, 1} /\ Len(toPage') = 0 /\ Len(toPage) \in Nat /\ clicks \in Nat
      BY <2>1, <2>5, MaxClicksAssumption, MaxCommandsAssumption DEF Unsent, RequestOK
    <3> QED BY <2>1, <2>3, <2>4, <3>1, <3>2 DEF ClicksCover
  <2>6. CASE frame' = frame
    BY <2>1, <2>2, <2>3, <2>4, <2>6, FlushSafe DEF RequestOK
  <2> QED BY <2>5, <2>6
<1>2. CASE FrameLoads
  <2>1. /\ UNCHANGED <<shareVars, service, toDesktop, pending, clicks, stopAsked>>
        /\ frame = "loading" /\ frame' = "loaded" /\ bridgeReady' = bridgeReady /\ Flush(pending)
    BY <1>2 DEF FrameLoads
  <2>2. UNCHANGED pageVars /\ given' = given
    BY <2>1 DEF shareVars, pageVars, commandVars
  <2>3. ShareInv' /\ ChannelOK'
    BY <2>1, <2>2, ShareStutters DEF ChannelOK
  <2> QED BY <2>1, <2>2, <2>3, FlushSafe DEF RequestOK
<1>3. CASE ReceiveFromPage
  <2> DEFINE m == Head(toShell)
  <2>1. UNCHANGED <<pageVars, service, clicks, stopAsked>> /\ given' = given
    BY <1>3 DEF ReceiveFromPage, pageVars, commandVars
  <2>2. ShareInv'
    BY <2>1, ShareStutters
  <2>3. CASE ReceiveStatus(m)
    <3>1. ChannelOK'
      BY <2>1, <2>3 DEF ReceiveStatus, ChannelOK
    <3> QED BY <2>1, <2>2, <2>3, <3>1, FlushSafe DEF ReceiveStatus, RequestOK
  <2>4. CASE ReceiveResult(m) /\ Matches(m.id)
    <3>1. /\ pending' = NoRequest /\ timer' = 0 /\ SendStop(pending.stopAfter)
          /\ inFlight' = IF inFlight = m.id THEN 0 ELSE inFlight
          /\ UNCHANGED <<frame, bridgeReady, toPage>> /\ pending.id = m.id
      BY <2>4 DEF ReceiveResult, Finalize, Matches
    <3>2. inFlight' = 0
      BY <3>1 DEF RequestOK
    <3>3. ChannelOK'
      BY <2>1, <3>1, SendStopKeeps, PendingStop DEF ChannelOK
    <3> QED BY <2>1, <2>2, <3>1, <3>2, <3>3, RequestEnds DEF RequestOK
  <2>5. CASE ReceiveResult(m) /\ ~Matches(m.id)
    BY <2>1, <2>2, <2>5 DEF ReceiveResult, ChannelOK, RequestOK, ClicksCover, Unsent
  <2> QED BY <1>3, <2>3, <2>4, <2>5 DEF ReceiveFromPage
<1> QED BY <1>1, <1>2, <1>3 DEF AdminStep

LEMMA TimeoutSafe == BridgeInv /\ Timeout => BridgeInv'
<1> SUFFICES ASSUME ShareInv, ChannelOK, RequestOK, ClicksCover, given \in Nat, Timeout
             PROVE  ShareInv' /\ ChannelOK' /\ RequestOK' /\ ClicksCover'
  BY GivenType DEF BridgeInv
<1>1. UNCHANGED pageVars /\ given' = given /\ UNCHANGED <<toPage, clicks, frame, bridgeReady, service, stopAsked>>
  BY DEF Timeout, shareVars, pageVars, commandVars
<1>2. ShareInv' /\ ChannelOK'
  BY <1>1, ShareStutters, SendStopKeeps, PendingStop DEF Timeout, ChannelOK
<1>3. RequestOK' /\ ClicksCover'
  BY <1>1, RequestEnds DEF Timeout, RequestOK
<1> QED BY <1>2, <1>3

LEMMA ClickSafe ==
  BridgeInv /\ (ClickStop \/ \E kind \in {"start-share", "choose-share"} : ClickStart(kind)) => BridgeInv'
<1> SUFFICES ASSUME ShareInv, ChannelOK, RequestOK, ClicksCover, given \in Nat,
                    ClickStop \/ \E kind \in {"start-share", "choose-share"} : ClickStart(kind)
             PROVE  ShareInv' /\ ChannelOK' /\ RequestOK' /\ ClicksCover'
  BY GivenType DEF BridgeInv
<1>1. UNCHANGED pageVars /\ given' = given /\ Click /\ service' = service
  BY DEF ClickStop, ClickStart, shareVars, pageVars, commandVars
<1>2. ShareInv'
  BY <1>1, ShareStutters
<1>3. CASE UNCHANGED adminVars /\ SendStop(TRUE) /\ stopAsked' = service
  <2>1. clicks \in Nat /\ clicks' = clicks + 1 /\ clicks' \in 0..MaxClicks /\ Len(toPage) \in Nat
    BY <1>1, MaxClicksAssumption, MaxCommandsAssumption DEF RequestOK, Click
  <2>2. RequestOK'
    BY <1>3, <2>1 DEF RequestOK, adminVars
  <2>3. Unsent' = Unsent /\ Unsent \in {0, 1}
    BY <1>3 DEF Unsent, adminVars
  <2>4. ClicksCover'
    BY <1>1, <1>3, <2>1, <2>3 DEF ClicksCover, adminVars
  <2> QED BY <1>1, <1>2, <1>3, <2>2, <2>4, SendStopKeeps DEF ChannelOK
<1>4. ASSUME NEW kind \in Kinds, NEW stopAfter \in BOOLEAN, QueueRequest(Request(kind, stopAfter)),
             toDesktop' \in Seq({"start-server", "stop-server"}), stopAsked' \in BOOLEAN
      PROVE  ShareInv' /\ ChannelOK' /\ RequestOK' /\ ClicksCover'
  BY <1>1, <1>2, <1>4, QueueSafe DEF ChannelOK
<1>5. CASE ClickStop
  <2>1. stopAsked' \in BOOLEAN
    BY <1>5 DEF ClickStop, ChannelOK
  <2> QED BY <1>3, <1>4, <1>5, <2>1 DEF ClickStop, Kinds, ChannelOK
<1>6. ASSUME NEW kind \in {"start-share", "choose-share"}, ClickStart(kind)
      PROVE  ShareInv' /\ ChannelOK' /\ RequestOK' /\ ClicksCover'
  <2>1. toDesktop' \in Seq({"start-server", "stop-server"})
    BY <1>6 DEF ClickStart, ChannelOK
  <2>2. stopAsked' \in BOOLEAN /\ QueueRequest(Request(kind, FALSE)) /\ kind \in Kinds
    BY <1>6 DEF ClickStart, Kinds
  <2> QED BY <1>4, <2>1, <2>2
<1> QED BY <1>5, <1>6

LEMMA DesktopStepSafe == BridgeInv /\ DesktopStep => BridgeInv'
<1> SUFFICES ASSUME ShareInv, ChannelOK, RequestOK, ClicksCover, DesktopStep
             PROVE  ShareInv' /\ ChannelOK' /\ RequestOK' /\ ClicksCover'
  BY DEF BridgeInv
<1>1. UNCHANGED <<shareVars, adminVars, clicks>>
  BY DEF DesktopStep, DesktopRuns, DesktopRefreshes
<1>2. ShareInv' /\ RequestOK' /\ ClicksCover'
  BY <1>1, ShareStutters DEF shareVars, pageVars, adminVars, commandVars, RequestOK, ClicksCover, Unsent
<1>3. ChannelOK'
  <2>1. CASE DesktopRuns
    <3>1. service' \in BOOLEAN
      BY <2>1 DEF DesktopRuns, Started, Stopped, ChannelOK
    <3>2. toDesktop' \in Seq({"start-server", "stop-server"})
      BY <2>1 DEF DesktopRuns, ChannelOK
    <3> QED BY <2>1, <3>1, <3>2 DEF DesktopRuns, ChannelOK
  <2>2. CASE DesktopRefreshes
    BY <2>2 DEF DesktopRefreshes, ChannelOK
  <2> QED BY <2>1, <2>2 DEF DesktopStep
<1> QED BY <1>2, <1>3

LEMMA PageReceivesSafe == BridgeInv /\ PageReceives => BridgeInv'
<1> SUFFICES ASSUME ShareInv, ChannelOK, RequestOK, ClicksCover, given \in Nat, PageReceives
             PROVE  ShareInv' /\ ChannelOK' /\ RequestOK' /\ ClicksCover'
  BY GivenType DEF BridgeInv
<1>1. /\ toPage # <<>> /\ toPage' = Tail(toPage) /\ Enqueue(Head(toPage))
      /\ UNCHANGED <<service, toDesktop, frame, bridgeReady, pending, inFlight, timer, clicks, stopAsked>>
  BY DEF PageReceives
<1>2. /\ Head(toPage) \in Commands /\ toPage' \in Seq(Commands)
      /\ Len(toPage) \in Nat \ {0} /\ Len(toPage') = Len(toPage) - 1
  BY <1>1 DEF RequestOK
<1>3. given' = given + 1 /\ Unsent' = Unsent /\ Unsent \in {0, 1}
  BY <1>1 DEF Enqueue, Unsent
<1>4. clicks \in 0..MaxClicks
  BY DEF RequestOK
<1>5. given < MaxCommands
  BY <1>2, <1>3, <1>4, MaxClicksAssumption, MaxCommandsAssumption DEF ClicksCover
<1>6. ShareInv'
  BY <1>1, <1>2, <1>5, EnqueueSafe
<1>7. ClicksCover'
  BY <1>1, <1>2, <1>3, <1>4, MaxClicksAssumption, MaxCommandsAssumption DEF ClicksCover
<1>8. RequestOK' /\ ChannelOK'
  BY <1>1, <1>2 DEF RequestOK, ChannelOK
<1> QED BY <1>6, <1>7, <1>8

\* The page's own steps give it no command.
LEMMA PageStepGiven == PageNext => given' = given
  BY DEF PageNext, SocketStep, Opens, Registers, Refused, Closes, PeerStep, PeerJoined, PeerLeft,
         TrackStep, OnEnded, UserStep, Cancel, Pick, TrackEnds, CommandStep, NextCommand,
         BecomesReady, NotReady, Wakes, commandVars

LEMMA PageStepSafe == BridgeInv /\ (PageRuns \/ UserActs) => BridgeInv'
<1> SUFFICES ASSUME ShareInv, ChannelOK, RequestOK, ClicksCover, PageRuns \/ UserActs
             PROVE  ShareInv' /\ ChannelOK' /\ RequestOK' /\ ClicksCover'
  BY DEF BridgeInv
<1>1. PageNext /\ UNCHANGED bridgeVars
  BY DEF PageRuns, UserActs, PageNext, SocketStep
<1>2. ShareInv'
  BY <1>1, ShareStep DEF ShareNext
<1>3. given' = given
  BY <1>1, PageStepGiven
<1> QED BY <1>1, <1>2, <1>3 DEF bridgeVars, adminVars, ChannelOK, RequestOK, ClicksCover, Unsent

LEMMA BridgeStep == BridgeInv /\ [Next]_vars => BridgeInv'
<1>1. BridgeInv /\ UNCHANGED vars => BridgeInv'
  BY ShareStutters DEF BridgeInv, vars, bridgeVars, adminVars, shareVars, pageVars, commandVars,
                       ChannelOK, RequestOK, ClicksCover, Unsent
<1> QED BY <1>1, AdminStepSafe, TimeoutSafe, DesktopStepSafe, PageReceivesSafe, PageStepSafe,
           ClickSafe DEF Next

\* The inductive invariant of the bridge: the host page's, the channels' and the
\* requests', whatever the user clicks and whatever is lost in a reload.
THEOREM BridgeSafe == Spec => []BridgeInv
  BY BridgeInit, BridgeStep, PTL DEF Spec

\* The admin page never waits for an answer without a timeout for exactly that
\* request (app.js:1518-1523, 1537-1545, 1631-1636).
THEOREM BridgeWaitsWithTimeout == Spec => []WaitsWithTimeout
  BY BridgeSafe, BridgeInvShows, PTL

\* The screen that is captured in the frame is the one the page shares, and every
\* peer is sent it, although the frame is reloaded under the page whenever a
\* snapshot says so (app.js:1463-1469).
THEOREM BridgeCapturesNothingElse == Spec => [](NothingElseCaptured /\ PeersSeeScreen)
  BY BridgeSafe, PTL DEF BridgeInv, ShareInv

\* A late answer ends no request but its own (app.js:1533-1535, 2889-2891).
THEOREM BridgeAnswersOwnRequest == Spec => AnswersOwnRequest
<1>1. BridgeInv /\ [Next]_vars =>
        [pending # NoRequest /\ pending' = NoRequest /\ timer # 0 /\ toShell' # toShell
           => Head(toShell).kind = "result" /\ Head(toShell).id = pending.id]_vars
  <2> SUFFICES ASSUME BridgeInv, Next, pending # NoRequest, pending' = NoRequest, toShell' # toShell
               PROVE  Head(toShell).kind = "result" /\ Head(toShell).id = pending.id
    OBVIOUS
  <2>1. CASE ReceiveFromPage
    BY <2>1 DEF ReceiveFromPage, ReceiveStatus, ReceiveResult, Matches
  <2>2. CASE PageRuns \/ UserActs \/ PageReceives
    BY <2>2 DEF PageRuns, UserActs, PageReceives, bridgeVars, adminVars
  <2>3. CASE ReceiveSnapshot \/ FrameLoads \/ Timeout \/ DesktopStep
    BY <2>3 DEF ReceiveSnapshot, FrameLoads, Timeout, DesktopStep, DesktopRuns, DesktopRefreshes, shareVars
  <2>4. CASE ClickStop \/ \E kind \in {"start-share", "choose-share"} : ClickStart(kind)
    BY <2>4 DEF ClickStop, ClickStart, shareVars
  <2> QED BY <2>1, <2>2, <2>3, <2>4 DEF Next, AdminStep
<1> QED BY <1>1, BridgeSafe, PTL DEF Spec, AnswersOwnRequest
=============================================================================
