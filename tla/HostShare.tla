----------------------------- MODULE HostShare -----------------------------
(***************************************************************************)
(* What one host page does with the captured screen                        *)
(* (www/assets/app_host.js): the commands of its queue, the picker of      *)
(* getDisplayMedia, the tracks and the peers that are given them.          *)
(*                                                                         *)
(* The page has one thread, but every await gives it away: while a command *)
(* waits for the registration, for the picker or for the wake lock, socket *)
(* events, track events and peers come in.  job is the command that is     *)
(* suspended.  The commands themselves run one after the other             *)
(* (hostControlQueue); the end of a track bypasses that queue.             *)
(*                                                                         *)
(* Of the status messages posted to the surrounding admin page one after   *)
(* the other, and not yet read there, only the last is kept.               *)
(***************************************************************************)
EXTENDS Naturals, Sequences, FiniteSets

CONSTANTS
  Streams,      \* what the picker can return, each at most once
  Peers,        \* peer ids
  NoStream,
  MaxCommands   \* bound on the commands the page is given

ASSUME NoStreamAssumption == NoStream \notin Streams
ASSUME MaxCommandsAssumption == MaxCommands \in Nat

VARIABLES
  socket,      \* the WebSocket: "connecting", "open", "answered" (to host.register),
               \* "closed"
  registered, state, captureState,
  screen,      \* screenStream
  track,       \* track[s]: "unused", "live" (it captures), "ended" (by the user, with
               \* its onended handler), "released" (stopped, without handler)
  endings,     \* the streams whose ended event is queued
  peers,       \* the keys of peers
  sender,      \* sender[p]: the track on the connection of peer p
  known,       \* the peers that were ever announced (history)
  queue,       \* the commands behind the running one
  job,         \* the suspended command
  given,       \* how many commands the page was given
  toShell      \* posted to the admin page, not yet read there

captureVars == <<screen, track, endings>>
peerVars    == <<peers, sender, known>>
commandVars == <<queue, job, given>>
shareVars   == <<socket, registered, state, captureState, captureVars, peerVars, commandVars,
                 toShell>>

Kinds == {"start-share", "choose-share", "stop-share"}
Command(kind, id) == [kind |-> kind, id |-> id]
NoJob == [step |-> "none"]
Job(c, step, had) == [command |-> c, step |-> step, had |-> had]

\* What the page posts carries the values its handler leaves behind.
Status == [kind |-> "status", state |-> state', capture |-> captureState']
Result(c, ok) == [kind |-> "result", state |-> state', capture |-> captureState',
                  command |-> c.kind, id |-> c.id, ok |-> ok]
WithoutLastStatus ==
  IF toShell # <<>> /\ toShell[Len(toShell)].kind = "status"
  THEN SubSeq(toShell, 1, Len(toShell) - 1) ELSE toShell
Tell == toShell' = Append(WithoutLastStatus, Status)
Answer(c, ok) == toShell' = WithoutLastStatus \o <<Status, Result(c, ok)>>

----------------------------------------------------------------------------
(* The signaling socket *)

\* ws.onopen, host.registered, an error reply, ws.onclose (which also follows
\* ws.onerror).
Opens ==
  /\ socket = "connecting" /\ socket' = "open"
  /\ state' = "registering"
  /\ UNCHANGED <<registered, captureState, captureVars, peerVars, commandVars>>
  /\ Tell

Registers ==
  /\ socket = "open" /\ socket' = "answered"
  /\ registered' = TRUE /\ state' = "ready"
  /\ UNCHANGED <<captureState, captureVars, peerVars, commandVars>>
  /\ Tell

Refused ==
  /\ socket = "open" /\ socket' = "answered"
  /\ state' = "error"
  /\ UNCHANGED <<registered, captureState, captureVars, peerVars, commandVars>>
  /\ Tell

Closes ==
  /\ socket # "closed" /\ socket' = "closed"
  /\ registered' = FALSE /\ state' = "closed"
  /\ UNCHANGED <<captureState, captureVars, peerVars, commandVars>>
  /\ Tell

\* ensurePeer: the connection is given the track there is.
EnsurePeer(p) ==
  /\ peers' = peers \cup {p}
  /\ sender' = [sender EXCEPT ![p] = screen]

PeerJoined(p) ==
  /\ registered /\ p \notin known
  /\ known' = known \cup {p}
  /\ EnsurePeer(p)
  /\ UNCHANGED <<socket, registered, state, captureState, captureVars, commandVars>>
  /\ Tell

PeerLeft(p) ==
  /\ registered /\ p \in peers
  /\ peers' = peers \ {p} /\ sender' = [sender EXCEPT ![p] = NoStream]
  /\ UNCHANGED <<socket, registered, state, captureState, captureVars, known, commandVars>>
  /\ Tell

----------------------------------------------------------------------------
(* The captured screen *)

\* releaseScreenStream: the handler goes before the track is stopped.
ReleaseStopOnly(s) ==                  \* seeded fault: the onended handler stays
  IF s = NoStream THEN track ELSE [track EXCEPT ![s] = "ended"]
Release(s) ==
  IF s = NoStream THEN track ELSE [track EXCEPT ![s] = "released"]

\* attachStreamToPeer for every peer: a connection that has a track gets it
\* replaced.
AttachToNew(s) ==                      \* seeded fault: only new connections
  [p \in Peers |-> IF p \in peers /\ sender[p] = NoStream THEN s ELSE sender[p]]
Attach(s) == [p \in Peers |-> IF p \in peers THEN s ELSE NoStream]

ApplyLeavesPrevious(s) ==              \* seeded fault: the previous stream is kept
  /\ screen' = s /\ sender' = Attach(s)
  /\ track' = [track EXCEPT ![s] = "live"]
  /\ captureState' = "active" /\ state' = "sharing"

ApplyCaptureStream(s) ==
  /\ screen' = s /\ sender' = Attach(s)
  /\ track' = [Release(screen) EXCEPT ![s] = "live"]
  /\ captureState' = "active" /\ state' = "sharing"

StopLeavesConnections ==               \* seeded fault: the connections stay open
  /\ screen' = NoStream /\ track' = Release(screen)
  /\ peers' = {} /\ UNCHANGED sender
  /\ captureState' = "idle"
  /\ state' = IF registered THEN "ready" ELSE "idle"

\* The peers are closed, but their viewers stay in the room.
StopShare ==
  /\ screen' = NoStream /\ track' = Release(screen)
  /\ peers' = {} /\ sender' = [p \in Peers |-> NoStream]
  /\ captureState' = "idle"
  /\ state' = IF registered THEN "ready" ELSE "idle"

\* The user ends the capture in the browser; the event comes later.
TrackEnds(s) ==
  /\ track[s] = "live"
  /\ track' = [track EXCEPT ![s] = "ended"]
  /\ endings' = endings \cup {s}
  /\ UNCHANGED <<socket, registered, state, captureState, screen, peerVars, commandVars, toShell>>

OnEnded(s) ==
  /\ s \in endings /\ endings' = endings \ {s}
  /\ \/ track[s] = "ended" /\ StopShare /\ Tell
     \/ /\ track[s] = "released"
        /\ UNCHANGED <<state, captureState, screen, track, peers, sender, toShell>>
  /\ UNCHANGED <<socket, registered, known, commandVars>>

----------------------------------------------------------------------------
(* The commands *)

\* A button, or a message of the admin page.
Enqueue(c) ==
  /\ queue' = Append(queue, c) /\ given' = given + 1
  /\ UNCHANGED <<socket, registered, state, captureState, captureVars, peerVars, job, toShell>>

GiveCommand ==
  /\ given < MaxCommands
  /\ \E kind \in Kinds : Enqueue(Command(kind, given + 1))

Ready == registered \/ state \in {"ready", "sharing"}

\* The picker opens.  A change of the target does not touch the state.
OpenPicker(c) ==
  LET had == c.kind = "choose-share" /\ screen # NoStream
  IN  /\ job' = Job(c, "picking", had)
      /\ state' = IF had THEN state ELSE "starting_share"
      /\ captureState' = "selecting"
      /\ Tell

\* The next command of the queue runs up to its first await.
NextCommand ==
  /\ job = NoJob /\ queue # <<>>
  /\ queue' = Tail(queue)
  /\ LET c == Head(queue) IN
     \/ /\ c.kind = "stop-share"
        /\ StopShare /\ Answer(c, TRUE)
        /\ UNCHANGED <<endings, known, job>>
     \/ /\ c.kind = "start-share" /\ screen # NoStream
        /\ UNCHANGED <<state, captureState, captureVars, peerVars, job>>
        /\ Answer(c, TRUE)
     \/ /\ c.kind = "choose-share" \/ (c.kind = "start-share" /\ screen = NoStream)
        /\ IF Ready THEN OpenPicker(c)
           ELSE job' = Job(c, "waiting", FALSE) /\ UNCHANGED <<state, captureState, toShell>>
        /\ UNCHANGED <<captureVars, peerVars>>
  /\ UNCHANGED <<socket, registered, given>>

\* waitForHostReady looks again every 120 ms, and gives up.
BecomesReady ==
  /\ job.step = "waiting" /\ Ready
  /\ OpenPicker(job.command)
  /\ UNCHANGED <<socket, registered, captureVars, peerVars, queue, given>>

NotReadyNever == FALSE                 \* seeded fault: no deadline
NotReady ==
  /\ job.step = "waiting" /\ job' = NoJob
  /\ UNCHANGED <<socket, registered, state, captureState, captureVars, peerVars, queue, given>>
  /\ Answer(job.command, FALSE)

\* The user picks; the page then waits for the wake lock.
Pick(s) ==
  /\ job.step = "picking" /\ track[s] = "unused"
  /\ ApplyCaptureStream(s)
  /\ job' = [job EXCEPT !.step = "waking"] /\ Tell
  /\ UNCHANGED <<socket, registered, endings, peers, known, queue, given>>

\* The user cancels, or the browser refuses: what was there before is restored
\* from locals that were read before the picker opened.
Cancel ==
  /\ job.step = "picking" /\ job' = NoJob
  /\ IF job.had THEN captureState' = "active" /\ state' = "sharing"
     ELSE captureState' = "idle" /\ state' = "ready"
  /\ Answer(job.command, FALSE)
  /\ UNCHANGED <<socket, registered, captureVars, peerVars, queue, given>>

Wakes ==
  /\ job.step = "waking" /\ job' = NoJob
  /\ UNCHANGED <<socket, registered, state, captureState, captureVars, peerVars, queue, given>>
  /\ Answer(job.command, TRUE)

ShellReads ==
  /\ toShell # <<>> /\ toShell' = Tail(toShell)
  /\ UNCHANGED <<socket, registered, state, captureState, captureVars, peerVars, commandVars>>

----------------------------------------------------------------------------
PageInit ==
  /\ socket = "connecting" /\ registered = FALSE /\ state = "idle" /\ captureState = "idle"
  /\ screen = NoStream /\ track = [s \in Streams |-> "unused"] /\ endings = {}
  /\ peers = {} /\ sender = [p \in Peers |-> NoStream] /\ known = {}
  /\ queue = <<>> /\ job = NoJob
  /\ toShell = <<>>

ShareInit == PageInit /\ given = 0

SocketStep == Opens \/ Registers \/ Refused \/ Closes
PeerStep == \E p \in Peers : PeerJoined(p) \/ PeerLeft(p)
TrackStep == \E s \in Streams : OnEnded(s)
UserStep == Cancel \/ \E s \in Streams : Pick(s) \/ TrackEnds(s)
CommandStep == NextCommand \/ BecomesReady \/ NotReady \/ Wakes

PageNext == SocketStep \/ PeerStep \/ TrackStep \/ UserStep \/ CommandStep
ShareNext == PageNext \/ GiveCommand \/ ShellReads

\* The browser runs timers, settles promises and delivers messages.  The user
\* need not answer the picker.
ShareSpec ==
  /\ ShareInit /\ [][ShareNext]_shareVars
  /\ WF_shareVars(CommandStep) /\ WF_shareVars(ShellReads)
  /\ \A s \in Streams : WF_shareVars(OnEnded(s))

----------------------------------------------------------------------------
Commands == [kind : Kinds, id : 1..MaxCommands]

\* A connection that is no longer kept sends nothing (app_host.js:407-415).
ShareTypeOK ==
  /\ socket \in {"connecting", "open", "answered", "closed"} /\ registered \in BOOLEAN
  /\ state \in {"idle", "registering", "ready", "starting_share", "sharing", "closed", "error"}
  /\ captureState \in {"idle", "selecting", "active"}
  /\ screen \in Streams \cup {NoStream}
  /\ track \in [Streams -> {"unused", "live", "ended", "released"}]
  /\ endings \subseteq Streams
  /\ peers \subseteq known /\ known \subseteq Peers
  /\ sender \in [Peers -> Streams \cup {NoStream}]
  /\ \A p \in Peers \ peers : sender[p] = NoStream
  /\ queue \in Seq(Commands) /\ given \in 0..MaxCommands
  /\ job \in {NoJob} \cup [command : Commands, step : {"waiting", "picking", "waking"}, had : BOOLEAN]

\* Nothing is captured behind the user's back: a track that still captures is
\* the one the page shares, whatever was picked, changed, ended or stopped in
\* whatever order (app_host.js:417-425, 470-497, 553-556).
NothingElseCaptured ==
  /\ ShareTypeOK
  /\ \A s \in Streams : track[s] \in {"live", "ended"} => s = screen

\* Each peer is sent the screen that is shared now: a peer that came before the
\* share began, during it, or before the target was changed (app_host.js:402-404,
\* 483-485).
PeersSeeScreen == \A p \in peers : sender[p] = screen

\* The end of a track stops the share of that track and of no other: when the
\* target was changed while its ended event was queued, the share goes on
\* (app_host.js:421, 477-480).
OldTrackStopsNothing ==
  [][\A s \in endings \ endings' : screen # s => screen' = screen]_shareVars

\* Nothing of the page's own makes it deaf: the commands behind a suspended one
\* are run, unless the picker stays open (app_host.js:612-614).
CommandsAreRun == queue # <<>> ~> queue = <<>> \/ job.step = "picking"

\* "host page is not ready" (app_host.js:505, 526): the picker opens only on a page
\* that is registered.
PickerNeedsRegistration ==
  [][job.step # "picking" /\ job'.step = "picking" => registered]_shareVars
=============================================================================
