---------------------------- MODULE DesktopHost ----------------------------
(* The desktop host's window: MainWindow.cpp with the action, session and      *)
(* observability coordinators it calls. One UI thread handles one message at a *)
(* time; a message that starts or stops the server holds it for as long as     *)
(* ServerController takes. A thread of its own asks the server for its counts  *)
(* and posts the answer. The address of the machine is NetworkPlan's, the      *)
(* pages and the tray are AdminShell's.                                        *)
EXTENDS ServerController, Sequences

CONSTANTS Requests,    \* the session configurations the admin page asks for
          Draws,       \* the <<room, token>> pairs MakeRandomAlnum may draw
          MaxCommands, \* bound: commands given, statuses reported and crashes
          MaxMoves,    \* bound: viewers that come or go, ports that other programs take
          MaxViewers   \* bound: viewers connected at once

ASSUME DesktopAssumption ==
  /\ Requests \subseteq Drafts /\ Draws \subseteq Names \X Names
  /\ MaxCommands \in Nat /\ MaxMoves \in Nat /\ MaxViewers \in Nat

VARIABLES up,          \* whether the app runs
          session,     \* m_bindAddress, m_port, m_room, m_token and the handoff flags
          hostPage,    \* m_hostPageState
          lastViewers, \* m_lastViewers
          polling,     \* m_polling
          poll,        \* the detached poll thread: the port it asks, or NoPoll
          posted,      \* the messages posted to the window
          job,         \* the host action the UI thread is inside of
          copied,      \* ghost: the viewer link in the clipboard
          viewers,     \* viewers connected to our child
          spent        \* how much of the two bounds is used
appVars == <<session, hostPage, lastViewers, polling, posted, job, copied>>
vars == <<ctlVars, up, appVars, poll, viewers, spent>>

NoPoll == "none"
NoLink == [bind |-> "none", port |-> "none", room |-> Empty, token |-> Empty]
HostPageStates == {"idle", "loading", "ready", "sharing", "stopped"}
Messages == [kind : {"poll"}, ok : BOOLEAN, viewers : 0..MaxViewers] \cup [kind : {"status"}, state : {"ready", "sharing"}, viewers : 0..MaxViewers]

\* A host action: the operations it has left, where the current one is, whether
\* all went well so far and what its end does to the handoff flags.
Idle == [ops |-> <<>>, at |-> "idle", ok |-> TRUE, sets |-> {}, setsIfOk |-> {}, clears |-> {}, exits |-> FALSE]
Jobs == [ops : UNION {[1..n -> {"start", "stop", "open", "quit"}] : n \in 0..2}, at : {"idle", "begin", "probe", "starting", "stopping"},
         ok : BOOLEAN, sets : SUBSET Flags, setsIfOk : SUBSET Flags, clears : SUBSET Flags, exits : BOOLEAN]

DesktopTypeOK ==
  /\ ControllerTypeOK
  /\ up \in BOOLEAN /\ session \in Sessions /\ hostPage \in HostPageStates
  /\ lastViewers \in 0..MaxViewers /\ viewers \in 0..MaxViewers
  /\ polling \in BOOLEAN /\ poll \in Ports \cup {NoPoll}
  /\ posted \in Seq(Messages) /\ job \in Jobs
  /\ spent \in [commands : 0..MaxCommands, moves : 0..MaxMoves]

\* OnCreate: fresh credentials on the default port; setting the first page
\* starts the server (NavigateHtmlAdminInWebView).
NewSession(n) == GenerateHostSessionCredentials([config |-> [bind |-> DefaultBind, port |-> DefaultPort, room |-> Empty, token |-> Empty], flags |-> {}], n[1], n[2])
Job(ops, sets, setsIfOk) == [Idle EXCEPT !.ops = ops, !.at = "begin", !.sets = sets, !.setsIfOk = setsIfOk]
Launch(n) ==
  /\ session' = NewSession(n) /\ hostPage' = "idle" /\ lastViewers' = 0 /\ polling' = FALSE
  /\ posted' = <<>> /\ job' = Job(<<"start">>, {}, {}) /\ copied' = NoLink

Init ==
  /\ ControllerInit /\ up = TRUE /\ \E n \in Draws : session = NewSession(n)
  /\ hostPage = "idle" /\ lastViewers = 0 /\ polling = FALSE /\ poll = NoPoll /\ posted = <<>>
  /\ job = Job(<<"start">>, {}, {}) /\ copied = NoLink /\ viewers = 0 /\ spent = [commands |-> 0, moves |-> 0]

Spend == spent.commands < MaxCommands /\ spent' = [spent EXCEPT !.commands = @ + 1]
Move == spent.moves < MaxMoves /\ spent' = [spent EXCEPT !.moves = @ + 1]
Ready == up /\ job = Idle

-----------------------------------------------------------------------------
(* The UI thread inside a host action: host_action_coordinator.cpp and the     *)
(* Perform... functions of MainWindow.cpp.                                     *)

Config == session.config
Doing(op, at) == up /\ job.ops # <<>> /\ Head(job.ops) = op /\ job.at = at
At(at) == job' = [job EXCEPT !.at = at]

\* AppendFrom: an operation that failed ends the action, one that went well
\* lets the next one begin.
Return(ok, clears) ==
  job' = [job EXCEPT !.ops = IF ok THEN Tail(@) ELSE <<>>, !.at = "begin", !.ok = ok, !.clears = @ \cup clears]

\* PerformStartServerAction: nothing to do while the server runs; otherwise
\* the form's values are applied, missing credentials drawn.
StartBegins(n) ==
  /\ Doing("start", "begin")
  /\ IF IsRunning
     THEN Return(TRUE, {}) /\ UNCHANGED session
     ELSE /\ session' = EnsureHostSessionCredentials(
                          ApplyDesktopEditSessionDraft(session, BuildDesktopEditSessionDraft(session)), n[1], n[2])
          /\ At("probe")
  /\ UNCHANGED <<ctlVars, hostPage, lastViewers, polling, posted, copied, spent>>

\* The port is probed; a stale ViewMeshServer on it is terminated and the port
\* probed again, one that resists or another program blocks the start.
Probe ==
  /\ Doing("start", "probe")
  /\ IF CanBindTcpPort(Config.port)
     THEN At("starting") /\ CallStart
     ELSE /\ UNCHANGED <<child, running, stopReaders, handles, reader, call>>
          /\ \/ CleanupStaleProcess(Config.port, TRUE) /\ UNCHANGED job
             \/ StaleOn(Config.port) /\ UNCHANGED owner /\ Return(FALSE, {})
             \/ ~StaleOn(Config.port) /\ UNCHANGED owner /\ Return(FALSE, {})
  /\ UNCHANGED <<session, hostPage, lastViewers, polling, posted, copied, spent>>

StartedQuietly ==                      \* seeded fault: the page state is left alone
  /\ Doing("start", "starting") /\ call = "spawn" /\ UNCHANGED hostPage
  /\ \/ Spawn(Config.port) /\ Return(TRUE, {})
     \/ SpawnFails /\ Return(FALSE, {})
  /\ UNCHANGED <<session, lastViewers, polling, posted, copied, spent>>
Started ==
  /\ Doing("start", "starting") /\ call = "spawn"
  /\ \/ Spawn(Config.port) /\ hostPage' = "loading" /\ Return(TRUE, {})
     \/ SpawnFails /\ UNCHANGED hostPage /\ Return(FALSE, {})
  /\ UNCHANGED <<session, lastViewers, polling, posted, copied, spent>>

\* PerformStopServerAction: with no child of ours running, a stale server on the
\* session's port is terminated instead.
StopBegins ==
  /\ Doing("stop", "begin")
  /\ IF IsRunning
     THEN CallStop /\ At("stopping") /\ UNCHANGED hostPage
     ELSE /\ UNCHANGED <<child, running, stopReaders, handles, reader, call>>
          /\ \/ CleanupStaleProcess(Config.port, TRUE) /\ hostPage' = "stopped" /\ Return(TRUE, {"handoffDelivered"})
             \/ StaleOn(Config.port) /\ UNCHANGED <<owner, hostPage>> /\ Return(FALSE, {})
             \/ ~StaleOn(Config.port) /\ UNCHANGED <<owner, hostPage>> /\ Return(TRUE, {})
  /\ UNCHANGED <<session, lastViewers, polling, posted, copied, spent>>

Stopped ==
  /\ Doing("stop", "stopping") /\ call = "none"
  /\ hostPage' = "stopped" /\ Return(TRUE, {"handoffDelivered"})
  /\ UNCHANGED <<ctlVars, session, lastViewers, polling, posted, copied, spent>>

Quits ==
  /\ \/ Doing("quit", "begin") /\ CallStop /\ At("stopping")
     \/ Doing("quit", "stopping") /\ call = "none" /\ Return(TRUE, {}) /\ UNCHANGED ctlVars
  /\ UNCHANGED <<session, hostPage, lastViewers, polling, posted, copied, spent>>

\* A page or a folder is opened, or the artifacts are written; either may fail.
Opened ==
  /\ Doing("open", "begin") /\ \E ok \in BOOLEAN : Return(ok, {})
  /\ UNCHANGED <<ctlVars, session, hostPage, lastViewers, polling, posted, copied, spent>>

\* ApplyHostActionResult, or the end of a start that is not a host action; the
\* window that was being destroyed is gone.
JobEnds ==
  /\ up /\ job.ops = <<>> /\ job.at # "idle"
  /\ session' = [session EXCEPT !.flags = (@ \cup job.sets \cup (IF job.ok THEN job.setsIfOk ELSE {})) \ job.clears]
  /\ job' = Idle /\ up' = ~job.exits
  /\ UNCHANGED <<ctlVars, hostPage, lastViewers, polling, posted, copied, poll, viewers, spent>>

JobStep ==
  \/ (\E n \in Draws : StartBegins(n)) \/ Probe \/ Started \/ StopBegins \/ Stopped \/ Quits \/ Opened
ControllerStep == up /\ CallStep /\ UNCHANGED appVars

-----------------------------------------------------------------------------
(* The messages the UI thread takes between two actions. *)

\* ExecuteHostAction of the admin page, the tray and the native buttons.
HostActions ==
  { Job(<<"start">>, {}, {}), Job(<<"stop">>, {}, {}), Job(<<"stop", "start">>, {}, {}), Job(<<"start", "open">>, {}, {}),
    Job(<<"open">>, {}, {}), Job(<<"open">>, {"handoffStarted"}, {}),
    Job(<<"open", "open">>, {"handoffStarted"}, {"shareBundleExported"}),
    Job(<<"open", "open">>, {"handoffStarted", "shareWizardOpened"}, {}),
    Job(<<"open", "open">>, {"handoffStarted", "shareBundleExported"}, {}) }
ExecuteHostAction ==
  /\ Ready /\ Spend /\ job' \in HostActions
  /\ UNCHANGED <<ctlVars, session, hostPage, lastViewers, polling, posted, copied>>

\* Restoring the window or its WebView starts a server that does not run.
RestoreWebViewShellState ==
  /\ Ready /\ Spend /\ job' = Job(<<"start">>, {}, {})
  /\ UNCHANGED <<ctlVars, session, hostPage, lastViewers, polling, posted, copied>>

ApplySession(new) ==
  /\ Ready /\ Spend /\ session' = new
  /\ UNCHANGED <<ctlVars, hostPage, lastViewers, polling, posted, copied, job>>
ApplyAdminShellSessionRequest == \E r \in Requests : ApplySession(ApplyHostSessionConfig(session, r.room, r.token, r.bind, r.port))
GenerateRoomToken == \E n \in Draws : ApplySession(GenerateHostSessionCredentials(session, n[1], n[2]))

\* The flag says the link was copied; the clipboard may refuse it.
CopyViewerUrl ==
  /\ Ready /\ Spend
  /\ \/ session' = [session EXCEPT !.flags = @ \cup {"handoffStarted", "viewerUrlCopied"}] /\ copied' = Config
     \/ session' = [session EXCEPT !.flags = @ \cup {"handoffStarted"}] /\ UNCHANGED copied
  /\ UNCHANGED <<ctlVars, hostPage, lastViewers, polling, posted, job>>

PollAgain ==                           \* seeded fault: m_polling is not looked at
  /\ Ready /\ IsRunning /\ poll = NoPoll
  /\ polling' = TRUE /\ poll' = Config.port
  /\ UNCHANGED <<ctlVars, session, hostPage, lastViewers, posted, copied, job, spent>>

\* HandleRuntimeTick and KickPoll: one poll at a time, of the session's port.
HandleRuntimeTick ==
  /\ Ready /\ IsRunning /\ ~polling
  /\ polling' = TRUE /\ poll' = Config.port
  /\ UNCHANGED <<ctlVars, session, hostPage, lastViewers, posted, copied, job, spent>>

KeepOnZero(m) ==                       \* seeded fault: a count of zero is no news
  /\ polling' = FALSE /\ lastViewers' = IF m.ok /\ m.viewers > 0 THEN m.viewers ELSE lastViewers
  /\ UNCHANGED <<session, hostPage>>

\* CoordinateHostPollResult: an answer that is not 200 leaves the count as it
\* was, and a count above zero means the link was delivered.
HandlePollResult(m) ==
  LET n == IF m.ok THEN m.viewers ELSE lastViewers
  IN  /\ polling' = FALSE /\ lastViewers' = n
      /\ session' = IF n > 0 THEN [session EXCEPT !.flags = @ \cup {"handoffDelivered"}] ELSE session
      /\ UNCHANGED hostPage

\* CoordinateHostStatusMessage.
HandleHostStatus(m) == hostPage' = m.state /\ lastViewers' = m.viewers /\ UNCHANGED <<polling, session>>

TakeMessage ==
  /\ Ready /\ posted # <<>> /\ posted' = Tail(posted)
  /\ IF Head(posted).kind = "poll" THEN HandlePollResult(Head(posted)) ELSE HandleHostStatus(Head(posted))
  /\ UNCHANGED <<ctlVars, copied, job, spent>>

\* WM_DESTROY: the server is stopped, the message loop ends and ~ServerController
\* stops it once more.
OnDestroy ==
  /\ Ready /\ Spend /\ job' = [Job(<<"stop", "quit">>, {}, {}) EXCEPT !.exits = TRUE]
  /\ UNCHANGED <<ctlVars, session, hostPage, lastViewers, polling, posted, copied>>

Command ==
  \/ ExecuteHostAction \/ RestoreWebViewShellState \/ ApplyAdminShellSessionRequest \/ GenerateRoomToken
  \/ CopyViewerUrl \/ OnDestroy

-----------------------------------------------------------------------------
(* The poll thread, the host page, the viewers, and the app's own end. *)

\* GET /api/status answers with the counts of whoever serves the port: our
\* child, an older server with counts of its own, or nobody of ours.
PollAnswered ==
  /\ poll # NoPoll /\ poll' = NoPoll
  /\ \E n \in 0..MaxViewers :
       /\ owner[poll] = "child" => n = viewers
       /\ \E ok \in BOOLEAN :
            /\ owner[poll] = "child" => ok
            /\ owner[poll] \in {"free", "other"} => ~ok /\ n = 0
            /\ posted' = IF up THEN Append(posted, [kind |-> "poll", ok |-> ok, viewers |-> n]) ELSE posted
  /\ UNCHANGED <<ctlVars, up, session, hostPage, lastViewers, polling, job, copied, viewers, spent>>

\* A page in the WebView reports its state and its count, which was true when
\* it was sent.
HostStatus ==
  /\ up /\ Bound /\ Spend
  /\ \E s \in {"ready", "sharing"} : posted' = Append(posted, [kind |-> "status", state |-> s, viewers |-> viewers])
  /\ UNCHANGED <<ctlVars, session, hostPage, lastViewers, polling, job, copied>>

ViewersMove ==
  /\ Bound /\ Move
  /\ viewers' \in {n \in 0..MaxViewers : n = viewers + 1 \/ n + 1 = viewers}
  /\ UNCHANGED <<ctlVars, up, appVars, poll>>

\* The app ends without stopping its server, which serves on (nothing ties the
\* child to its parent), or the app is started again.
AppCrashes ==
  /\ up /\ Spend /\ up' = FALSE
  /\ child' = NoChild /\ running' = FALSE /\ stopReaders' = FALSE /\ handles' = {} /\ call' = "none"
  /\ reader' = [p \in Pipes |-> "none"]
  /\ owner' = IF Alive /\ owner[child.port] \in {"free", "child"} THEN [owner EXCEPT ![child.port] = "server"] ELSE owner
  /\ poll' = NoPoll /\ UNCHANGED <<appVars, viewers>>
AppStarts == ~up /\ poll = NoPoll /\ Spend /\ up' = TRUE /\ (\E n \in Draws : Launch(n)) /\ UNCHANGED <<ctlVars, poll, viewers>>

\* The machine; a server that ends loses its viewers.
ServerMoves ==
  /\ \/ (ChildListens \/ ChildExits \/ \E p \in Ports : PortFreed(p)) /\ UNCHANGED spent
     \/ Move /\ \E p \in Ports : PortTaken(p)
  /\ UNCHANGED <<up, appVars, poll>>

KeepViewers == viewers' = IF Bound' THEN viewers ELSE 0

UiStep ==
  \/ (JobStep \/ TakeMessage) /\ UNCHANGED <<up, poll, viewers>>
  \/ JobEnds
  \/ ControllerStep /\ UNCHANGED <<up, poll, spent>> /\ KeepViewers
Tick == HandleRuntimeTick /\ UNCHANGED <<up, viewers>>
Reader(p) == ReaderEnds(p) /\ UNCHANGED <<up, appVars, poll, viewers, spent>>

Next ==
  \/ UiStep \/ Tick \/ (\E p \in Pipes : Reader(p))
  \/ (Command \/ HostStatus) /\ UNCHANGED <<up, poll, viewers>>
  \/ ServerMoves /\ KeepViewers
  \/ PollAnswered \/ ViewersMove \/ AppCrashes \/ AppStarts

\* A thread that can go on does: the UI thread with its action and its messages
\* (the timer's among them), the two readers, the poll thread.
Fairness ==
  /\ WF_vars(UiStep) /\ WF_vars(Tick) /\ WF_vars(PollAnswered)
  /\ \A p \in Pipes : WF_vars(Reader(p))
Spec == Init /\ [][Next]_vars /\ Fairness

-----------------------------------------------------------------------------
\* At most one poll is under way, and m_polling says whether one is: it counts
\* from the tick that starts the thread to the message that brings its answer.
PollsAreSingle ==
  /\ DesktopTypeOK
  /\ up => LET answers == Cardinality({i \in DOMAIN posted : posted[i].kind = "poll"})
           IN  answers + (IF poll # NoPoll THEN 1 ELSE 0) = IF polling THEN 1 ELSE 0

\* While the app says the viewer link was copied, the link in the clipboard names
\* the room, token and port of the session, through every way a session changes.
CopiedLinkIsCurrent ==
  up /\ "viewerUrlCopied" \in session.flags =>
    copied.room = Config.room /\ copied.token = Config.token /\ copied.port = Config.port

\* A page state of "stopped" is the stop's own: whenever the UI thread is free
\* again no server of ours runs under it.
StoppedMeansStopped == Ready /\ hostPage = "stopped" => ~IsRunning

\* What the app shows of its own doing is so: the two properties above.
ShownIsSo == CopiedLinkIsCurrent /\ StoppedMeansStopped

\* Every call of Start or Stop returns, though the child may resist being
\* terminated and write without end: the readers it joins come to an end.
CallsReturn == []<>(job = Idle \/ ~up)

\* When commands and viewers come to rest, the count the app shows becomes and
\* stays the count of the server it runs, if that serves the session's port.
CountsConverge == <>[](Ready /\ Bound /\ child.port = Config.port => lastViewers = viewers)

\* The app comes to rest, and at rest shows what is there.
AppSettles == CallsReturn /\ CountsConverge
=============================================================================
