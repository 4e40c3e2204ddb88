---------------------------- MODULE NativeShell ----------------------------
(* The tray shell of Linux (apps/linux_tray) over src/host_shell: one GTK      *)
(* thread that polls the service with two requests, keeps a menu and an icon,  *)
(* and starts and stops a server process of its own, waiting inside the click  *)
(* until the service answers or a deadline has passed.                         *)
EXTENDS ShellAlerts, FiniteSets

CONSTANTS MaxStarts,   \* bound: server processes forked
          MaxMoves,    \* bound: changes of the machine and of the viewers, and requests that time out
          MaxViewers,  \* bound: viewers connected at once
          Probes       \* polls of one wait, liveProbeTimeoutMs over liveProbeIntervalMs

ASSUME ShellAssumption == MaxStarts \in Nat /\ MaxMoves \in Nat /\ MaxViewers \in Nat /\ Probes \in Nat \ {0}

VARIABLES up,       \* whether the shell runs
          doing,    \* what the GTK thread is inside of
          at,       \* where in it
          tries,    \* polls the wait has made
          healthOk, \* the answer to /health of the poll under way
          last,     \* lastTick_: the sample shown, or NoTick
          memory,   \* the loop's alert memory
          notices,  \* the notifications of the last tick
          menu,     \* the menu items that can be clicked
          icon,     \* the indicator's icon
          desk,     \* what the desktop provides: symbols, icons, the server's program
          pid,      \* managedServerPid_, 0 for none
          proc,     \* the server processes forked
          other,    \* whether a server that is not ours serves the port
          viewers,  \* the viewers of the server on the port
          moves     \* how much of MaxMoves is used
shellVars == <<last, memory, notices, menu, icon>>
machineVars == <<other, viewers>>
vars == <<up, doing, at, tries, healthOk, shellVars, desk, pid, proc, machineVars, moves>>

NoTick == [running |-> FALSE, healthy |-> FALSE, attention |-> FALSE, viewers |-> MaxViewers + 1]
Pids == 1..MaxStarts
IconStates == {"base", "alert", "connected", "sharing"}
Items == {"openDashboard", "refreshDashboard", "openViewer", "startServer", "stopServer", "openDiagnostics", "exportDiagnostics", "quit"}

ShellTypeOK ==
  /\ up \in BOOLEAN /\ doing \in {"none", "tick", "refresh", "start", "stop", "quit"}
  /\ at \in {"health", "status", "terminate"} /\ tries \in 0..Probes /\ healthOk \in BOOLEAN
  /\ last \in Runtime /\ icon \in IconStates \cup {"fallback"} /\ memory \in Memory /\ menu \subseteq Items /\ pid \in 0..MaxStarts
  /\ proc \in [Pids -> {"unused", "starting", "serving", "zombie", "reaped"}]
  /\ viewers \in 0..MaxViewers /\ moves \in 0..MaxMoves

Serving(p) == proc[p] = "serving"
Served == other \/ \E p \in Pids : Serving(p)
KeepViewers == viewers' = IF other \/ \E p \in Pids : proc'[p] = "serving" THEN viewers ELSE 0
Idle == up /\ doing = "none"
Begin(what, where) == doing' = what /\ at' = where /\ tries' = 0

\* The libraries may be missing, or be an older version without some symbols.
OptionalSymbols == {"set_icon_full", "set_icon"}
RequiredSymbols == {"gtk", "app_indicator_new"}
LoadGtkApi(symbols) == RequiredSymbols \subseteq symbols

\* The first directory that has all four icons; of none, the empty path.
HasTrayIconSet(root) == IconStates \subseteq root
DiscoverLinuxIconRoot(roots) ==
  IF \E i \in DOMAIN roots : HasTrayIconSet(roots[i]) THEN IconStates ELSE {}
ResolveIconSpec(state) == state \in desk.icons
ResolveLinuxDefaultServerExecutable(candidates) == TRUE \in candidates   \* whether one of them exists

\* A desktop with everything, one with the bare minimum, one without GTK.
Desk(symbols, roots, candidates) ==
  [symbols |-> symbols, icons |-> DiscoverLinuxIconRoot(roots), server |-> ResolveLinuxDefaultServerExecutable(candidates)]
Desks == { Desk(RequiredSymbols \cup OptionalSymbols, <<{"base"}, IconStates>>, BOOLEAN),
           Desk(RequiredSymbols, <<{"base"}>>, {FALSE}), Desk(OptionalSymbols, <<>>, {FALSE}) }

\* main and Initialize: without the libraries there is no shell; the first tick
\* fills the menu before the main loop runs.
InitialIndicatorIcon == IF ResolveIconSpec("base") THEN "base" ELSE "fallback"
Init ==
  /\ desk \in Desks /\ up = LoadGtkApi(desk.symbols)
  /\ doing = "tick" /\ at = "health" /\ tries = 0 /\ healthOk = FALSE
  /\ last = NoTick /\ memory = NoMemory /\ notices = <<>> /\ menu = Items /\ icon = InitialIndicatorIcon
  /\ pid = 0 /\ proc = [p \in Pids |-> "unused"] /\ other \in BOOLEAN /\ viewers = 0 /\ moves = 0

Move == moves < MaxMoves /\ moves' = moves + 1

-----------------------------------------------------------------------------
(* A poll: /health, then /api/status, each with a connection of its own.       *)

\* A request succeeds only while the port is served; it may time out even then.
Answered(ok) ==
  \/ ok = Served /\ UNCHANGED moves
  \/ ~ok /\ Served /\ Move

Health ==
  /\ up /\ at = "health" /\ doing # "none"
  /\ \E ok \in BOOLEAN : Answered(ok) /\ healthOk' = ok
  /\ at' = "status"
  /\ UNCHANGED <<up, doing, tries, shellVars, desk, pid, proc, machineVars>>

\* The snapshot of PollNativeShellLive. The server's status always says that it
\* runs, so running is what either request saw.
Snapshot(health, status, n) ==
  [running |-> health \/ status, healthy |-> health, attention |-> ~health,
   viewers |-> IF status THEN n ELSE 0]

IsServerRunning == pid # 0 /\ proc[pid] \in {"starting", "serving", "zombie"}

SelectLinuxTrayIconState(c) ==
  IF c.attentionNeeded THEN "alert" ELSE IF c.viewerCount > 0 THEN "connected"
  ELSE IF c.serverRunning /\ c.hostStateSharing THEN "sharing" ELSE "base"

UpdateIndicatorIcon(c) ==
  icon' = IF ResolveIconSpec(SelectLinuxTrayIconState(c)) /\ desk.symbols \cap OptionalSymbols # {}
          THEN SelectLinuxTrayIconState(c) ELSE icon

MenuOfStable(r, m) ==                  \* seeded fault: a dead server of ours cannot be stopped
  LET stable == m.running.stable
  IN  {"quit"} \cup (IF stable THEN {"openDashboard", "refreshDashboard", "stopServer"} ELSE {"startServer"})
Menu(r, m) ==
  LET c == Chrome(r, m)
      stable == m.running.stable
      diagnostics == stable \/ c.attentionNeeded
      On(item, condition) == IF condition THEN {item} ELSE {}
  IN  {"quit"} \cup On("openDashboard", stable) \cup On("refreshDashboard", stable)
      \cup On("openViewer", stable /\ m.health.stable /\ "copyViewerUrl" \in BuildTrayMenuViewModel(c))
      \cup On("startServer", ~stable) \cup On("stopServer", stable \/ IsServerRunning)
      \cup On("openDiagnostics", diagnostics) \cup On("exportDiagnostics", diagnostics \/ m.viewers.stable > 0)

\* NativeShellRuntimeLoop::Tick and ApplyTick.
Tick(r) ==
  LET t == TickNativeShellAlerts(r, memory)
  IN  /\ last' = r /\ memory' = t.memory /\ notices' = t.notices
      /\ menu' = Menu(r, t.memory)
      /\ UpdateIndicatorIcon(Chrome(r, t.memory))

ThenTick == Begin("tick", "health")

WaitForever(ready, expired) ==         \* seeded fault: the deadline is not looked at
  IF ready THEN ThenTick ELSE at' = "health" /\ UNCHANGED <<doing, tries>>
\* WaitForLiveCondition: the wait goes on until its condition or its deadline.
WaitForLiveCondition(ready, expired) ==
  IF ready THEN ThenTick
  ELSE IF tries + 1 < Probes THEN at' = "health" /\ tries' = tries + 1 /\ UNCHANGED doing
  ELSE expired

Status ==
  /\ up /\ at = "status"
  /\ \E ok \in BOOLEAN :
       /\ Answered(ok)
       /\ LET r == Snapshot(healthOk, ok, viewers)
          IN  CASE doing = "tick"    -> Tick(r) /\ Begin("none", "health")
                [] doing = "refresh" -> ThenTick /\ UNCHANGED shellVars
                [] doing = "start"   -> WaitForLiveCondition(healthOk /\ ok, Begin("start", "terminate")) /\ UNCHANGED shellVars
                [] doing = "stop"    -> WaitForLiveCondition(~healthOk /\ ~ok, ThenTick) /\ UNCHANGED shellVars
  /\ healthOk' = FALSE
  /\ UNCHANGED <<up, desk, pid, proc, machineVars>>

-----------------------------------------------------------------------------
(* The clicks, each of which ends with a tick.                                 *)

OnPoll == Idle /\ ThenTick /\ UNCHANGED <<up, healthOk, shellVars, desk, pid, proc, machineVars, moves>>

\* Opening a page or a folder leaves the shell as it is, whether it goes well or
\* not; so does writing the texts of the last tick to a diagnostics file, of which
\* a full disk leaves a part.
OnOpen ==
  /\ Idle /\ menu \cap {"openDashboard", "openViewer", "openDiagnostics"} # {}
  /\ ThenTick
  /\ UNCHANGED <<up, healthOk, shellVars, desk, pid, proc, machineVars, moves>>
OnExportDiagnostics ==
  /\ Idle /\ "exportDiagnostics" \in menu /\ last # NoTick
  /\ ThenTick
  /\ UNCHANGED <<up, healthOk, shellVars, desk, pid, proc, machineVars, moves>>

OnRefreshDashboard ==
  /\ Idle /\ "refreshDashboard" \in menu
  /\ Begin("refresh", "health")
  /\ UNCHANGED <<up, healthOk, shellVars, desk, pid, proc, machineVars, moves>>

\* StartServer refuses while a process is managed, dead or alive; the fork may
\* fail or the server may not be installed.
OnStartServer ==
  /\ Idle /\ "startServer" \in menu
  /\ \/ ThenTick /\ UNCHANGED <<pid, proc>>
     \/ /\ pid = 0 /\ desk.server
        /\ \E p \in Pids : /\ proc[p] = "unused" /\ \A q \in 1..(p - 1) : proc[q] # "unused"
                           /\ pid' = p /\ proc' = [proc EXCEPT ![p] = "starting"]
        /\ Begin("start", "health")
  /\ UNCHANGED <<up, healthOk, shellVars, desk, machineVars, moves>>

OnStopServer ==
  /\ Idle /\ "stopServer" \in menu
  /\ IF pid = 0 THEN ThenTick ELSE Begin("stop", "terminate")
  /\ UNCHANGED <<up, healthOk, shellVars, desk, pid, proc, machineVars, moves>>

\* OnQuit ends the main loop, and the app's destructor cleans its server up.
OnQuit ==
  /\ Idle
  /\ IF pid = 0 THEN up' = FALSE /\ UNCHANGED <<doing, at, tries>> ELSE Begin("quit", "terminate") /\ UNCHANGED up
  /\ UNCHANGED <<healthOk, shellVars, desk, pid, proc, machineVars, moves>>

Forget ==                              \* seeded fault: the process is left to itself
  /\ up /\ at = "terminate" /\ pid' = 0
  /\ up' = (doing # "quit")
  /\ IF doing = "stop" THEN Begin("stop", "health") ELSE ThenTick
  /\ UNCHANGED <<healthOk, shellVars, desk, proc, machineVars, moves>>
\* TerminateServerProcess, of StopServer and CleanupManagedServer: SIGTERM, and
\* SIGKILL after two seconds; either way the process is waited for. (The signal
\* reaches every process that is not waited for yet, a dead one too.)
Terminate ==
  /\ up /\ at = "terminate"
  /\ proc' = [proc EXCEPT ![pid] = "reaped"] /\ pid' = 0
  /\ up' = (doing # "quit")
  /\ IF doing = "stop" THEN Begin("stop", "health") ELSE ThenTick
  /\ KeepViewers
  /\ UNCHANGED <<healthOk, shellVars, desk, other, moves>>

-----------------------------------------------------------------------------
(* The machine.                                                                *)

MachineKeeps == UNCHANGED <<up, doing, at, tries, healthOk, shellVars, desk, pid>>

\* A server takes the port and serves; one that cannot have it ends.
ChildListens(p) ==
  /\ proc[p] = "starting"
  /\ proc' = [proc EXCEPT ![p] = IF Served THEN "zombie" ELSE "serving"]
  /\ MachineKeeps /\ UNCHANGED <<machineVars, moves>>
ChildExits(p) ==
  /\ proc[p] \in {"starting", "serving"} /\ Move
  /\ proc' = [proc EXCEPT ![p] = "zombie"] /\ KeepViewers
  /\ MachineKeeps /\ UNCHANGED other
OtherServes ==
  /\ Move /\ other' = ~other /\ (other' => ~Served) /\ viewers' = 0
  /\ MachineKeeps /\ UNCHANGED proc
ViewersMove ==
  /\ Served /\ Move /\ viewers' \in {n \in 0..MaxViewers : n = viewers + 1 \/ n + 1 = viewers}
  /\ MachineKeeps /\ UNCHANGED <<proc, other>>

Thread == Health \/ Status \/ Terminate \/ OnPoll
Click == OnOpen \/ OnExportDiagnostics \/ OnRefreshDashboard \/ OnStartServer \/ OnStopServer \/ OnQuit
Machine == (\E p \in Pids : ChildListens(p) \/ ChildExits(p)) \/ OtherServes \/ ViewersMove

Next == Thread \/ Click \/ Machine

\* The GTK thread goes on with what it does, and a timer that is due fires.
Spec == Init /\ [][Next]_vars /\ WF_vars(Thread)

-----------------------------------------------------------------------------
\* No server process gets lost: one that was forked and not waited for is the
\* managed one, and none is left when the shell has quit.
NoServerLost ==
  /\ ShellTypeOK
  /\ \A p \in Pids : proc[p] \in {"starting", "serving", "zombie"} => up /\ pid = p

\* A managed process can be stopped from the menu, even when it is dead and the
\* samples call the service stopped: StartServer would refuse for ever.
StopIsOffered == Idle /\ pid # 0 => "stopServer" \in menu

\* A shown value changes only to what this sample and the one before it say:
\* one odd answer to a poll moves neither the menu nor the notifications.
ChangesAreDebounced ==
  [][memory.initialized =>
       /\ memory'.running.stable # memory.running.stable => {last.running, last'.running} = {memory'.running.stable}
       /\ memory'.health.stable # memory.health.stable => {last.healthy, last'.healthy} = {memory'.health.stable}
       /\ memory'.viewers.stable # memory.viewers.stable => {last.viewers, last'.viewers} = {memory'.viewers.stable}]_vars

\* Every click comes to an end, though the service may never come up or never go
\* away; only a peer that takes a request and leaves it unanswered is left out.
ClicksReturn == []<>(doing = "none" \/ ~up)

\* When the machine comes to rest, the shell shows the service as it is.
ShellConverges == <>[](up => memory.running.stable = Served /\ memory.health.stable = Served /\ memory.viewers.stable = viewers)

\* Both: the shell comes back from every click and ends up with what is there.
ShellSettles == ClicksReturn /\ ShellConverges
=============================================================================
