---------------------------- MODULE NetworkHost ----------------------------
(* The window and the machine's network: the refresh of the address, the       *)
(* hotspot, the diagnosis of the viewers' path and what is made of it, the     *)
(* share bundle on the disk, a page of it in a browser and the snapshot of the *)
(* admin page (MainWindow.cpp with host_runtime_refresh_pipeline.cpp and       *)
(* network_actions_win.cpp). The UI thread runs one handler at a time, each    *)
(* a sequence of probes that the machine may change between. The server is     *)
(* here only what the probes see of it; DesktopHost has its life.              *)
EXTENDS ShareBundle

CONSTANTS Adapters,        \* the machine's adapters, in its order
          HotspotAdapter,  \* the index of the one that a hotspot brings up
          HostedSupported, \* what the Wi-Fi driver says of hosted networks
          Firewalls,       \* the states of the firewall
          Binds,           \* what is written in the bind field
          MaxProbes,       \* the candidates that are probed: 4 in the code
          MaxMoves,        \* bound: changes of the machine and calls that fail
          MaxCommands      \* bound: commands given

ASSUME NetworkAssumption ==
  /\ Adapters \in Seq(Range(Adapters)) /\ \A i \in DOMAIN Adapters : IsAdapter(Adapters[i])
  /\ HotspotAdapter \in DOMAIN Adapters /\ HostedSupported \in BOOLEAN /\ Binds \subseteq Int
  /\ {MaxProbes, MaxMoves, MaxCommands} \subseteq Nat

VARIABLES machine, \* the adapters that are up, the server and the firewall
          win,     \* m_hostIp, m_networkMode, the hotspot and bind members
          slots,   \* m_networkCandidateIps
          todo,    \* what is left of the handler the UI thread is in
          found,   \* the refresh in progress
          look,    \* the diagnosis in progress
          files,   \* the share bundle
          opened,  \* the page of the bundle that is open in a browser
          page,    \* the snapshot the admin page has
          spent,   \* how much of the bounds is used
          wanted   \* ghost: the address the user chose last, if no refresh or hotspot came after it
vars == <<machine, win, slots, todo, found, look, files, opened, page, spent, wanted>>

Exe == "ViewMeshServer.exe"
Port == "port"
Servers == {"stopped", "taken", "starting", "serving"}
\* The bind field is free text: 0.0.0.0, an address (a number, like any other
\* address), or "*" and "localhost", which the window knows and the server does
\* not. Any other text is like an address that the machine does not have.
AnyBind == -2
Star == -3
Localhost == -4
Ips == {Adapters[i].ip : i \in DOMAIN Adapters} \cup {NoIp}

AdaptersAt == [up \in SUBSET DOMAIN Adapters |-> Kept(Adapters, up)]
UpAdapters(m) == AdaptersAt[m.up]
CandidatesAt == [up \in SUBSET DOMAIN Adapters |-> CollectActiveIpv4Candidates(AdaptersAt[up])]
Candidates(m) == CandidatesAt[m.up]
WifiPresent == \E i \in DOMAIN Adapters : Adapters[i].kind = "wifi"
Running(m) == m.server \in {"starting", "serving"}
HotspotOn(m) == HotspotAdapter \in m.up
HasIp(m, ip) == \E i \in m.up : Adapters[i].ip = ip
\* GET /health at an address of the machine, and at 127.0.0.1: what answers is
\* the server that runs, with the bind address it was started with.
Answers(m, ip) == m.server = "serving" /\ m.bind \in {AnyBind, ip} /\ HasIp(m, ip)
AnswersLocally(m) == m.server = "serving" /\ m.bind \in {AnyBind, Loopback}
\* A socket of the window's own, on the port and the bind address of the window.
CanBindTcpPort(m, bind) == m.server = "stopped" /\ (bind \in {AnyBind, Star, Loopback, Localhost} \/ HasIp(m, bind))
\* The server takes no name, and only an address of the machine.
CanListen(m) == m.bind \in {AnyBind, Loopback} \/ HasIp(m, m.bind)

-----------------------------------------------------------------------------
(* A diagnosis: CollectRuntimeDiagnostics. *)

\* The process, the port, the bind address the window has, and /health on the
\* loopback address, where a server with an address of its own does not answer.
\* The addresses are listed first and probed one by one.
\* calm, fresh: ghosts, the machine stood still since this look began, since
\* its probes.
BeginDiagnosis(m) ==
  [candidates |-> Candidates(m), running |-> Running(m),
   portReady |-> Running(m) \/ CanBindTcpPort(m, win.bind), lanBind |-> win.bind \notin {Loopback, Localhost},
   localHealth |-> Running(m) /\ AnswersLocally(m), probes |-> <<>>, reachable |-> FALSE, firewall |-> FALSE,
   calm |-> TRUE, fresh |-> TRUE]

ProbeCandidateHealth(m, ip, recommended, should) ==
  [ip |-> ip, recommended |-> recommended, selected |-> win.hostIp # NoIp /\ ip = win.hostIp, ready |-> should /\ Answers(m, ip)]
ProbeAll(m, d) ==
  LET should == d.running /\ d.localHealth /\ d.lanBind
      listed == SubSeq(d.candidates, 1, IF Len(d.candidates) < MaxProbes THEN Len(d.candidates) ELSE MaxProbes)
      first  == [i \in DOMAIN listed |-> ProbeCandidateHealth(m, listed[i].ip, listed[i].recommended, should)]
      seen   == \E i \in DOMAIN first : first[i].selected
  IN  first \o IF ~seen /\ d.running /\ win.hostIp # NoIp
               THEN <<ProbeCandidateHealth(m, win.hostIp, FALSE, d.localHealth /\ d.lanBind)>> ELSE <<>>
\* The probes, the plan over them, and the firewall once the last is back.
AnyReady(m, d) ==                          \* seeded fault: reachable when any address answers
  LET probes == ProbeAll(m, d)
  IN  [d EXCEPT !.probes = probes, !.reachable = \E i \in DOMAIN probes : probes[i].ready,
                !.firewall = d.running /\ ProbeFirewallReadiness(m.firewall, Exe, Port), !.fresh = TRUE]
Probe(m, d) ==
  LET probes == ProbeAll(m, d)
  IN  [d EXCEPT !.probes = probes, !.reachable = \E i \in DOMAIN probes : probes[i].selected /\ probes[i].ready,
                !.firewall = d.running /\ ProbeFirewallReadiness(m.firewall, Exe, Port), !.fresh = TRUE]
Diagnosis == <<"begin", "probe">>

\* BuildDesktopRuntimeSnapshot: the diagnosis with the window's members. The
\* host page is ready and nobody watches; AdminShell and DesktopHost have those.
Health(d) ==
  [running |-> d.running, portReady |-> d.portReady, localHealth |-> d.localHealth, lanBind |-> d.lanBind,
   reachable |-> d.reachable, active |-> Len(d.candidates), firewall |-> d.firewall, embedded |-> TRUE,
   recommended |-> win.hostIp # NoIp /\ d.candidates # <<>> => Head(d.candidates).ip = win.hostIp]
Session ==
  [hostIp |-> win.hostIp, hostState |-> "ready", wifi |-> win.wifi, hotspotSupported |-> win.hotspotSupported,
   hotspotRunning |-> win.hotspotRunning, wifiDirect |-> FALSE, viewers |-> 0, delivered |-> FALSE, started |-> TRUE]
BuildDesktopRuntimeSnapshot(d) ==
  [hostIp |-> win.hostIp, verdict |-> BuildNetworkDiagnosticsViewModel(Session, Health(d))]

-----------------------------------------------------------------------------
(* The handlers: what each has the UI thread do. *)

\* The diagnosis for the hidden text box is left out; the page is published
\* from one diagnosis for its candidates and another one for the rest.
PublishAdmin == Diagnosis \o <<"candidates">> \o Diagnosis \o <<"publish">>
RefreshShareInfo == Diagnosis \o <<"write">> \o PublishAdmin
RefreshHostRuntime == <<"info", "capabilities", "hotspot">> \o RefreshShareInfo

Nothing == [begin |-> FALSE]
NoCandidates == <<>>
NoSnapshot == [hostIp |-> NoIp, verdict |-> "none"]
Init ==
  /\ machine \in [up : SUBSET (DOMAIN Adapters \ {HotspotAdapter}), server : {"stopped"}, bind : {AnyBind}, firewall : Firewalls]
  /\ win = [hostIp |-> NoIp, mode |-> "unknown", bind |-> AnyBind, wifi |-> FALSE, hotspotSupported |-> FALSE,
            hotspotRunning |-> FALSE, hotspotStatus |-> "stopped"]
  /\ slots = [i \in 1..4 |-> NoIp]
  /\ todo = RefreshHostRuntime                      \* OnCreate
  /\ found = Nothing /\ look = Nothing /\ page = [candidates |-> NoCandidates, snapshot |-> NoSnapshot]
  /\ files = NoFiles /\ opened = Closed
  /\ spent = [moves |-> 0, commands |-> 0] /\ wanted = NoIp

Spend == spent.commands < MaxCommands /\ spent' = [spent EXCEPT !.commands = @ + 1]
Move == spent.moves < MaxMoves /\ spent' = [spent EXCEPT !.moves = @ + 1]
\* A call that may fail: a failure counts as a move.
Fails(bad) == IF bad THEN Move ELSE UNCHANGED spent
Idle == todo = <<>>
Doing(step) == todo # <<>> /\ Head(todo) = step /\ todo' = Tail(todo)

-----------------------------------------------------------------------------
(* The steps of the UI thread. *)

\* RunHostRuntimeRefreshPipeline: the address by the window's own rule, then by
\* the service's, what the driver can do, and the hotspot with an address again.
RefreshInfo ==
  /\ Doing("info")
  /\ LET info     == GetCurrentNetworkInfo(UpAdapters(machine))
         fallback == DetectBestIPv4(UpAdapters(machine))
     IN  found' = IF info.hostIp # NoIp THEN info
                  ELSE [hostIp |-> fallback, mode |-> IF fallback = NoIp THEN "unknown" ELSE "lan"]
  /\ UNCHANGED <<machine, win, slots, look, files, opened, page, spent, wanted>>

\* QueryCapabilities answers always: with the driver's word, or, when netsh
\* fails or is not understood, with "there is a Wi-Fi adapter".
QueryCapabilities(understood) == IF understood THEN HostedSupported ELSE WifiPresent
RefreshCapabilities ==
  /\ Doing("capabilities")
  /\ \E understood \in BOOLEAN :
       /\ Fails(~understood)
       /\ found' = [hostIp |-> found.hostIp, mode |-> found.mode, supported |-> QueryCapabilities(understood)]
  /\ UNCHANGED <<machine, win, slots, look, files, opened, page, wanted>>

\* A query that fails leaves the address of the first look and "not running";
\* one that answers brings the address of a second look, but not its mode.
QueryHotspotState(answered) ==
  LET again == GetCurrentNetworkInfo(UpAdapters(machine)).hostIp
  IN  [hostIp |-> IF answered /\ again # NoIp THEN again ELSE found.hostIp, hotspotRunning |-> answered /\ HotspotOn(machine),
       hotspotStatus |-> IF ~answered THEN "stopped" ELSE IF HotspotOn(machine) THEN "running"
                         ELSE IF ~HostedSupported THEN "system settings required" ELSE "stopped"]
RefreshHotspot ==
  /\ Doing("hotspot")
  /\ \E answered \in BOOLEAN :
       /\ Fails(~answered)
       /\ LET state == QueryHotspotState(answered)
          IN  win' = [win EXCEPT !.hostIp = state.hostIp, !.mode = found.mode, !.wifi = WifiPresent,
                                 !.hotspotSupported = found.supported, !.hotspotRunning = state.hotspotRunning,
                                 !.hotspotStatus = state.hotspotStatus]
  /\ found' = Nothing
  /\ UNCHANGED <<machine, slots, look, files, opened, page, wanted>>

CollectRuntimeDiagnostics ==
  /\ \/ Doing("begin") /\ look' = BeginDiagnosis(machine)
     \/ Doing("probe") /\ look' = Probe(machine, look)
  /\ UNCHANGED <<machine, win, slots, found, files, opened, page, spent, wanted>>

\* An export that fails is logged; a command that would open one of the pages
\* ends there.
Pages == [card |-> "open card", wizard |-> "open wizard", selfcheck |-> "open self check"]
Opens(steps) == steps # <<>> /\ \E kind \in PageKinds : Head(steps) = Pages[kind]
WriteShareArtifacts ==
  /\ todo # <<>> /\ Head(todo) = "write"
  /\ LET json == BuildShareBundleJson(Session, Health(look))
     IN  \E n \in 0..3, missed \in SUBSET Optional :
       /\ n < 3 => missed = {}
       /\ Fails(n < 3 \/ missed # {})
       /\ files' = ExportShareArtifacts(files, json, n, missed)
       /\ todo' = IF n < 3 /\ Opens(Tail(todo)) THEN Tail(Tail(todo)) ELSE Tail(todo)
  /\ look' = Nothing /\ UNCHANGED <<machine, win, slots, found, opened, page, wanted>>
OpenPath ==
  /\ \E kind \in PageKinds : Doing(Pages[kind]) /\ opened' = LoadPage(kind, files)
  /\ UNCHANGED <<machine, win, slots, found, look, files, page, spent, wanted>>

\* BuildAdminViewModelInput. Of the candidates only their addresses are kept.
TakeCandidates ==
  /\ Doing("candidates") /\ page' = [page EXCEPT !.candidates = [i \in DOMAIN look.probes |-> look.probes[i].ip]]
  /\ look' = Nothing /\ UNCHANGED <<machine, win, slots, found, files, opened, spent, wanted>>
PublishAdminShellRuntime ==
  /\ Doing("publish") /\ page' = [page EXCEPT !.snapshot = BuildDesktopRuntimeSnapshot(look)]
  /\ look' = Nothing /\ UNCHANGED <<machine, win, slots, found, files, opened, spent, wanted>>

UiStep ==
  \/ RefreshInfo \/ RefreshCapabilities \/ RefreshHotspot \/ CollectRuntimeDiagnostics
  \/ WriteShareArtifacts \/ OpenPath \/ TakeCandidates \/ PublishAdminShellRuntime

-----------------------------------------------------------------------------
(* The commands of the admin page and the clock. *)

Command(handler) == Idle /\ Spend /\ todo' = handler
Forget == wanted' = NoIp

RefreshNetwork ==
  /\ Command(RefreshHostRuntime) /\ Forget /\ UNCHANGED <<machine, win, slots, found, look, files, opened, page>>

\* The adapters' slots are filled for the native page only, which is never shown.
PreferHtmlAdminUi == TRUE
RefreshNetworkPage(candidates) ==
  IF PreferHtmlAdminUi THEN slots
  ELSE [i \in DOMAIN slots |-> IF i <= Len(candidates) THEN candidates[i].ip ELSE NoIp]
\* A click on a candidate the page lists; an empty slot is passed over.
SelectNetworkCandidate(i) ==
  /\ i \in DOMAIN page.candidates /\ page.candidates[i] # win.hostIp /\ wanted' = page.candidates[i]
  /\ Command(IF slots[i] = NoIp THEN PublishAdmin ELSE RefreshShareInfo)
  /\ slots' = RefreshNetworkPage(Candidates(machine))
  /\ win' = IF slots[i] = NoIp THEN win ELSE [win EXCEPT !.hostIp = slots[i]]
  /\ UNCHANGED <<machine, found, look, files, opened, page>>

\* The hosted network comes up or not; its state names the service's choice.
HotspotUnwritten(brings) == Command(PublishAdmin)      \* seeded fault: the share bundle is not written again
AfterHotspot(brings) == Command(RefreshShareInfo)
StartHotspot(understood, brings) ==
  LET supported == QueryCapabilities(understood)
      up        == IF supported /\ brings THEN machine.up \cup {HotspotAdapter} ELSE machine.up
      info      == GetCurrentNetworkInfo(UpAdapters([machine EXCEPT !.up = up]))
  IN  /\ AfterHotspot(brings) /\ Forget
      /\ machine' = [machine EXCEPT !.up = up]
      /\ win' = IF supported /\ brings
                THEN [win EXCEPT !.hotspotRunning = TRUE, !.hotspotStatus = "running", !.hostIp = IF info.hostIp # NoIp THEN info.hostIp ELSE @]
                ELSE [win EXCEPT !.hotspotRunning = FALSE,
                                 !.hotspotStatus = IF win.hotspotSupported THEN "start failed" ELSE "system settings required"]
      /\ UNCHANGED <<slots, found, look, files, opened, page>>
\* The address stays; the next refresh brings another one.
StopHotspot(answered) ==
  /\ Command(RefreshShareInfo)
  /\ machine' = IF answered THEN [machine EXCEPT !.up = @ \ {HotspotAdapter}] ELSE machine
  /\ win' = IF answered THEN [win EXCEPT !.hotspotRunning = FALSE, !.hotspotStatus = "stopped"] ELSE win
  /\ UNCHANGED <<slots, found, look, files, opened, page, wanted>>

\* The bind address is the window's at once, the running server's not at all.
ApplyAdminShellSessionRequest(bind) ==
  /\ bind # win.bind /\ Command(RefreshShareInfo) /\ win' = [win EXCEPT !.bind = bind]
  /\ UNCHANGED <<machine, slots, found, look, files, opened, page, wanted>>

\* PerformStartServerAction: an address is looked for first if there is none.
StartServer ==
  /\ ~Running(machine)
  /\ Command((IF win.hostIp = NoIp THEN RefreshHostRuntime ELSE <<>>) \o <<"start">> \o RefreshShareInfo)
  /\ UNCHANGED <<machine, win, slots, found, look, files, opened, page, wanted>>
LaunchServer ==
  /\ Doing("start")
  /\ machine' = IF CanBindTcpPort(machine, win.bind) THEN [machine EXCEPT !.server = "starting", !.bind = win.bind] ELSE machine
  /\ UNCHANGED <<win, slots, found, look, files, opened, page, spent, wanted>>
StopServer ==
  /\ Running(machine) /\ Command(RefreshShareInfo)
  /\ machine' = [machine EXCEPT !.server = "stopped"] /\ UNCHANGED <<win, slots, found, look, files, opened, page, wanted>>

\* ShowQr, ShowShareWizard and RunDesktopSelfCheck: the bundle is written and
\* one of its pages opened.
ExecuteHostAction(kind) ==
  /\ Command(Diagnosis \o <<"write", Pages[kind]>> \o (IF kind = "wizard" THEN RefreshShareInfo ELSE PublishAdmin))
  /\ UNCHANGED <<machine, win, slots, found, look, files, opened, page, wanted>>

\* Every second, and whenever a handler has ended.
TickUnpublished == Idle /\ todo' = <<>>                \* seeded fault: a tick leaves the page as it is
PublishOnTick == Idle /\ todo' = PublishAdmin
HandleRuntimeTick ==
  /\ PublishOnTick /\ UNCHANGED <<machine, win, slots, found, look, files, opened, page, spent, wanted>>

UserCommand ==
  \/ RefreshNetwork \/ StartServer \/ StopServer
  \/ \E i \in 1..4 : SelectNetworkCandidate(i)
  \/ \E kind \in PageKinds : ExecuteHostAction(kind)
  \/ \E understood, brings \in BOOLEAN : StartHotspot(understood, brings)
  \/ \E answered \in BOOLEAN : StopHotspot(answered)
  \/ \E bind \in Binds : ApplyAdminShellSessionRequest(bind)

-----------------------------------------------------------------------------
(* The open page: its timer and the links between the pages. *)

PagePolls ==
  /\ opened # Closed /\ opened' = LoadLiveStatus(opened, files)
  /\ UNCHANGED <<machine, win, slots, todo, found, look, files, page, spent, wanted>>
FollowLink ==
  /\ opened # Closed /\ \E kind \in {"card", "wizard"} \ {opened.kind} : opened' = LoadPage(kind, files)
  /\ Spend /\ UNCHANGED <<machine, win, slots, todo, found, look, files, page, wanted>>

-----------------------------------------------------------------------------
(* The machine, between any two steps of the UI thread. *)

MachineBecomes(m) ==
  /\ Move /\ machine' = m /\ look' = IF look = Nothing THEN look ELSE [look EXCEPT !.calm = FALSE, !.fresh = FALSE]
  /\ UNCHANGED <<win, slots, todo, found, files, opened, page, wanted>>
AdapterChanges == \E i \in DOMAIN Adapters : MachineBecomes([machine EXCEPT !.up = IF i \in @ THEN @ \ {i} ELSE @ \cup {i}])
ServerMoves ==
  \/ machine.server = "starting" /\ CanListen(machine) /\ MachineBecomes([machine EXCEPT !.server = "serving"])
  \/ machine.server \in {"starting", "serving"} /\ MachineBecomes([machine EXCEPT !.server = "stopped"])
  \/ machine.server \in {"stopped", "taken"}
     /\ MachineBecomes([machine EXCEPT !.server = IF @ = "taken" THEN "stopped" ELSE "taken"])
FirewallChanges == \E f \in Firewalls \ {machine.firewall} : MachineBecomes([machine EXCEPT !.firewall = f])

Next == UiStep \/ LaunchServer \/ UserCommand \/ HandleRuntimeTick \/ PagePolls \/ FollowLink \/ AdapterChanges \/ ServerMoves \/ FirewallChanges

\* The UI thread goes on with the handler it is in (these are the steps of
\* UiStep and LaunchServer), and the timer brings the next tick.
GoOn == todo # <<>> /\ todo' = Tail(todo)
Spec == Init /\ [][Next]_vars /\ WF_todo(GoOn) /\ WF_todo(PublishOnTick) /\ WF_opened(PagePolls)

-----------------------------------------------------------------------------
Steps == {"info", "capabilities", "hotspot", "begin", "probe", "write", "candidates", "publish", "start"} \cup Range(Pages)
\* The types of the machine, the window and the handler in progress.
NetworkTypeOK ==
  /\ machine \in [up : SUBSET DOMAIN Adapters, server : Servers, bind : Binds \cup {AnyBind}, firewall : Firewalls]
  /\ win \in [hostIp : Ips, mode : {"unknown", "lan", "wifi", "hotspot", "wifi-direct"}, bind : Binds \cup {AnyBind}, wifi : BOOLEAN,
              hotspotSupported : BOOLEAN, hotspotRunning : BOOLEAN, hotspotStatus : {"running", "stopped", "start failed", "system settings required"}]
  /\ slots \in [1..4 -> Ips] /\ Range(todo) \subseteq Steps /\ wanted \in Ips
  /\ opened.kind \in PageKinds \cup {"none"} /\ {opened.qr, opened.shown.link} \subseteq Ips \cup {Loopback}
  /\ look # Nothing => Health(look) \in Healths
  /\ spent \in [moves : 0..MaxMoves, commands : 0..MaxCommands]

\* Whether a viewer that opens the window's address is served: by what runs on
\* the machine and what the firewall lets through, whatever the window thinks.
ViewerGetsIn == Answers(machine, win.hostIp) /\ ProbeFirewallReadiness(machine.firewall, Exe, Port)

\* What the code is known to overlook. The window's bind field says loopback and
\* the server was started with another address; the server has an address of
\* its own and does not answer at 127.0.0.1; another address is first in a list
\* of several.
Overlooked ==
  \/ win.bind \in {Loopback, Localhost}
  \/ machine.bind # AnyBind
  \/ Len(Candidates(machine)) > 1 /\ Head(Candidates(machine)).ip # win.hostIp

\* What a report says that is about to be used is so (CollectRuntimeDiagnostics,
\* BuildRemoteProbePlan and the policy on top of them). If the machine stood
\* still since the probes, though it may have changed between the list and the
\* probes: the viewers' path is called ready only when a viewer gets in at the
\* window's address, be it one of the first candidates, an older one or none;
\* the handoff is ready only when the address answers; and an address that is
\* suggested answers while the selected one does not. If it stood still since
\* the look began: a viewer who gets in is called ready, but for the cases of
\* Overlooked; and the overall state is Ready only when the server serves and
\* there is an address. The machine, the window and the handler have their types.
ReportIsTrue ==
  /\ NetworkTypeOK
  /\ (todo # <<>> /\ Head(todo) \in {"write", "candidates", "publish"} /\ look.fresh) =>
       LET plan  == BuildRemoteProbePlan(look.probes)
           ready == RemoteViewerReady(Session, Health(look))
       IN  /\ ready => ViewerGetsIn
           /\ BuildHandoffSummary(Session, Health(look)) = "ready-for-handoff" => Answers(machine, win.hostIp)
           /\ plan.suggested # NoIp => Answers(machine, plan.suggested) /\ ~Answers(machine, win.hostIp)
           /\ look.calm /\ ViewerGetsIn => ready \/ Overlooked
           /\ look.calm /\ ComputeDashboardOverallState(Session, Health(look)) = "Ready" =>
                AnswersLocally(machine) /\ win.hostIp # NoIp

\* What the diagnosis asks for when it finds a loopback bind is enough: "Bind to
\* 0.0.0.0 or the selected LAN IPv4 address, then restart the server." A server
\* that runs with the window's bind address, the selected one, and that a viewer
\* gets in to is not reported as not ready, the adapters being in order.
AdvisedBindIsReady ==
  (/\ todo # <<>> /\ Head(todo) \in {"write", "candidates", "publish"} /\ look.calm
   /\ win.bind = win.hostIp /\ machine.bind = win.bind /\ Len(look.candidates) = 1 /\ ViewerGetsIn) =>
     RemoteViewerReady(Session, Health(look))

\* Between two handlers the files of the share bundle agree with each other and
\* with the window's address, and so does the page, whatever changed the
\* address: unless the last write failed, the card, the wizard and the JSON
\* are of one snapshot, and that snapshot has the window's address.
ArtifactsAgree ==
  /\ Idle /\ files.ok => files.card = files.wizard /\ files.wizard = files.json /\ files.json.hostIp = win.hostIp
  /\ Idle => page.snapshot.hostIp = win.hostIp

\* Once the machine and the user leave things alone, the page says for good what
\* is so: it calls the viewers' path ready only if a viewer gets in, and does so
\* then, but for the cases of Overlooked. The ticks bring what no command
\* published, and the mix of two diagnoses in one snapshot does not last.
PageCatchesUp ==
  <>[]LET ready == page.snapshot.verdict = "Viewer path looks ready"
      IN  page.snapshot # NoSnapshot /\ (ready => ViewerGetsIn) /\ (ViewerGetsIn => ready \/ Overlooked)

\* A page of the bundle that stays open ends up with the last export whose
\* status script was written, in what it shows and in its code, whichever file
\* it was opened from: the card's own test for a change must not miss one.
OpenPageCatchesUp ==
  <>[]((opened # Closed /\ files.live) =>
         /\ opened.shown = files.status
         /\ opened.kind # "selfcheck" => opened.qr = files.status.link)

\* Between two handlers the window's address is the one the user chose, if
\* nothing that brings an address of its own was asked for since
\* (SelectNetworkCandidate takes it from a slot that nobody fills).
ChosenIsSelected == (Idle /\ wanted # NoIp) => win.hostIp = wanted
=============================================================================
