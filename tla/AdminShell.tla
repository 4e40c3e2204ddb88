----------------------------- MODULE AdminShell -----------------------------
(* The window of the desktop host as a shell around its HTML admin page: the   *)
(* tray icon, the plans of host_shell_lifecycle_coordinator.cpp that show,     *)
(* hide and destroy it, the WebView that is created late and may fail, and the *)
(* messages and snapshots that the page and the window exchange. A handler of  *)
(* the window is a function from its state to its state, as the UI thread runs *)
(* it to its end; the server is DesktopHost's, of which four states count here.*)
EXTENDS Naturals, Sequences, SequencesExt

CONSTANTS Pages,    \* the pages besides the dashboard
          MaxMoves  \* bound: what users and the machine do

ASSUME AdminAssumption == "dashboard" \notin Pages /\ MaxMoves \in Nat

VARIABLES w,       \* the window's and its WebView's state
          tab,     \* activeTab, of the page in the WebView
          shown,   \* whether that page shows the server as running
          posted,  \* what is posted to the window: the page's messages, poll results
          polling, \* m_polling, until the poll has its answer
          moves    \* how much of MaxMoves is used
vars == <<w, tab, shown, posted, polling, moves>>

AllPages == Pages \cup {"dashboard"}
Surfaces == {"Hidden", "HostPreview", "HtmlAdminPreview"}
Commands == {"ready", "request-snapshot", "start-server", "stop-server"}
Messages == {<<c>> : c \in Commands \cup {"poll", "poll-failed"}} \cup {<<"switch-page", p>> : p \in AllPages}

\* added, balloonShown: the tray icon; page: m_currentPage; surface: m_webviewMode;
\* ready, navigated: m_adminShellReady, m_htmlAdminNavigated; error: whether
\* m_shellStartupError holds one; recent: less than 1200 ms since the last
\* navigation; status: the WebView's ("stuck" reads "initializing" for good);
\* pending: its pendingUrl; shows: what it displays; toPage: what it was given to post.
Windows ==
  [machine : [blocked : BOOLEAN, runtime : BOOLEAN, taskbar : BOOLEAN, bundle : BOOLEAN],
   alive : BOOLEAN, visible : BOOLEAN, added : BOOLEAN, balloonShown : BOOLEAN, exiting : BOOLEAN,
   page : AllPages, surface : Surfaces, ready : BOOLEAN, navigated : BOOLEAN, error : BOOLEAN, recent : BOOLEAN,
   status : {"none", "initializing", "stuck", "ready", "runtime-unavailable", "controller-unavailable"},
   pending : BOOLEAN, shows : {"blank", "loading", "error", "admin"}, fallback : BOOLEAN,
   server : {"stopped", "starting", "serving"}, toPage : Seq([page : AllPages, running : BOOLEAN])]

AdminTypeOK ==
  /\ w \in Windows
  /\ tab \in AllPages /\ shown \in BOOLEAN /\ posted \in Seq(Messages) /\ polling \in BOOLEAN /\ moves \in 0..MaxMoves

-----------------------------------------------------------------------------
(* The WebView and what it is told to show: WebViewHost.cpp, WebViewShell-     *)
(* Adapter.cpp.                                                                *)

\* A WebView that failed is thrown away with the URL it still had to open, and
\* created anew; without the runtime that fails at once.
Initialize[s \in Windows] ==
  IF s.status \in {"initializing", "stuck", "ready"} THEN s
  ELSE [s EXCEPT !.pending = FALSE, !.shows = "blank",
                 !.status = IF s.machine.runtime THEN "initializing" ELSE "runtime-unavailable"]

Navigate[s \in Windows] ==
  IF s.status = "ready" THEN [s EXCEPT !.shows = "loading", !.toPage = <<>>]
  ELSE [s EXCEPT !.pending = s.status # "none"]

BuildWebViewHostNavigationPlan(s) ==
  [surface |-> "HostPreview", ready |-> s.ready, navigated |-> FALSE, ensureInitialized |-> TRUE, navigate |-> TRUE]
BuildWebViewHtmlAdminNavigationPlan(s) ==
  [surface |-> "HtmlAdminPreview", ready |-> FALSE, navigated |-> TRUE, ensureInitialized |-> TRUE, navigate |-> TRUE]
BuildWebViewRestorePlan(s) ==
  CASE s.surface = "HostPreview" -> BuildWebViewHostNavigationPlan(s)
    [] s.surface = "HtmlAdminPreview" /\ ~s.navigated -> BuildWebViewHtmlAdminNavigationPlan(s)
    [] s.surface = "HtmlAdminPreview" /\ s.navigated ->
         [surface |-> s.surface, ready |-> s.ready, navigated |-> TRUE, ensureInitialized |-> TRUE, navigate |-> FALSE]
    [] OTHER -> [surface |-> "Hidden", ready |-> FALSE, navigated |-> FALSE, ensureInitialized |-> FALSE, navigate |-> FALSE]

ApplyWebViewShellPlan(s, plan) ==
  LET planned == [s EXCEPT !.surface = plan.surface, !.ready = plan.ready, !.navigated = plan.navigated]
      there == IF plan.ensureInitialized THEN Initialize[planned] ELSE planned
  IN  IF plan.navigate THEN Navigate[there] ELSE there

-----------------------------------------------------------------------------
(* The window's helpers: MainWindow.cpp. *)

IsRunning(s) == s.server # "stopped"
PerformStartServerAction[s \in Windows] ==
  IF IsRunning(s) \/ s.machine.blocked THEN s ELSE [s EXCEPT !.server = "starting"]
StartOk(s) == IsRunning(PerformStartServerAction[s])

PreferHtmlAdminUi == TRUE
IsHtmlAdminActive(s) == s.surface = "HtmlAdminPreview" /\ PreferHtmlAdminUi

OfferOnError(s) == s.surface = "HtmlAdminPreview" /\ (s.error \/ ~s.machine.bundle)   \* seeded fault: a WebView that fails is not told
\* BuildShellFallbackViewModel decides, RefreshShellFallback shows or hides it.
ShowFallback(s) == s.surface = "HtmlAdminPreview" /\ (s.error \/ ~s.machine.bundle \/ s.status # "ready")
RefreshShellFallback[s \in Windows] == [s EXCEPT !.fallback = ShowFallback(s)]

NavigateHtmlAdminInWebView[s \in Windows] ==
  LET waiting == [s EXCEPT !.surface = "HtmlAdminPreview", !.ready = FALSE, !.navigated = FALSE]
      started == [PerformStartServerAction[waiting] EXCEPT !.error = FALSE]
  IN  IF StartOk(waiting)
      THEN [ApplyWebViewShellPlan(started, BuildWebViewHtmlAdminNavigationPlan(started)) EXCEPT !.recent = TRUE]
      ELSE RefreshShellFallback[[waiting EXCEPT !.error = TRUE]]

NavigateHostInWebView[s \in Windows] == ApplyWebViewShellPlan(s, BuildWebViewHostNavigationPlan(s))

RestoreWebViewShellState[s \in Windows] ==
  LET starts == s.surface = "HtmlAdminPreview" /\ ~IsRunning(s)
      started == IF starts THEN [PerformStartServerAction[s] EXCEPT !.error = FALSE] ELSE s
  IN  IF starts /\ ~StartOk(s)
      THEN RefreshShellFallback[[s EXCEPT !.error = TRUE]]
      ELSE ApplyWebViewShellPlan(started, BuildWebViewRestorePlan(started))

RetryWhenReady(s, confirmed) ==        \* seeded fault: the page that is up is the one opened again
  IF /\ IsHtmlAdminActive(s) /\ s.ready /\ s.navigated
     /\ IsRunning(s) /\ s.status = "ready" /\ ~s.recent
     /\ confirmed \/ s.server = "serving"
  THEN [Navigate[s] EXCEPT !.recent = TRUE] ELSE s
RetryAll(s, confirmed) ==              \* seeded fault: a retry is a whole new navigation
  IF IsHtmlAdminActive(s) /\ ~s.ready /\ ~s.recent THEN NavigateHtmlAdminInWebView[s] ELSE s
\* A page that was opened and never said it is ready is opened again, at most
\* every 1200 ms, once the server answers.
RetryHtmlAdminNavigationIfNeeded(s, confirmed) ==
  IF /\ IsHtmlAdminActive(s) /\ ~s.ready /\ s.navigated
     /\ IsRunning(s) /\ s.status = "ready" /\ ~s.recent
     /\ confirmed \/ s.server = "serving"
  THEN [Navigate[s] EXCEPT !.recent = TRUE] ELSE s

\* A snapshot equal to the last one on its way is that one: rendering is idempotent.
Snapshot(s) == [page |-> s.page, running |-> IsRunning(s)]
PublishAdminShellRuntime[s \in Windows] ==
  IF /\ IsHtmlAdminActive(s) /\ s.ready /\ s.status = "ready"
     /\ s.toPage = <<>> \/ Last(s.toPage) # Snapshot(s)
  THEN [s EXCEPT !.toPage = Append(@, Snapshot(s))] ELSE s

RefreshHtmlAdminPreview[s \in Windows] ==
  RefreshShellFallback[PublishAdminShellRuntime[RetryHtmlAdminNavigationIfNeeded(s, FALSE)]]

ResolveDesktopLayoutSurfaceMode(s) ==
  IF PreferHtmlAdminUi THEN "HtmlAdminPreview"
  ELSE IF s.page = "setup" /\ IsRunning(s) THEN "HostPreview" ELSE "Hidden"

SetPage(s, page) ==
  LET paged == [s EXCEPT !.page = page]
      mode == ResolveDesktopLayoutSurfaceMode(paged)
      surfaced ==
        CASE mode = "HtmlAdminPreview" /\ (~s.navigated \/ s.surface # mode) -> NavigateHtmlAdminInWebView[paged]
          [] mode = "HostPreview" -> NavigateHostInWebView[paged]
          [] OTHER -> [paged EXCEPT !.surface = mode]
  IN  RefreshHtmlAdminPreview[RefreshShellFallback[surfaced]]

TrySetPageFromAdminTab(s, page) == IF page = s.page THEN s ELSE SetPage(s, page)

-----------------------------------------------------------------------------
(* The tray icon and the plans: ShellEffectExecutor.cpp, host_shell_lifecycle_ *)
(* coordinator.cpp.                                                            *)

\* The balloon that is pending is shown with the next update.
UpdateTrayIcon[s \in Windows] == IF s.added THEN [s EXCEPT !.balloonShown = TRUE] ELSE s
CreateTrayIcon[s \in Windows] ==
  IF s.added \/ ~s.machine.taskbar THEN s ELSE UpdateTrayIcon[[s EXCEPT !.added = TRUE, !.balloonShown = TRUE]]
RemoveTrayIcon[s \in Windows] == [s EXCEPT !.added = FALSE]

UpdateUiState[s \in Windows] == UpdateTrayIcon[RefreshShellFallback[RefreshHtmlAdminPreview[s]]]

\* A host action: what it does to the server, then ApplyHostActionResult.
StartServer[s \in Windows] == UpdateUiState[RefreshHtmlAdminPreview[PerformStartServerAction[s]]]
StopServer[s \in Windows] == UpdateUiState[RefreshHtmlAdminPreview[[s EXCEPT !.server = "stopped"]]]

HiddenQuietly(event, exiting) ==       \* seeded fault: the icon is not updated with the hiding
  CASE event = "startup" -> {"setDashboardPage", "createTrayIcon", "updateUiState"}
    [] event = "show"    -> {"show", "ensureWebViewInitialized", "refreshHtmlAdminPreview", "updateTrayIcon"}
    [] event = "restore" -> {"setDashboardPage", "show", "ensureWebViewInitialized", "refreshHtmlAdminPreview", "updateTrayIcon"}
    [] event \in {"minimize", "close"} -> {"hide", "markTrayBalloonPending"}
    [] event = "destroy" -> {"removeTrayIcon", "stopServer"}
    [] event = "trayExit" -> {"markExitRequested", "destroyWindow"}
CoordinateHostShellLifecycle(event, exiting) ==
  CASE event = "startup" -> {"setDashboardPage", "createTrayIcon", "updateUiState"}
    [] event = "show"    -> {"show", "ensureWebViewInitialized", "refreshHtmlAdminPreview", "updateTrayIcon"}
    [] event = "restore" -> {"setDashboardPage", "show", "ensureWebViewInitialized", "refreshHtmlAdminPreview", "updateTrayIcon"}
    [] event = "minimize" \/ (event = "close" /\ ~exiting) -> {"hide", "markTrayBalloonPending", "updateTrayIcon"}
    [] event = "close" /\ exiting -> {"destroyWindow"}
    [] event = "destroy" -> {"removeTrayIcon", "stopServer"}
    [] event = "trayExit" -> {"markExitRequested", "destroyWindow"}

Effect(s, effect) ==
  CASE effect = "markExitRequested"        -> [s EXCEPT !.exiting = TRUE]
    [] effect = "markTrayBalloonPending"   -> [s EXCEPT !.balloonShown = FALSE]
    [] effect = "setDashboardPage"         -> SetPage(s, "dashboard")
    [] effect = "show"                     -> [s EXCEPT !.visible = TRUE]
    [] effect = "hide"                     -> [s EXCEPT !.visible = FALSE]
    [] effect = "ensureWebViewInitialized" -> RefreshShellFallback[RestoreWebViewShellState[s]]
    [] effect = "createTrayIcon"           -> CreateTrayIcon[s]
    [] effect = "updateUiState"            -> UpdateUiState[RefreshHtmlAdminPreview[s]]
    [] effect = "refreshHtmlAdminPreview"  -> RefreshHtmlAdminPreview[s]
    [] effect = "updateTrayIcon"           -> UpdateTrayIcon[s]
    [] effect = "removeTrayIcon"           -> RemoveTrayIcon[s]
    [] effect = "stopServer"               -> StopServer[s]

\* ApplyHostShellLifecyclePlan looks for one effect after the other in the plan.
EffectOrder ==
  <<"markExitRequested", "markTrayBalloonPending", "setDashboardPage", "show", "hide", "ensureWebViewInitialized",
    "createTrayIcon", "updateUiState", "refreshHtmlAdminPreview", "updateTrayIcon", "removeTrayIcon", "stopServer">>
Do(plan, s, e) == IF e \in plan THEN Effect(s, e) ELSE s
Effects(s, plan) ==
  LET After[n \in 0..Len(EffectOrder)] == IF n = 0 THEN s ELSE Do(plan, After[n - 1], EffectOrder[n])
  IN  After[Len(EffectOrder)]

\* DestroyWindow comes last, and sends WM_DESTROY: OnDestroy's plan, then the end.
OnDestroy[s \in Windows] == [Effects(s, CoordinateHostShellLifecycle("destroy", s.exiting)) EXCEPT !.alive = FALSE]
ApplyHostShellLifecyclePlan(s, plan) ==
  IF "destroyWindow" \in plan THEN OnDestroy[Effects(s, plan)] ELSE Effects(s, plan)
Lifecycle(s, event) == ApplyHostShellLifecyclePlan(s, CoordinateHostShellLifecycle(event, s.exiting))

\* The commands of the tray's menu; of the two server commands it offers one.
BuildTrayMenuViewModel(s) == IF IsRunning(s) THEN {"stopSharing"} ELSE {"startSharing"}
ExecuteTrayShellCommand(s, kind) ==
  CASE kind = "openDashboard" -> Lifecycle(s, "restore")
    [] kind = "startSharing"  -> StartServer[Lifecycle(s, "restore")]
    [] kind = "stopSharing"   -> StopServer[s]
    [] kind = "exitApp"       -> Lifecycle(s, "trayExit")

-----------------------------------------------------------------------------
(* The window's messages. *)

Move == moves < MaxMoves /\ moves' = moves + 1
Window(now) == w.alive /\ w' = now
KeepPage == UNCHANGED <<tab, shown>>

NewWindow(machine) ==
  [machine |-> machine, alive |-> TRUE, visible |-> FALSE, added |-> FALSE, balloonShown |-> FALSE, exiting |-> FALSE,
   page |-> "dashboard", surface |-> "Hidden", ready |-> FALSE, navigated |-> FALSE, error |-> FALSE, recent |-> FALSE,
   status |-> "none", pending |-> FALSE, shows |-> "blank", fallback |-> FALSE, server |-> "stopped", toPage |-> <<>>]

\* Create runs OnCreate inside, then App::Run shows the window.
Init ==
  /\ \E machine \in [blocked : BOOLEAN, runtime : BOOLEAN, taskbar : BOOLEAN, bundle : BOOLEAN] :
       w = Lifecycle(Lifecycle(NewWindow(machine), "startup"), "show")
  /\ tab = "dashboard" /\ shown = FALSE /\ posted = <<>> /\ polling = FALSE /\ moves = 0

\* WM_SIZE and WM_CLOSE, the tray's click, the wake of a second launch and the
\* tray's commands; the fallback's buttons that start the server or try again.
WindowMessage ==
  /\ Move
  /\ \/ w.visible /\ \E e \in {"minimize", "close"} : Window(Lifecycle(w, e))
     \/ Window(Lifecycle(w, "restore"))
     \/ w.added /\ \E k \in {"openDashboard", "exitApp"} \cup BuildTrayMenuViewModel(w) : Window(ExecuteTrayShellCommand(w, k))
     \/ w.visible /\ w.fallback /\ Window(RefreshShellFallback[NavigateHtmlAdminInWebView[w]])
     \/ w.visible /\ w.fallback /\ ~IsRunning(w) /\ Window(StartServer[w])
  /\ KeepPage /\ UNCHANGED <<posted, polling>>

\* WM_TIMER comes only to a queue without posted messages; a tick polls a server
\* that runs unless a poll is under way.
HandleRuntimeTick ==
  /\ posted = <<>> /\ Window(UpdateUiState[w]) /\ polling' = (polling \/ IsRunning(w))
  /\ KeepPage /\ UNCHANGED <<posted, moves>>

\* A poll that was answered 200 confirms the service, whatever it does by now.
HandlePollResult(s, m) == RetryHtmlAdminNavigationIfNeeded(s, m = <<"poll">>)

\* HandleAdminShellMessage: a page that asks is ready, and is answered.
HandleAdminCommand(s, m) ==
  CASE m[1] \in {"ready", "request-snapshot"} -> [s EXCEPT !.ready = TRUE]
    [] m[1] = "start-server" -> StartServer[s]
    [] m[1] = "stop-server"  -> StopServer[s]
    [] m[1] = "switch-page"  -> TrySetPageFromAdminTab(s, m[2])
HandleWebViewMessage(s, m) == RefreshShellFallback[PublishAdminShellRuntime[HandleAdminCommand(s, m)]]

PostedMessage ==
  /\ posted # <<>> /\ posted' = Tail(posted)
  /\ Window(IF Head(posted) \in {<<"poll">>, <<"poll-failed">>}
            THEN HandlePollResult(w, Head(posted)) ELSE HandleWebViewMessage(w, Head(posted)))
  /\ KeepPage /\ UNCHANGED <<polling, moves>>

-----------------------------------------------------------------------------
(* The WebView, the page in it, the server and the time. *)

\* The environment and the controller are created, or one of the two fails; a
\* failure the callbacks do not report leaves the status as it was.
WebViewCreated ==
  /\ w.status = "initializing"
  /\ \/ UNCHANGED moves
        /\ Window([w EXCEPT !.status = "ready", !.pending = FALSE, !.shows = IF w.pending THEN "loading" ELSE "blank"])
     \/ Move /\ \E s \in {"runtime-unavailable", "controller-unavailable", "stuck"} : Window([w EXCEPT !.status = s])
  /\ KeepPage /\ UNCHANGED <<posted, polling>>

\* A new page starts on the dashboard and says that it is ready.
PageLoads ==
  /\ w.shows = "loading"
  /\ IF w.server = "serving" /\ w.machine.bundle
     THEN /\ Window([w EXCEPT !.shows = "admin"])
          /\ tab' = "dashboard" /\ shown' = FALSE /\ posted' = Append(posted, <<"ready">>)
     ELSE Window([w EXCEPT !.shows = "error"]) /\ UNCHANGED <<tab, shown, posted>>
  /\ UNCHANGED <<polling, moves>>

\* render: the page follows the window's page and shows its server.
ForgetfulRender(s) == tab' = tab /\ shown' = s.running       \* seeded fault: the page keeps its own tab
Render(s) == tab' = s.page /\ shown' = s.running
Receive ==
  /\ w.toPage # <<>> /\ Window([w EXCEPT !.toPage = Tail(@)])
  /\ IF w.shows = "admin" THEN Render(Head(w.toPage)) ELSE UNCHANGED <<tab, shown>>
  /\ UNCHANGED <<posted, polling, moves>>

\* The user of the page: a tab, a command, or a reload, which the WebView allows.
UsePage ==
  /\ w.alive /\ w.visible /\ Move
  /\ \/ /\ w.shows = "admin"
        /\ \/ \E p \in AllPages \ {tab} : tab' = p /\ posted' = Append(posted, <<"switch-page", p>>)
           \/ \E c \in Commands \ {"ready"} : posted' = Append(posted, <<c>>) /\ UNCHANGED tab
        /\ UNCHANGED w
     \/ w.shows \in {"admin", "error"} /\ w' = [w EXCEPT !.shows = "loading", !.toPage = <<>>] /\ UNCHANGED <<tab, posted>>
  /\ UNCHANGED <<shown, polling>>

ServerListens ==
  /\ w.server = "starting" /\ Window([w EXCEPT !.server = "serving"])
  /\ KeepPage /\ UNCHANGED <<posted, polling, moves>>
ServerExits ==
  /\ IsRunning(w) /\ Move /\ Window([w EXCEPT !.server = "stopped"])
  /\ KeepPage /\ UNCHANGED <<posted, polling>>

PollAnswered ==
  /\ w.alive /\ polling /\ polling' = FALSE
  /\ posted' = Append(posted, IF w.server = "serving" THEN <<"poll">> ELSE <<"poll-failed">>)
  /\ UNCHANGED <<w, tab, shown, moves>>
TimePasses == w.recent /\ Window([w EXCEPT !.recent = FALSE]) /\ KeepPage /\ UNCHANGED <<posted, polling, moves>>

\* The port is freed or taken, the WebView's runtime is installed.
MachineChanges ==
  /\ Move
  /\ \/ Window([w EXCEPT !.machine.blocked = ~@])
     \/ ~w.machine.runtime /\ Window([w EXCEPT !.machine.runtime = TRUE])
  /\ KeepPage /\ UNCHANGED <<posted, polling>>

Answered == posted # <<>> /\ Head(posted)[1] \in {"poll", "poll-failed", "ready", "request-snapshot"} /\ PostedMessage
Background == HandleRuntimeTick \/ Answered \/ WebViewCreated \/ PageLoads \/ Receive \/ PollAnswered \/ TimePasses
Next ==
  \/ WindowMessage \/ PostedMessage \/ HandleRuntimeTick
  \/ WebViewCreated \/ PageLoads \/ Receive \/ PollAnswered \/ TimePasses
  \/ UsePage \/ ServerListens \/ ServerExits \/ MachineChanges

\* The timer and the messages come to the window, the WebView and the page do
\* what they have begun, a server that starts listens, time passes.
Fairness ==
  /\ WF_vars(HandleRuntimeTick) /\ WF_vars(PostedMessage) /\ WF_vars(PollAnswered)
  /\ WF_vars(WebViewCreated) /\ WF_vars(PageLoads) /\ WF_vars(Receive) /\ WF_vars(ServerListens) /\ WF_vars(TimePasses)
Spec == Init /\ [][Next]_vars /\ Fairness

-----------------------------------------------------------------------------
\* The window that is gone has taken its server and its icon with it, and no
\* handler of its end has started the server again.
GoneIsClean == ~w.alive => w.server = "stopped" /\ ~w.added

\* No balloon is left pending when a handler ends: "Running in tray" is never
\* shown late, over a window that is open again.
NoLateBalloon == w.alive /\ w.added => w.balloonShown

\* No balloon, icon or server outlives its occasion: the two properties above.
WindowSafe == AdminTypeOK /\ GoneIsClean /\ NoLateBalloon

\* Only a user starts the server: a tick, a poll, a retry of the page or a
\* WebView that comes up never restarts one that was stopped or has died.
BackgroundStartsNothing == [][Background => ~(w.server = "stopped" /\ w'.server # "stopped")]_vars

\* A page that was opened and has not said that it is ready is opened again and
\* again until it is there, as long as the server can serve it.
PageComesUp ==
  []<>(w.shows = "admin" \/ w.ready \/ ~(w.alive /\ w.navigated /\ w.status = "ready" /\ w.server = "serving" /\ w.machine.bundle))

\* Retries and ticks load the page until it is there, and do no more than that.
RetriesLoadThePage == BackgroundStartsNothing /\ PageComesUp

\* When users and machine come to rest the page agrees with the window: it is on
\* the window's page and tells whether the server runs.
PageConverges == <>[](w.alive /\ w.shows = "admin" => tab = w.page /\ shown = IsRunning(w))

\* A window whose admin page cannot be up, because the server did not start, the
\* WebView failed or never finished or the page is not installed, ends with the
\* retry button on it; one whose page is up ends without.
RetryIsOffered ==
  <>[](w.alive => /\ w.error \/ w.status # "ready" \/ ~w.machine.bundle => w.fallback
                  /\ w.shows = "admin" /\ w.ready /\ ~w.error => ~w.fallback)

\* At rest the window shows what is there: the page as it is, or the way to it.
WindowConverges == PageConverges /\ RetryIsOffered
=============================================================================
