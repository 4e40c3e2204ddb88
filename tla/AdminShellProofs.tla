-------------------------- MODULE AdminShellProofs --------------------------
(***************************************************************************)
(* Proofs about the desktop window as a shell around its admin page, for   *)
(* any pages and any number of moves of users and machine.                 *)
(***************************************************************************)
EXTENDS AdminShell, TLAPS

Snapshots == [page : AllPages, running : BOOLEAN]

(***************************************************************************)
(* What a piece of a handler may do to the window.                         *)
(***************************************************************************)
\* Works on the WebView only: neither the icon nor the server is touched.
Aside(s, t) ==
  t \in Windows /\ t.alive = s.alive /\ t.added = s.added /\ t.balloonShown = s.balloonShown /\ t.server = s.server

\* May start the server besides.
MayStart(s, t) ==
  t \in Windows /\ t.alive = s.alive /\ t.added = s.added /\ t.balloonShown = s.balloonShown

\* No balloon is pending on the icon.
Calm(s) == s.added => s.balloonShown

\* Shows a pending balloon.
Calms(s, t) == t \in Windows /\ t.alive = s.alive /\ t.added = s.added /\ Calm(t)

\* Leaves no balloon pending that was not.
Keeps(s, t) == t \in Windows /\ t.alive = s.alive /\ (Calm(s) => Calm(t))

\* The end of the window.
Ended(t) == t \in Windows /\ ~t.alive /\ ~t.added /\ t.server = "stopped"

LEMMA AsideKeeps == \A s, t : Aside(s, t) => MayStart(s, t)
  BY DEF Aside, MayStart
LEMMA MayStartKeeps == \A s, t : MayStart(s, t) => Keeps(s, t)
  BY DEF MayStart, Keeps, Calm
LEMMA CalmsKeeps == \A s, t : Calms(s, t) => Keeps(s, t)
  BY DEF Calms, Keeps, Calm

(***************************************************************************)
(* The WebView.                                                            *)
(***************************************************************************)
LEMMA InitializeAside ==
  ASSUME NEW s \in Windows
  PROVE  Aside(s, Initialize[s])
<1>1. CASE s.status \in {"initializing", "stuck", "ready"}
  BY <1>1 DEF Initialize, Aside
<1>2. ASSUME s.status \notin {"initializing", "stuck", "ready"},
             NEW status \in {"initializing", "runtime-unavailable"},
             Initialize[s] = [s EXCEPT !.pending = FALSE, !.shows = "blank", !.status = status]
      PROVE  Aside(s, Initialize[s])
  BY <1>2 DEF Aside, Windows
<1> QED BY <1>1, <1>2 DEF Initialize

LEMMA NavigateAside ==
  ASSUME NEW s \in Windows
  PROVE  Aside(s, Navigate[s])
<1>1. ASSUME NEW q \in Seq(Snapshots), Navigate[s] = [s EXCEPT !.shows = "loading", !.toPage = q]
      PROVE  Aside(s, Navigate[s])
  BY <1>1 DEF Aside, Windows, Snapshots
<1>2. ASSUME NEW pending \in BOOLEAN, Navigate[s] = [s EXCEPT !.pending = pending] PROVE Aside(s, Navigate[s])
  BY <1>2 DEF Aside, Windows
<1>3. CASE s.status = "ready"
  <2>1. <<>> \in Seq(Snapshots) /\ Navigate[s] = [s EXCEPT !.shows = "loading", !.toPage = <<>>]
    BY <1>3 DEF Navigate
  <2> QED BY <1>1, <2>1
<1>4. CASE s.status # "ready"
  <2>1. Navigate[s] = [s EXCEPT !.pending = s.status # "none"]
    BY <1>4 DEF Navigate
  <2>2. (s.status # "none") = TRUE \/ (s.status # "none") = FALSE
    OBVIOUS
  <2>3. Navigate[s] = [s EXCEPT !.pending = TRUE] \/ Navigate[s] = [s EXCEPT !.pending = FALSE]
    BY <2>1, <2>2, Zenon
  <2> QED BY <1>2, <2>3
<1> QED BY <1>3, <1>4

Plans == [surface : Surfaces, ready : BOOLEAN, navigated : BOOLEAN, ensureInitialized : BOOLEAN, navigate : BOOLEAN]

LEMMA PlansAre ==
  ASSUME NEW s \in Windows
  PROVE  /\ BuildWebViewHostNavigationPlan(s) \in Plans
         /\ BuildWebViewHtmlAdminNavigationPlan(s) \in Plans
         /\ BuildWebViewRestorePlan(s) \in Plans
<1>1. s.ready \in BOOLEAN
  BY DEF Windows
<1>2. BuildWebViewHostNavigationPlan(s) \in Plans /\ BuildWebViewHtmlAdminNavigationPlan(s) \in Plans
  BY <1>1 DEF BuildWebViewHostNavigationPlan, BuildWebViewHtmlAdminNavigationPlan, Plans, Surfaces
<1>3. BuildWebViewRestorePlan(s) \in Plans
  BY <1>1, <1>2 DEF BuildWebViewRestorePlan, Plans, Surfaces
<1> QED BY <1>2, <1>3

LEMMA PlanAside ==
  ASSUME NEW s \in Windows, NEW plan \in Plans
  PROVE  Aside(s, ApplyWebViewShellPlan(s, plan))
<1> DEFINE planned == [s EXCEPT !.surface = plan.surface, !.ready = plan.ready, !.navigated = plan.navigated]
           there == IF plan.ensureInitialized THEN Initialize[planned] ELSE planned
<1>1. Aside(s, planned)
  BY DEF Aside, Windows, Plans
<1> HIDE DEF planned
<1>2. Aside(planned, there)
  BY <1>1, InitializeAside DEF Aside
<1> HIDE DEF there
<1>3. Aside(there, Navigate[there])
  BY <1>2, NavigateAside DEF Aside
<1>4. ApplyWebViewShellPlan(s, plan) = IF plan.navigate THEN Navigate[there] ELSE there
  BY DEF ApplyWebViewShellPlan, planned, there
<1> QED BY <1>1, <1>2, <1>3, <1>4 DEF Aside

(***************************************************************************)
(* The window's helpers.                                                   *)
(***************************************************************************)
LEMMA PerformStarts ==
  ASSUME NEW s \in Windows
  PROVE  MayStart(s, PerformStartServerAction[s])
  BY DEF PerformStartServerAction, MayStart, Windows

LEMMA FallbackAside ==
  ASSUME NEW s \in Windows
  PROVE  Aside(s, RefreshShellFallback[s])
<1>1. ShowFallback(s) \in BOOLEAN
  BY DEF ShowFallback
<1> QED BY <1>1 DEF RefreshShellFallback, Aside, Windows

LEMMA HtmlAdminStarts ==
  ASSUME NEW s \in Windows
  PROVE  MayStart(s, NavigateHtmlAdminInWebView[s])
<1> DEFINE waiting == [s EXCEPT !.surface = "HtmlAdminPreview", !.ready = FALSE, !.navigated = FALSE]
           started == [PerformStartServerAction[waiting] EXCEPT !.error = FALSE]
           refused == [waiting EXCEPT !.error = TRUE]
           opened  == ApplyWebViewShellPlan(started, BuildWebViewHtmlAdminNavigationPlan(started))
<1>1. Aside(s, waiting)
  BY DEF Aside, Windows, Surfaces
<1> HIDE DEF waiting
<1>2. MayStart(s, PerformStartServerAction[waiting])
  BY <1>1, PerformStarts DEF Aside, MayStart
<1>3. MayStart(s, started)
  BY <1>2 DEF MayStart, Windows
<1> HIDE DEF started
<1>4. MayStart(s, opened)
  BY <1>3, PlansAre, PlanAside DEF MayStart, Aside
<1> HIDE DEF opened
<1>5. MayStart(s, [opened EXCEPT !.recent = TRUE])
  BY <1>4 DEF MayStart, Windows
<1>6. MayStart(s, refused)
  BY <1>1 DEF Aside, MayStart, Windows
<1> HIDE DEF refused
<1>7. MayStart(s, RefreshShellFallback[refused])
  BY <1>6, FallbackAside DEF MayStart, Aside
<1>8. NavigateHtmlAdminInWebView[s] = IF StartOk(waiting) THEN [opened EXCEPT !.recent = TRUE]
                                      ELSE RefreshShellFallback[refused]
  BY DEF NavigateHtmlAdminInWebView, waiting, started, refused, opened
<1> QED BY <1>5, <1>7, <1>8

LEMMA RestoreStarts ==
  ASSUME NEW s \in Windows
  PROVE  MayStart(s, RestoreWebViewShellState[s])
<1> DEFINE starts  == s.surface = "HtmlAdminPreview" /\ ~IsRunning(s)
           started == IF starts THEN [PerformStartServerAction[s] EXCEPT !.error = FALSE] ELSE s
           refused == [s EXCEPT !.error = TRUE]
<1>1. MayStart(s, started)
  <2>1. CASE starts
    <3> DEFINE performed == PerformStartServerAction[s]
    <3>1. MayStart(s, performed)
      BY PerformStarts
    <3> HIDE DEF performed
    <3>2. MayStart(s, [performed EXCEPT !.error = FALSE])
      BY <3>1 DEF MayStart, Windows
    <3> QED BY <2>1, <3>2 DEF performed
  <2>2. CASE ~starts
    BY <2>2 DEF MayStart
  <2> QED BY <2>1, <2>2
<1> HIDE DEF started
<1>2. MayStart(s, ApplyWebViewShellPlan(started, BuildWebViewRestorePlan(started)))
  BY <1>1, PlansAre, PlanAside DEF MayStart, Aside
<1>3. MayStart(s, refused)
  BY DEF MayStart, Windows
<1> HIDE DEF refused
<1>4. MayStart(s, RefreshShellFallback[refused])
  BY <1>3, FallbackAside DEF MayStart, Aside
<1>5. RestoreWebViewShellState[s] = IF starts /\ ~StartOk(s) THEN RefreshShellFallback[refused]
                                    ELSE ApplyWebViewShellPlan(started, BuildWebViewRestorePlan(started))
  BY DEF RestoreWebViewShellState, started, refused
<1> QED BY <1>2, <1>4, <1>5

\* A retry never starts the server: it asks for a server that runs.
LEMMA RetryAside ==
  ASSUME NEW s \in Windows, NEW confirmed
  PROVE  Aside(s, RetryHtmlAdminNavigationIfNeeded(s, confirmed))
<1>1. Aside(s, s)
  BY DEF Aside
<1> DEFINE opened == Navigate[s]
<1>2. Aside(s, opened)
  BY NavigateAside
<1> HIDE DEF opened
<1>3. Aside(s, [opened EXCEPT !.recent = TRUE])
  BY <1>2 DEF Aside, Windows
<1>4. RetryHtmlAdminNavigationIfNeeded(s, confirmed) \in {s, [opened EXCEPT !.recent = TRUE]}
  BY DEF RetryHtmlAdminNavigationIfNeeded, opened
<1> QED BY <1>1, <1>3, <1>4

LEMMA PublishAside ==
  ASSUME NEW s \in Windows
  PROVE  Aside(s, PublishAdminShellRuntime[s])
<1>1. Snapshot(s) \in Snapshots
  BY DEF Snapshot, Snapshots, IsRunning, Windows
<1>2. Append(s.toPage, Snapshot(s)) \in Seq(Snapshots)
  BY <1>1 DEF Windows, Snapshots
<1>3. PublishAdminShellRuntime[s] = s \/ PublishAdminShellRuntime[s] = [s EXCEPT !.toPage = Append(s.toPage, Snapshot(s))]
  BY DEF PublishAdminShellRuntime
<1>4. ASSUME NEW q \in Seq(Snapshots) PROVE Aside(s, [s EXCEPT !.toPage = q])
  BY <1>4 DEF Aside, Windows, Snapshots
<1> QED BY <1>2, <1>3, <1>4 DEF Aside

LEMMA RefreshAside ==
  ASSUME NEW s \in Windows
  PROVE  Aside(s, RefreshHtmlAdminPreview[s])
<1> DEFINE retried == RetryHtmlAdminNavigationIfNeeded(s, FALSE)
<1>1. Aside(s, retried)
  BY RetryAside
<1> HIDE DEF retried
<1>2. Aside(s, PublishAdminShellRuntime[retried])
  BY <1>1, PublishAside DEF Aside
<1>3. Aside(s, RefreshShellFallback[PublishAdminShellRuntime[retried]])
  BY <1>2, FallbackAside DEF Aside
<1> QED BY <1>3 DEF RefreshHtmlAdminPreview, retried

LEMMA SetPageStarts ==
  ASSUME NEW s \in Windows, NEW page \in AllPages
  PROVE  MayStart(s, SetPage(s, page))
<1> DEFINE paged == [s EXCEPT !.page = page]
           shown1 == NavigateHtmlAdminInWebView[paged]
           placed == [paged EXCEPT !.surface = "HtmlAdminPreview"]
<1>1. MayStart(s, paged)
  BY DEF MayStart, Windows
<1> HIDE DEF paged
<1>2. MayStart(s, shown1)
  BY <1>1, HtmlAdminStarts DEF MayStart
<1>3. MayStart(s, placed)
  BY <1>1 DEF MayStart, Windows, Surfaces
<1> HIDE DEF shown1, placed
<1>4. PICK t \in {shown1, placed} : SetPage(s, page) = RefreshHtmlAdminPreview[RefreshShellFallback[t]]
  BY DEF SetPage, ResolveDesktopLayoutSurfaceMode, PreferHtmlAdminUi, paged, shown1, placed
<1>5. MayStart(s, t)
  BY <1>2, <1>3
<1>6. MayStart(s, RefreshShellFallback[t])
  BY <1>5, FallbackAside DEF MayStart, Aside
<1> QED BY <1>4, <1>6, RefreshAside DEF MayStart, Aside

LEMMA AdminTabStarts ==
  ASSUME NEW s \in Windows, NEW page \in AllPages
  PROVE  MayStart(s, TrySetPageFromAdminTab(s, page))
  BY SetPageStarts DEF TrySetPageFromAdminTab, MayStart

(***************************************************************************)
(* The tray icon.                                                          *)
(***************************************************************************)
LEMMA TrayCalms ==
  ASSUME NEW s \in Windows
  PROVE  Calms(s, UpdateTrayIcon[s]) /\ UpdateTrayIcon[s].server = s.server
<1>1. CASE s.added
  <2>1. UpdateTrayIcon[s] = [s EXCEPT !.balloonShown = TRUE]
    BY <1>1 DEF UpdateTrayIcon
  <2> QED BY <2>1 DEF Calms, Calm, Windows
<1>2. CASE ~s.added
  BY <1>2 DEF UpdateTrayIcon, Calms, Calm
<1> QED BY <1>1, <1>2

LEMMA CreateKeeps ==
  ASSUME NEW s \in Windows
  PROVE  Keeps(s, CreateTrayIcon[s])
<1> DEFINE added == [s EXCEPT !.added = TRUE, !.balloonShown = TRUE]
<1>1. added \in Windows /\ added.alive = s.alive
  BY DEF Windows
<1> HIDE DEF added
<1>2. Keeps(s, UpdateTrayIcon[added])
  BY <1>1, TrayCalms DEF Calms, Keeps
<1>3. CreateTrayIcon[s] \in {s, UpdateTrayIcon[added]}
  BY DEF CreateTrayIcon, added
<1> QED BY <1>2, <1>3 DEF Keeps

LEMMA UiCalms ==
  ASSUME NEW s \in Windows
  PROVE  Calms(s, UpdateUiState[s]) /\ UpdateUiState[s].server = s.server
<1>1. Aside(s, RefreshHtmlAdminPreview[s])
  BY RefreshAside
<1>2. Aside(s, RefreshShellFallback[RefreshHtmlAdminPreview[s]])
  BY <1>1, FallbackAside DEF Aside
<1> QED BY <1>2, TrayCalms DEF UpdateUiState, Calms, Aside

LEMMA StartCalms ==
  ASSUME NEW s \in Windows
  PROVE  Calms(s, StartServer[s])
<1>1. MayStart(s, PerformStartServerAction[s])
  BY PerformStarts
<1>2. MayStart(s, RefreshHtmlAdminPreview[PerformStartServerAction[s]])
  BY <1>1, RefreshAside DEF MayStart, Aside
<1> QED BY <1>2, UiCalms DEF StartServer, Calms, MayStart

\* The end of StopServer starts nothing anew.
LEMMA StopCalms ==
  ASSUME NEW s \in Windows
  PROVE  Calms(s, StopServer[s]) /\ StopServer[s].server = "stopped"
<1> DEFINE stopped == [s EXCEPT !.server = "stopped"]
<1>1. stopped \in Windows /\ stopped.alive = s.alive /\ stopped.added = s.added /\ stopped.server = "stopped"
  BY DEF Windows
<1> HIDE DEF stopped
<1>2. Aside(stopped, RefreshHtmlAdminPreview[stopped])
  BY <1>1, RefreshAside
<1>3. StopServer[s] = UpdateUiState[RefreshHtmlAdminPreview[stopped]]
  BY DEF StopServer, stopped
<1> QED BY <1>1, <1>2, <1>3, UiCalms DEF Calms, Aside

(***************************************************************************)
(* The plans.  Only a plan that marks a balloon may leave one pending.     *)
(***************************************************************************)
EffectNames ==
  {"markExitRequested", "markTrayBalloonPending", "setDashboardPage", "show", "hide", "ensureWebViewInitialized",
   "createTrayIcon", "updateUiState", "refreshHtmlAdminPreview", "updateTrayIcon", "removeTrayIcon", "stopServer"}

LEMMA EffectKeeps ==
  ASSUME NEW s \in Windows, NEW e \in EffectNames \ {"markTrayBalloonPending"}
  PROVE  Keeps(s, Effect(s, e))
<1>1. CASE e = "markExitRequested"
  <2>1. Effect(s, e) = [s EXCEPT !.exiting = TRUE]
    BY <1>1 DEF Effect
  <2> QED BY <2>1 DEF Keeps, Calm, Windows
<1>2. CASE e = "setDashboardPage"
  <2>1. Effect(s, e) = SetPage(s, "dashboard")
    BY <1>2 DEF Effect
  <2> QED BY <2>1, SetPageStarts, MayStartKeeps DEF AllPages
<1>3. CASE e = "show"
  <2>1. Effect(s, e) = [s EXCEPT !.visible = TRUE]
    BY <1>3 DEF Effect
  <2> QED BY <2>1 DEF Keeps, Calm, Windows
<1>4. CASE e = "hide"
  <2>1. Effect(s, e) = [s EXCEPT !.visible = FALSE]
    BY <1>4 DEF Effect
  <2> QED BY <2>1 DEF Keeps, Calm, Windows
<1>5. CASE e = "ensureWebViewInitialized"
  <2>1. Effect(s, e) = RefreshShellFallback[RestoreWebViewShellState[s]]
    BY <1>5 DEF Effect
  <2>2. MayStart(s, RestoreWebViewShellState[s])
    BY RestoreStarts
  <2>3. MayStart(s, RefreshShellFallback[RestoreWebViewShellState[s]])
    BY <2>2, FallbackAside DEF MayStart, Aside
  <2> QED BY <2>1, <2>3, MayStartKeeps
<1>6. CASE e = "createTrayIcon"
  <2>1. Effect(s, e) = CreateTrayIcon[s]
    BY <1>6 DEF Effect
  <2> QED BY <2>1, CreateKeeps
<1>7. CASE e = "updateUiState"
  <2>1. Effect(s, e) = UpdateUiState[RefreshHtmlAdminPreview[s]]
    BY <1>7 DEF Effect
  <2>2. Aside(s, RefreshHtmlAdminPreview[s])
    BY RefreshAside
  <2> QED BY <2>1, <2>2, UiCalms DEF Keeps, Calms, Aside
<1>8. CASE e = "refreshHtmlAdminPreview"
  <2>1. Effect(s, e) = RefreshHtmlAdminPreview[s]
    BY <1>8 DEF Effect
  <2> QED BY <2>1, RefreshAside, AsideKeeps, MayStartKeeps
<1>9. CASE e = "updateTrayIcon"
  <2>1. Effect(s, e) = UpdateTrayIcon[s]
    BY <1>9 DEF Effect
  <2> QED BY <2>1, TrayCalms, CalmsKeeps
<1>10. CASE e = "removeTrayIcon"
  <2>1. Effect(s, e) = [s EXCEPT !.added = FALSE]
    BY <1>10 DEF Effect, RemoveTrayIcon
  <2> QED BY <2>1 DEF Keeps, Calm, Windows
<1>11. CASE e = "stopServer"
  <2>1. Effect(s, e) = StopServer[s]
    BY <1>11 DEF Effect
  <2> QED BY <2>1, StopCalms, CalmsKeeps
<1> QED BY <1>1, <1>2, <1>3, <1>4, <1>5, <1>6, <1>7, <1>8, <1>9, <1>10, <1>11 DEF EffectNames

LEMMA TwelveEffects ==
  /\ Len(EffectOrder) = 12
  /\ EffectOrder[1] = "markExitRequested"
  /\ EffectOrder[2] = "markTrayBalloonPending"
  /\ EffectOrder[3] = "setDashboardPage"
  /\ EffectOrder[4] = "show"
  /\ EffectOrder[5] = "hide"
  /\ EffectOrder[6] = "ensureWebViewInitialized"
  /\ EffectOrder[7] = "createTrayIcon"
  /\ EffectOrder[8] = "updateUiState"
  /\ EffectOrder[9] = "refreshHtmlAdminPreview"
  /\ EffectOrder[10] = "updateTrayIcon"
  /\ EffectOrder[11] = "removeTrayIcon"
  /\ EffectOrder[12] = "stopServer"
  BY DEF EffectOrder

\* The recursion over the effects, written out: the states it passes are s1 to s11.
LEMMA EffectsDone ==
  ASSUME NEW s, NEW plan
  PROVE  \E s1, s2, s3, s4, s5, s6, s7, s8, s9, s10, s11 :
           /\ s1 = Do(plan, s, "markExitRequested") /\ s2 = Do(plan, s1, "markTrayBalloonPending")
           /\ s3 = Do(plan, s2, "setDashboardPage") /\ s4 = Do(plan, s3, "show") /\ s5 = Do(plan, s4, "hide")
           /\ s6 = Do(plan, s5, "ensureWebViewInitialized") /\ s7 = Do(plan, s6, "createTrayIcon")
           /\ s8 = Do(plan, s7, "updateUiState") /\ s9 = Do(plan, s8, "refreshHtmlAdminPreview")
           /\ s10 = Do(plan, s9, "updateTrayIcon") /\ s11 = Do(plan, s10, "removeTrayIcon")
           /\ Effects(s, plan) = Do(plan, s11, "stopServer")
<1>1. PICK s1, s2, s3, s4, s5, s6, s7, s8, s9, s10, s11, s12 :
        /\ s1 = Do(plan, s, EffectOrder[1])
        /\ s2 = Do(plan, s1, EffectOrder[2])
        /\ s3 = Do(plan, s2, EffectOrder[3])
        /\ s4 = Do(plan, s3, EffectOrder[4])
        /\ s5 = Do(plan, s4, EffectOrder[5])
        /\ s6 = Do(plan, s5, EffectOrder[6])
        /\ s7 = Do(plan, s6, EffectOrder[7])
        /\ s8 = Do(plan, s7, EffectOrder[8])
        /\ s9 = Do(plan, s8, EffectOrder[9])
        /\ s10 = Do(plan, s9, EffectOrder[10])
        /\ s11 = Do(plan, s10, EffectOrder[11])
        /\ s12 = Do(plan, s11, EffectOrder[12])
  OBVIOUS
<1> DEFINE Rule(f) == f = [n \in 0..Len(EffectOrder) |-> IF n = 0 THEN s ELSE Do(plan, f[n - 1], EffectOrder[n])]
           states  == <<s, s1, s2, s3, s4, s5, s6, s7, s8, s9, s10, s11, s12>>
           passed  == [n \in 0..12 |-> states[n + 1]]
<1>2. Rule(passed)
  <2>1. /\ passed[0] = s
        /\ passed[1] = s1
        /\ passed[2] = s2
        /\ passed[3] = s3
        /\ passed[4] = s4
        /\ passed[5] = s5
        /\ passed[6] = s6
        /\ passed[7] = s7
        /\ passed[8] = s8
        /\ passed[9] = s9
        /\ passed[10] = s10
        /\ passed[11] = s11
        /\ passed[12] = s12
    OBVIOUS
  <2> HIDE DEF passed
  <2>2. ASSUME NEW n \in 0..12 PROVE passed[n] = IF n = 0 THEN s ELSE Do(plan, passed[n - 1], EffectOrder[n])
    BY <1>1, <2>1
  <2>3. passed = [n \in 0..12 |-> passed[n]]
    BY DEF passed
  <2>4. passed = [n \in 0..12 |-> IF n = 0 THEN s ELSE Do(plan, passed[n - 1], EffectOrder[n])]
    BY <2>2, <2>3
  <2> QED BY <2>4, TwelveEffects
<1> DEFINE after == CHOOSE f : Rule(f)
<1>3. Effects(s, plan) = after[12]
  BY TwelveEffects DEF Effects
<1> HIDE DEF passed
<1>4. Rule(after)
  BY <1>2
<1> HIDE DEF after
<1>5. after[0] = s /\ \A n \in 1..12 : after[n] = Do(plan, after[n - 1], EffectOrder[n])
  BY <1>4, TwelveEffects
<1>6. /\ after[1] = Do(plan, after[0], EffectOrder[1])
      /\ after[2] = Do(plan, after[1], EffectOrder[2])
      /\ after[3] = Do(plan, after[2], EffectOrder[3])
      /\ after[4] = Do(plan, after[3], EffectOrder[4])
      /\ after[5] = Do(plan, after[4], EffectOrder[5])
      /\ after[6] = Do(plan, after[5], EffectOrder[6])
      /\ after[7] = Do(plan, after[6], EffectOrder[7])
      /\ after[8] = Do(plan, after[7], EffectOrder[8])
      /\ after[9] = Do(plan, after[8], EffectOrder[9])
      /\ after[10] = Do(plan, after[9], EffectOrder[10])
      /\ after[11] = Do(plan, after[10], EffectOrder[11])
      /\ after[12] = Do(plan, after[11], EffectOrder[12])
  BY <1>5
<1> QED BY <1>3, <1>5, <1>6, TwelveEffects

LEMMA EffectsAre ==
  ASSUME NEW s
  PROVE  /\ Effect(s, "markTrayBalloonPending") = [s EXCEPT !.balloonShown = FALSE]
         /\ Effect(s, "hide") = [s EXCEPT !.visible = FALSE]
         /\ Effect(s, "updateTrayIcon") = UpdateTrayIcon[s]
         /\ Effect(s, "removeTrayIcon") = RemoveTrayIcon[s]
         /\ Effect(s, "stopServer") = StopServer[s]
<1>1. Effect(s, "markTrayBalloonPending") = [s EXCEPT !.balloonShown = FALSE]
  BY DEF Effect
<1>2. Effect(s, "hide") = [s EXCEPT !.visible = FALSE]
  BY DEF Effect
<1>3. Effect(s, "updateTrayIcon") = UpdateTrayIcon[s]
  BY DEF Effect
<1>4. Effect(s, "removeTrayIcon") = RemoveTrayIcon[s]
  BY DEF Effect
<1>5. Effect(s, "stopServer") = StopServer[s]
  BY DEF Effect
<1> QED BY <1>1, <1>2, <1>3, <1>4, <1>5

LEMMA EffectStays ==
  ASSUME NEW s \in Windows, NEW e \in EffectNames, NEW plan
  PROVE  /\ Do(plan, s, e) \in Windows /\ Do(plan, s, e).alive = s.alive
         /\ (e # "markTrayBalloonPending" \/ e \notin plan) => Keeps(s, Do(plan, s, e))
<1>1. CASE e \notin plan
  BY <1>1 DEF Do, Keeps
<1>2. CASE e \in plan /\ e # "markTrayBalloonPending"
  BY <1>2, EffectKeeps DEF Do, Keeps
<1>3. CASE e \in plan /\ e = "markTrayBalloonPending"
  <2>1. Do(plan, s, e) = [s EXCEPT !.balloonShown = FALSE]
    BY <1>3, EffectsAre DEF Do
  <2> QED BY <1>3, <2>1 DEF Windows
<1> QED BY <1>1, <1>2, <1>3

LEMMA EffectsKeep ==
  ASSUME NEW s \in Windows, NEW plan
  PROVE  /\ Effects(s, plan) \in Windows /\ Effects(s, plan).alive = s.alive
         /\ "markTrayBalloonPending" \notin plan => Keeps(s, Effects(s, plan))
<1>0. PICK s1, s2, s3, s4, s5, s6, s7, s8, s9, s10, s11 :
        /\ s1 = Do(plan, s, "markExitRequested") /\ s2 = Do(plan, s1, "markTrayBalloonPending")
        /\ s3 = Do(plan, s2, "setDashboardPage") /\ s4 = Do(plan, s3, "show") /\ s5 = Do(plan, s4, "hide")
        /\ s6 = Do(plan, s5, "ensureWebViewInitialized") /\ s7 = Do(plan, s6, "createTrayIcon")
        /\ s8 = Do(plan, s7, "updateUiState") /\ s9 = Do(plan, s8, "refreshHtmlAdminPreview")
        /\ s10 = Do(plan, s9, "updateTrayIcon") /\ s11 = Do(plan, s10, "removeTrayIcon")
        /\ Effects(s, plan) = Do(plan, s11, "stopServer")
  BY EffectsDone
<1> DEFINE Kept(t) == /\ t \in Windows /\ t.alive = s.alive
                      /\ "markTrayBalloonPending" \notin plan => Keeps(s, t)
<1>1. Kept(s)
  BY DEF Keeps
<1>2. ASSUME NEW t, NEW e \in EffectNames, Kept(t) PROVE Kept(Do(plan, t, e))
  BY <1>2, EffectStays DEF Keeps
<1>3. Kept(s1) /\ Kept(s2)
  BY <1>0, <1>1, <1>2 DEF EffectNames
<1> HIDE DEF Kept
<1>4. Kept(s3) /\ Kept(s4) /\ Kept(s5)
  BY <1>0, <1>2, <1>3 DEF EffectNames
<1>5. Kept(s6) /\ Kept(s7) /\ Kept(s8)
  BY <1>0, <1>2, <1>4 DEF EffectNames
<1>6. Kept(s9) /\ Kept(s10) /\ Kept(s11)
  BY <1>0, <1>2, <1>5 DEF EffectNames
<1>7. Kept(Effects(s, plan))
  BY <1>0, <1>2, <1>6 DEF EffectNames
<1> QED BY <1>7 DEF Kept

\* The plan that hides the window: the icon is updated after the balloon was marked.
LEMMA HidingCalms ==
  ASSUME NEW s \in Windows
  PROVE  LET plan == {"hide", "markTrayBalloonPending", "updateTrayIcon"}
         IN  Effects(s, plan) \in Windows /\ Effects(s, plan).alive = s.alive /\ Calm(Effects(s, plan))
<1> DEFINE plan   == {"hide", "markTrayBalloonPending", "updateTrayIcon"}
           marked == [s EXCEPT !.balloonShown = FALSE]
           hidden == [marked EXCEPT !.visible = FALSE]
<1>1. marked \in Windows /\ marked.alive = s.alive
  BY DEF Windows
<1>2. marked = Do(plan, s, "markTrayBalloonPending") /\ hidden = Do(plan, marked, "hide")
  BY EffectsAre DEF Do
<1> HIDE DEF marked
<1>3. hidden \in Windows /\ hidden.alive = s.alive
  BY <1>1 DEF Windows
<1> HIDE DEF hidden
<1>4. UpdateTrayIcon[hidden] = Do(plan, hidden, "updateTrayIcon")
  BY EffectsAre DEF Do
<1>5. \A t : /\ Do(plan, t, "markExitRequested") = t /\ Do(plan, t, "setDashboardPage") = t
             /\ Do(plan, t, "show") = t /\ Do(plan, t, "ensureWebViewInitialized") = t
             /\ Do(plan, t, "createTrayIcon") = t /\ Do(plan, t, "updateUiState") = t
             /\ Do(plan, t, "refreshHtmlAdminPreview") = t /\ Do(plan, t, "removeTrayIcon") = t
             /\ Do(plan, t, "stopServer") = t
  BY DEF Do
<1> HIDE DEF plan
<1>6. Effects(s, plan) = UpdateTrayIcon[hidden]
  BY <1>2, <1>4, <1>5, EffectsDone
<1>7. Calms(hidden, UpdateTrayIcon[hidden])
  BY <1>3, TrayCalms
<1>8. Effects(s, plan) \in Windows /\ Effects(s, plan).alive = s.alive /\ Calm(Effects(s, plan))
  BY <1>3, <1>6, <1>7 DEF Calms
<1> QED BY <1>8 DEF plan

\* The plan of the end takes the icon away and stops the server.
LEMMA DestroyEnds ==
  ASSUME NEW s \in Windows
  PROVE  Ended(OnDestroy[s])
<1> DEFINE plan    == {"removeTrayIcon", "stopServer"}
           removed == [s EXCEPT !.added = FALSE]
           stopped == StopServer[removed]
<1>1. removed \in Windows /\ ~removed.added
  BY DEF Windows
<1>2. removed = Do(plan, s, "removeTrayIcon")
  BY EffectsAre DEF Do, RemoveTrayIcon
<1> HIDE DEF removed
<1>3. Calms(removed, stopped) /\ stopped.server = "stopped"
  BY <1>1, StopCalms
<1>4. stopped = Do(plan, removed, "stopServer")
  BY EffectsAre DEF Do
<1> HIDE DEF stopped
<1>5. \A t : /\ Do(plan, t, "markExitRequested") = t /\ Do(plan, t, "markTrayBalloonPending") = t
             /\ Do(plan, t, "setDashboardPage") = t /\ Do(plan, t, "show") = t /\ Do(plan, t, "hide") = t
             /\ Do(plan, t, "ensureWebViewInitialized") = t /\ Do(plan, t, "createTrayIcon") = t
             /\ Do(plan, t, "updateUiState") = t /\ Do(plan, t, "refreshHtmlAdminPreview") = t
             /\ Do(plan, t, "updateTrayIcon") = t
  BY DEF Do
<1>6. plan = CoordinateHostShellLifecycle("destroy", s.exiting)
  BY DEF CoordinateHostShellLifecycle
<1> HIDE DEF plan
<1>7. Effects(s, plan) = stopped
  BY <1>2, <1>4, <1>5, EffectsDone
<1>8. OnDestroy[s] = [stopped EXCEPT !.alive = FALSE]
  BY <1>6, <1>7 DEF OnDestroy
<1>9. stopped \in Windows /\ ~stopped.added /\ stopped.server = "stopped"
  BY <1>1, <1>3 DEF Calms
<1> QED BY <1>8, <1>9 DEF Ended, Windows

LEMMA PlainEventsKeep ==
  ASSUME NEW s \in Windows, NEW event \in {"startup", "show", "restore"}
  PROVE  Keeps(s, Lifecycle(s, event))
<1> DEFINE plan == CoordinateHostShellLifecycle(event, s.exiting)
<1>1. "markTrayBalloonPending" \notin plan /\ "destroyWindow" \notin plan
  BY DEF CoordinateHostShellLifecycle
<1> HIDE DEF plan
<1> QED BY <1>1, EffectsKeep DEF Lifecycle, ApplyHostShellLifecyclePlan, plan

\* What a message may do to the window.
Handled(s, t) == Keeps(s, t) \/ Ended(t)

LEMMA EventsHandled ==
  ASSUME NEW s \in Windows, NEW event \in {"startup", "show", "restore", "minimize", "close", "trayExit"}
  PROVE  Handled(s, Lifecycle(s, event))
<1> DEFINE plan == CoordinateHostShellLifecycle(event, s.exiting)
<1>1. CASE event \in {"startup", "show", "restore"}
  BY <1>1, PlainEventsKeep DEF Handled
<1>2. CASE event = "minimize" \/ (event = "close" /\ ~s.exiting)
  <2>1. plan = {"hide", "markTrayBalloonPending", "updateTrayIcon"}
    BY <1>2 DEF CoordinateHostShellLifecycle
  <2>2. Lifecycle(s, event) = Effects(s, plan)
    BY <2>1 DEF Lifecycle, ApplyHostShellLifecyclePlan
  <2> QED BY <2>1, <2>2, HidingCalms DEF Handled, Keeps
<1>3. CASE (event = "close" /\ s.exiting) \/ event = "trayExit"
  <2>1. "destroyWindow" \in plan
    BY <1>3 DEF CoordinateHostShellLifecycle
  <2>2. Lifecycle(s, event) = OnDestroy[Effects(s, plan)]
    BY <2>1 DEF Lifecycle, ApplyHostShellLifecyclePlan
  <2> HIDE DEF plan
  <2> QED BY <2>2, EffectsKeep, DestroyEnds DEF Handled
<1>4. s.exiting \in BOOLEAN
  BY DEF Windows
<1> QED BY <1>1, <1>2, <1>3, <1>4

LEMMA TrayCommandsHandled ==
  ASSUME NEW s \in Windows, NEW kind \in {"openDashboard", "startSharing", "stopSharing", "exitApp"}
  PROVE  Handled(s, ExecuteTrayShellCommand(s, kind))
<1>1. CASE kind = "openDashboard"
  BY <1>1, EventsHandled DEF ExecuteTrayShellCommand
<1>2. CASE kind = "startSharing"
  <2>1. Keeps(s, Lifecycle(s, "restore"))
    BY PlainEventsKeep
  <2>2. ExecuteTrayShellCommand(s, kind) = StartServer[Lifecycle(s, "restore")]
    BY <1>2 DEF ExecuteTrayShellCommand
  <2> QED BY <2>1, <2>2, StartCalms DEF Handled, Keeps, Calms
<1>3. CASE kind = "stopSharing"
  BY <1>3, StopCalms, CalmsKeeps DEF ExecuteTrayShellCommand, Handled
<1>4. CASE kind = "exitApp"
  BY <1>4, EventsHandled DEF ExecuteTrayShellCommand
<1> QED BY <1>1, <1>2, <1>3, <1>4

(***************************************************************************)
(* The messages of the window.                                             *)
(***************************************************************************)
LEMMA PublishedAside ==
  ASSUME NEW s \in Windows
  PROVE  Aside(s, RefreshShellFallback[PublishAdminShellRuntime[s]])
  BY PublishAside, FallbackAside DEF Aside

\* A page that asks only reads.
LEMMA AskingAside ==
  ASSUME NEW s \in Windows, NEW m, m[1] \in {"ready", "request-snapshot"}
  PROVE  Aside(s, HandleWebViewMessage(s, m))
<1> DEFINE marked == [s EXCEPT !.ready = TRUE]
<1>1. Aside(s, marked)
  BY DEF Aside, Windows
<1>2. HandleAdminCommand(s, m) = marked
  BY DEF HandleAdminCommand
<1> HIDE DEF marked
<1> QED BY <1>1, <1>2, PublishedAside DEF HandleWebViewMessage, Aside

LEMMA PageMessages ==
  ASSUME NEW m \in Messages, m \notin {<<"poll">>, <<"poll-failed">>}
  PROVE  \/ m[1] \in {"ready", "request-snapshot"}
         \/ m[1] = "start-server" \/ m[1] = "stop-server"
         \/ m[1] = "switch-page" /\ m[2] \in AllPages
<1>1. CASE m \in {<<c>> : c \in Commands \cup {"poll", "poll-failed"}}
  BY <1>1 DEF Commands
<1>2. CASE m \in {<<"switch-page", p>> : p \in AllPages}
  BY <1>2
<1> QED BY <1>1, <1>2 DEF Messages

LEMMA PageMessageKeeps ==
  ASSUME NEW s \in Windows, NEW m \in Messages, m \notin {<<"poll">>, <<"poll-failed">>}
  PROVE  Keeps(s, HandleWebViewMessage(s, m))
<1>1. ASSUME Keeps(s, HandleAdminCommand(s, m)) PROVE Keeps(s, HandleWebViewMessage(s, m))
  BY <1>1, PublishedAside DEF HandleWebViewMessage, Keeps, Calm, Aside
<1>2. CASE m[1] \in {"ready", "request-snapshot"}
  BY <1>2, AskingAside, AsideKeeps, MayStartKeeps
<1>3. CASE m[1] = "start-server"
  <2>1. HandleAdminCommand(s, m) = StartServer[s]
    BY <1>3 DEF HandleAdminCommand
  <2> QED BY <1>1, <2>1, StartCalms, CalmsKeeps
<1>4. CASE m[1] = "stop-server"
  <2>1. HandleAdminCommand(s, m) = StopServer[s]
    BY <1>4 DEF HandleAdminCommand
  <2> QED BY <1>1, <2>1, StopCalms, CalmsKeeps
<1>5. CASE m[1] = "switch-page" /\ m[2] \in AllPages
  <2>1. HandleAdminCommand(s, m) = TrySetPageFromAdminTab(s, m[2])
    BY <1>5 DEF HandleAdminCommand
  <2> QED BY <1>1, <1>5, <2>1, AdminTabStarts, MayStartKeeps
<1> QED BY <1>2, <1>3, <1>4, <1>5, PageMessages

\* The page's part of the WebView.
LEMMA ViewAside ==
  ASSUME NEW s \in Windows
  PROVE  /\ \A x \in {"blank", "loading", "error", "admin"} : Aside(s, [s EXCEPT !.shows = x])
         /\ \A q \in Seq(Snapshots) : Aside(s, [s EXCEPT !.toPage = q])
         /\ \A x \in {"stuck", "runtime-unavailable", "controller-unavailable"} : Aside(s, [s EXCEPT !.status = x])
         /\ Aside(s, [s EXCEPT !.recent = FALSE])
<1>1. ASSUME NEW x \in {"blank", "loading", "error", "admin"} PROVE Aside(s, [s EXCEPT !.shows = x])
  BY <1>1 DEF Aside, Windows
<1>2. ASSUME NEW q \in Seq(Snapshots) PROVE Aside(s, [s EXCEPT !.toPage = q])
  BY <1>2 DEF Aside, Windows, Snapshots
<1>3. ASSUME NEW x \in {"stuck", "runtime-unavailable", "controller-unavailable"} PROVE Aside(s, [s EXCEPT !.status = x])
  BY <1>3 DEF Aside, Windows
<1>4. Aside(s, [s EXCEPT !.recent = FALSE])
  BY DEF Aside, Windows
<1> QED BY <1>1, <1>2, <1>3, <1>4

LEMMA CreatedAside ==
  ASSUME NEW s \in Windows
  PROVE  Aside(s, [s EXCEPT !.status = "ready", !.pending = FALSE, !.shows = IF s.pending THEN "loading" ELSE "blank"])
<1>1. ASSUME NEW x \in {"loading", "blank"} PROVE Aside(s, [s EXCEPT !.status = "ready", !.pending = FALSE, !.shows = x])
  BY <1>1 DEF Aside, Windows
<1>2. PICK x \in {"loading", "blank"} : x = IF s.pending THEN "loading" ELSE "blank"
  OBVIOUS
<1> QED BY <1>1, <1>2

LEMMA MachineAside ==
  ASSUME NEW s \in Windows
  PROVE  Aside(s, [s EXCEPT !.machine.blocked = ~@]) /\ Aside(s, [s EXCEPT !.machine.runtime = TRUE])
<1> DEFINE Machines == [blocked : BOOLEAN, runtime : BOOLEAN, taskbar : BOOLEAN, bundle : BOOLEAN]
<1>0. s.machine \in Machines
  BY DEF Windows
<1>1. ASSUME NEW m \in Machines PROVE Aside(s, [s EXCEPT !.machine = m])
  BY <1>1 DEF Aside, Windows
<1>2. [s.machine EXCEPT !.blocked = ~@] \in Machines
  BY <1>0
<1>3. [s.machine EXCEPT !.runtime = TRUE] \in Machines
  BY <1>0
<1>4. [s EXCEPT !.machine.blocked = ~@] = [s EXCEPT !.machine = [s.machine EXCEPT !.blocked = ~@]]
  OBVIOUS
<1>5. [s EXCEPT !.machine.runtime = TRUE] = [s EXCEPT !.machine = [s.machine EXCEPT !.runtime = TRUE]]
  OBVIOUS
<1> QED BY <1>1, <1>2, <1>3, <1>4, <1>5

(***************************************************************************)
(* The steps.  Each is a message of a window that is there, or leaves the  *)
(* window as it is; those of the background do not touch the server.       *)
(***************************************************************************)
Quietly == w' = w \/ (w.alive /\ Aside(w, w'))

LEMMA QuietlyIs == Quietly => w' = w \/ (w.alive /\ Handled(w, w'))
  BY AsideKeeps, MayStartKeeps DEF Quietly, Handled

LEMMA WindowMessageStep ==
  ASSUME AdminTypeOK, WindowMessage
  PROVE  w.alive /\ Handled(w, w')
<1>0. w \in Windows
  BY DEF AdminTypeOK
<1>1. ASSUME NEW e \in {"minimize", "close", "restore"}, Window(Lifecycle(w, e)) PROVE w.alive /\ Handled(w, w')
  BY <1>0, <1>1, EventsHandled DEF Window
<1>2. ASSUME NEW k \in {"openDashboard", "exitApp"} \cup BuildTrayMenuViewModel(w), Window(ExecuteTrayShellCommand(w, k))
      PROVE  w.alive /\ Handled(w, w')
  <2>1. k \in {"openDashboard", "startSharing", "stopSharing", "exitApp"}
    BY DEF BuildTrayMenuViewModel
  <2> QED BY <1>0, <1>2, <2>1, TrayCommandsHandled DEF Window
<1>3. ASSUME Window(RefreshShellFallback[NavigateHtmlAdminInWebView[w]]) PROVE w.alive /\ Handled(w, w')
  <2>1. MayStart(w, NavigateHtmlAdminInWebView[w])
    BY <1>0, HtmlAdminStarts
  <2>2. MayStart(w, RefreshShellFallback[NavigateHtmlAdminInWebView[w]])
    BY <2>1, FallbackAside DEF MayStart, Aside
  <2> QED BY <1>3, <2>2, MayStartKeeps DEF Window, Handled
<1>4. ASSUME Window(StartServer[w]) PROVE w.alive /\ Handled(w, w')
  BY <1>0, <1>4, StartCalms, CalmsKeeps DEF Window, Handled
<1> QED BY <1>1, <1>2, <1>3, <1>4 DEF WindowMessage

LEMMA HeadIsMessage ==
  ASSUME AdminTypeOK, posted # <<>>
  PROVE  Head(posted) \in Messages /\ Tail(posted) \in Seq(Messages)
  BY DEF AdminTypeOK

LEMMA PostedMessageStep ==
  ASSUME AdminTypeOK, PostedMessage
  PROVE  w.alive /\ Handled(w, w')
<1>0. w \in Windows /\ Head(posted) \in Messages
  BY HeadIsMessage DEF AdminTypeOK, PostedMessage
<1>1. Keeps(w, HandlePollResult(w, Head(posted)))
  BY <1>0, RetryAside, AsideKeeps, MayStartKeeps DEF HandlePollResult
<1>2. Head(posted) \notin {<<"poll">>, <<"poll-failed">>} => Keeps(w, HandleWebViewMessage(w, Head(posted)))
  BY <1>0, PageMessageKeeps
<1> QED BY <1>1, <1>2 DEF PostedMessage, Window, Handled

LEMMA AnsweredStep ==
  ASSUME AdminTypeOK, Answered
  PROVE  Quietly
<1>0. w \in Windows /\ Head(posted) \in Messages
  BY HeadIsMessage DEF AdminTypeOK, Answered
<1>1. Aside(w, HandlePollResult(w, Head(posted)))
  BY <1>0, RetryAside DEF HandlePollResult
<1>2. Head(posted)[1] \in {"ready", "request-snapshot"} => Aside(w, HandleWebViewMessage(w, Head(posted)))
  BY <1>0, AskingAside
<1>3. Head(posted)[1] \in {"poll", "poll-failed"} => Head(posted) \in {<<"poll">>, <<"poll-failed">>}
  <2> DEFINE m == Head(posted)
  <2>1. m \in Messages
    BY <1>0
  <2> HIDE DEF m
  <2>2. m[1] \in {"poll", "poll-failed"} => m \in {<<"poll">>, <<"poll-failed">>}
    BY <2>1, PageMessages
  <2> QED BY <2>2 DEF m
<1> QED BY <1>1, <1>2, <1>3 DEF Answered, PostedMessage, Window, Quietly

LEMMA TickCalms ==
  ASSUME AdminTypeOK, HandleRuntimeTick
  PROVE  w.alive /\ Calms(w, w') /\ w'.server = w.server
  BY UiCalms DEF AdminTypeOK, HandleRuntimeTick, Window

LEMMA WebViewQuietly ==
  ASSUME AdminTypeOK, WebViewCreated \/ PageLoads \/ Receive
  PROVE  Quietly
<1>0. w \in Windows
  BY DEF AdminTypeOK
<1>1. CASE WebViewCreated
  <2>1. \/ Window([w EXCEPT !.status = "ready", !.pending = FALSE, !.shows = IF w.pending THEN "loading" ELSE "blank"])
        \/ \E s \in {"runtime-unavailable", "controller-unavailable", "stuck"} : Window([w EXCEPT !.status = s])
    BY <1>1 DEF WebViewCreated
  <2> QED BY <1>0, <2>1, CreatedAside, ViewAside DEF Window, Quietly
<1>2. CASE PageLoads
  <2>1. \E x \in {"admin", "error"} : Window([w EXCEPT !.shows = x])
    BY <1>2 DEF PageLoads
  <2> QED BY <1>0, <2>1, ViewAside DEF Window, Quietly
<1>3. CASE Receive
  <2>1. w.toPage \in Seq(Snapshots) /\ w.toPage # <<>>
    BY <1>0, <1>3 DEF Receive, Windows, Snapshots
  <2>2. Tail(w.toPage) \in Seq(Snapshots)
    BY <2>1
  <2>3. Window([w EXCEPT !.toPage = Tail(w.toPage)])
    BY <1>3 DEF Receive
  <2> QED BY <1>0, <2>2, <2>3, ViewAside DEF Window, Quietly
<1> QED BY <1>1, <1>2, <1>3

LEMMA UsePageQuietly ==
  ASSUME AdminTypeOK, UsePage
  PROVE  Quietly
<1>0. w \in Windows /\ w.alive
  BY DEF AdminTypeOK, UsePage
<1> DEFINE loading == [w EXCEPT !.shows = "loading"]
<1>1. Aside(w, loading)
  BY <1>0, ViewAside
<1>5. <<>> \in Seq(Snapshots)
  OBVIOUS
<1> HIDE DEF loading
<1>2. Aside(w, [loading EXCEPT !.toPage = <<>>])
  BY <1>1, <1>5, ViewAside DEF Aside
<1>3. w' = w \/ w' = [w EXCEPT !.shows = "loading", !.toPage = <<>>]
  BY DEF UsePage
<1>4. [w EXCEPT !.shows = "loading", !.toPage = <<>>] = [loading EXCEPT !.toPage = <<>>]
  BY DEF loading
<1> QED BY <1>0, <1>2, <1>3, <1>4 DEF Quietly

LEMMA ServerMoves ==
  ASSUME AdminTypeOK, ServerListens \/ ServerExits
  PROVE  w.alive /\ MayStart(w, w')
<1>1. PICK x \in {"serving", "stopped"} : Window([w EXCEPT !.server = x])
  BY DEF ServerListens, ServerExits
<1> QED BY <1>1 DEF AdminTypeOK, Window, MayStart, Windows

LEMMA RestQuietly ==
  ASSUME AdminTypeOK, PollAnswered \/ TimePasses \/ MachineChanges
  PROVE  Quietly
<1>0. w \in Windows
  BY DEF AdminTypeOK
<1>1. CASE PollAnswered
  BY <1>1 DEF PollAnswered, Quietly
<1>2. CASE TimePasses
  BY <1>0, <1>2, ViewAside DEF TimePasses, Window, Quietly
<1>3. CASE MachineChanges
  BY <1>0, <1>3, MachineAside DEF MachineChanges, Window, Quietly
<1> QED BY <1>1, <1>2, <1>3

LEMMA WindowStep ==
  ASSUME AdminTypeOK, [Next]_vars
  PROVE  w' = w \/ (w.alive /\ Handled(w, w'))
<1>1. CASE WindowMessage
  BY <1>1, WindowMessageStep
<1>2. CASE PostedMessage
  BY <1>2, PostedMessageStep
<1>3. CASE HandleRuntimeTick
  BY <1>3, TickCalms, CalmsKeeps DEF Handled
<1>4. CASE WebViewCreated \/ PageLoads \/ Receive
  BY <1>4, WebViewQuietly, QuietlyIs
<1>5. CASE UsePage
  BY <1>5, UsePageQuietly, QuietlyIs
<1>6. CASE ServerListens \/ ServerExits
  BY <1>6, ServerMoves, MayStartKeeps DEF Handled
<1>7. CASE PollAnswered \/ TimePasses \/ MachineChanges
  BY <1>7, RestQuietly, QuietlyIs
<1>8. CASE UNCHANGED vars
  BY <1>8 DEF vars
<1> QED BY <1>1, <1>2, <1>3, <1>4, <1>5, <1>6, <1>7, <1>8 DEF Next

\* The rest of the type.
PageStateOK ==
  tab \in AllPages /\ shown \in BOOLEAN /\ posted \in Seq(Messages) /\ polling \in BOOLEAN /\ moves \in 0..MaxMoves

LEMMA MoveType ==
  ASSUME PageStateOK, Move
  PROVE  moves' \in 0..MaxMoves
  BY AdminAssumption DEF PageStateOK, Move

LEMMA PageStateStep ==
  ASSUME AdminTypeOK, [Next]_vars
  PROVE  PageStateOK'
<1>0. PageStateOK /\ w \in Windows
  BY DEF AdminTypeOK, PageStateOK
<1>p. \A c \in Commands \cup {"poll", "poll-failed"} : Append(posted, <<c>>) \in Seq(Messages)
  BY <1>0 DEF PageStateOK, Messages
<1>q. \A p \in AllPages : Append(posted, <<"switch-page", p>>) \in Seq(Messages)
  <2> SUFFICES ASSUME NEW p \in AllPages PROVE Append(posted, <<"switch-page", p>>) \in Seq(Messages)
    OBVIOUS
  <2>1. <<"switch-page", p>> \in Messages
    BY DEF Messages
  <2> QED BY <1>0, <2>1 DEF PageStateOK
<1>1. CASE WindowMessage
  BY <1>0, <1>1, MoveType DEF WindowMessage, PageStateOK, KeepPage
<1>2. CASE PostedMessage
  BY <1>0, <1>2, HeadIsMessage DEF PostedMessage, PageStateOK, KeepPage
<1>3. CASE HandleRuntimeTick
  <2>1. polling' \in BOOLEAN
    BY <1>3, <1>0 DEF HandleRuntimeTick, PageStateOK, IsRunning
  <2> QED BY <1>0, <1>3, <2>1 DEF HandleRuntimeTick, PageStateOK, KeepPage
<1>4. CASE WebViewCreated
  BY <1>0, <1>4, MoveType DEF WebViewCreated, PageStateOK, KeepPage
<1>5. CASE PageLoads
  <2>1. Append(posted, <<"ready">>) \in Seq(Messages)
    BY <1>p DEF Commands
  <2> QED BY <1>0, <1>5, <2>1 DEF PageLoads, PageStateOK, AllPages
<1>6. CASE Receive
  <2>1. w.toPage \in Seq(Snapshots) /\ w.toPage # <<>>
    BY <1>0, <1>6 DEF Receive, Windows, Snapshots
  <2>2. Head(w.toPage) \in Snapshots
    BY <2>1
  <2>3. tab' \in AllPages /\ shown' \in BOOLEAN
    BY <1>0, <1>6, <2>2 DEF Receive, Render, Snapshots, PageStateOK
  <2> QED BY <1>0, <1>6, <2>3 DEF Receive, PageStateOK
<1>7. CASE UsePage
  <2>1. posted' \in Seq(Messages) /\ tab' \in AllPages
    BY <1>0, <1>7, <1>p, <1>q DEF UsePage, PageStateOK
  <2> QED BY <1>0, <1>7, <2>1, MoveType DEF UsePage, PageStateOK
<1>8. CASE PollAnswered
  <2>1. posted' \in Seq(Messages)
    BY <1>8, <1>p DEF PollAnswered
  <2> QED BY <1>0, <1>8, <2>1 DEF PollAnswered, PageStateOK
<1>9. CASE ServerListens \/ TimePasses \/ UNCHANGED vars
  BY <1>0, <1>9 DEF ServerListens, TimePasses, vars, PageStateOK, KeepPage
<1>10. CASE ServerExits \/ MachineChanges
  BY <1>0, <1>10, MoveType DEF ServerExits, MachineChanges, PageStateOK, KeepPage
<1> QED BY <1>1, <1>2, <1>3, <1>4, <1>5, <1>6, <1>7, <1>8, <1>9, <1>10 DEF Next

LEMMA SafeStep ==
  ASSUME WindowSafe, [Next]_vars
  PROVE  WindowSafe'
<1>0. AdminTypeOK /\ GoneIsClean /\ NoLateBalloon /\ w \in Windows /\ w.alive \in BOOLEAN
  BY DEF WindowSafe, AdminTypeOK, Windows
<1>1. PageStateOK'
  BY <1>0, PageStateStep
<1>2. CASE w' = w
  BY <1>0, <1>1, <1>2 DEF WindowSafe, AdminTypeOK, GoneIsClean, NoLateBalloon, PageStateOK
<1>3. CASE w.alive /\ Keeps(w, w')
  BY <1>0, <1>1, <1>3 DEF Keeps, Calm, WindowSafe, AdminTypeOK, GoneIsClean, NoLateBalloon, PageStateOK
<1>4. CASE Ended(w')
  BY <1>1, <1>4 DEF Ended, WindowSafe, AdminTypeOK, GoneIsClean, NoLateBalloon, PageStateOK
<1> QED BY <1>0, <1>2, <1>3, <1>4, WindowStep DEF Handled

LEMMA SafeInit == Init => WindowSafe
<1> SUFFICES ASSUME Init PROVE WindowSafe
  OBVIOUS
<1>1. PICK machine \in [blocked : BOOLEAN, runtime : BOOLEAN, taskbar : BOOLEAN, bundle : BOOLEAN] :
        w = Lifecycle(Lifecycle(NewWindow(machine), "startup"), "show")
  BY DEF Init
<1> DEFINE new == NewWindow(machine)
<1>2. new \in Windows /\ new.alive /\ ~new.added
  BY DEF NewWindow, Windows, AllPages, Surfaces
<1> HIDE DEF new
<1>3. Keeps(new, Lifecycle(new, "startup"))
  BY <1>2, PlainEventsKeep
<1>4. Keeps(new, w)
  BY <1>1, <1>3, PlainEventsKeep DEF Keeps, new
<1>5. PageStateOK
  <2>1. <<>> \in Seq(Messages) /\ 0 \in 0..MaxMoves
    BY AdminAssumption
  <2> QED BY <2>1 DEF Init, PageStateOK, AllPages
<1> QED BY <1>2, <1>4, <1>5 DEF Keeps, Calm, WindowSafe, AdminTypeOK, GoneIsClean, NoLateBalloon, PageStateOK

\* A window that is gone has taken its icon and its server with it, and no balloon
\* is left for later, through every order of messages, commands and failures
\* (host_shell_lifecycle_coordinator.cpp:46-72, MainWindow.cpp:2288-2291).
THEOREM WindowIsSafe == Spec => []WindowSafe
  BY SafeInit, SafeStep, PTL DEF Spec

\* No tick, poll, retry or late WebView starts the server: the retry of the page
\* asks for a server that runs (MainWindow.cpp:1677-1704).
THEOREM BackgroundIsQuiet == Spec => BackgroundStartsNothing
<1>1. AdminTypeOK /\ [Next]_vars => [Background => ~(w.server = "stopped" /\ w'.server # "stopped")]_vars
  <2> SUFFICES ASSUME AdminTypeOK, Background PROVE w'.server = w.server
    OBVIOUS
  <2>1. Quietly => w'.server = w.server
    BY DEF Quietly, Aside
  <2> QED BY <2>1, TickCalms, AnsweredStep, WebViewQuietly, RestQuietly DEF Background
<1>2. WindowSafe => AdminTypeOK
  BY DEF WindowSafe
<1> QED BY <1>1, <1>2, WindowIsSafe, PTL DEF Spec, BackgroundStartsNothing
=============================================================================
