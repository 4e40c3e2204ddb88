---------------------------- MODULE ShellAlerts ----------------------------
(* What a native shell makes of the samples it polls: a value counts as stable *)
(* after enough equal samples in a row, a change of a stable value is told to  *)
(* the user, and a notification silences the next ones for some ticks.         *)
(* native_shell_alert_coordinator.cpp and native_shell_status_tracker.cpp.     *)
EXTENDS Naturals, Sequences

CONSTANTS HealthSamples, ViewerSamples, ExitSamples,   \* equal samples that make a value stable
          Cooldown                                     \* ticks without notifications after one

ASSUME AlertAssumption == HealthSamples \in Nat /\ ViewerSamples \in Nat /\ ExitSamples \in Nat /\ Cooldown \in Nat

\* A sample of the service: NativeShellRuntimeState, texts left out.
Runtime == [running : BOOLEAN, healthy : BOOLEAN, attention : BOOLEAN, viewers : Nat]

AtLeastOne(n) == IF n = 0 THEN 1 ELSE n

\* One debounced value; samples counts the equal samples of pending seen last.
Tracks(V, n) == [stable : V, pending : V, samples : 0..(AtLeastOne(n) - 1)]
Memory == [initialized : BOOLEAN, health : Tracks(BOOLEAN, HealthSamples), viewers : Tracks(Nat, ViewerSamples),
           running : Tracks(BOOLEAN, ExitSamples), cooldown : 0..Cooldown]
Track(v) == [stable |-> v, pending |-> v, samples |-> 0]
NoMemory == [initialized |-> FALSE, health |-> Track(FALSE), viewers |-> Track(0), running |-> Track(FALSE), cooldown |-> 0]

Counted(t, v) ==
  IF v = t.stable THEN [t EXCEPT !.samples = 0]
  ELSE IF v = t.pending THEN [t EXCEPT !.samples = @ + 1]
  ELSE [t EXCEPT !.pending = v, !.samples = 1]
Settled(t, n) == IF t.samples >= AtLeastOne(n) THEN [t EXCEPT !.stable = t.pending, !.samples = 0] ELSE t

SampledPastEqual(t, v, n) ==           \* seeded fault: the samples need not be in a row
  IF v = t.stable THEN t ELSE Settled(Counted(t, v), n)
SampledLate(t, v, n) ==                \* seeded fault: one sample too many
  Settled(Counted(t, v), AtLeastOne(n) + 1)
SampledKeepsPending(t, v, n) ==        \* seeded fault: the new value is counted, not remembered
  IF v = t.stable THEN [t EXCEPT !.samples = 0] ELSE Settled([t EXCEPT !.samples = @ + 1], n)
Sampled(t, v, n) == Settled(Counted(t, v), n)

\* What a tick would tell, in the order of the code. A stop the user asked for is
\* told as well: nothing sets stopRequested.
Changes(old, new) ==
  (IF new.health.stable # old.health.stable THEN <<IF new.health.stable THEN "HealthRecovered" ELSE "HealthDegraded">> ELSE <<>>)
  \o (IF new.viewers.stable # old.viewers.stable THEN <<"ViewerCountChanged">> ELSE <<>>)
  \o (IF old.running.stable /\ ~new.running.stable THEN <<"ServerExitedUnexpectedly">> ELSE <<>>)

\* AddNotification drops what falls into the cooldown, which the first
\* notification of a tick starts.
Told(changes, cooldown) ==
  IF cooldown > 0 \/ changes = <<>> THEN <<>> ELSE IF Cooldown > 0 THEN <<Head(changes)>> ELSE changes

FirstSample(r, m) ==
  [m EXCEPT !.initialized = TRUE, !.health = Track(r.healthy), !.viewers = Track(r.viewers), !.running = Track(r.running)]
NextSample(r, m) ==
  [m EXCEPT !.health = Sampled(@, r.healthy, HealthSamples), !.viewers = Sampled(@, r.viewers, ViewerSamples),
            !.running = Sampled(@, r.running, ExitSamples)]

CooledDown(m) == [m EXCEPT !.cooldown = IF @ > 0 THEN @ - 1 ELSE 0]
TickNativeShellAlerts(r, m) ==
  LET cooled == CooledDown(m)
      new == NextSample(r, cooled)
      told == Told(Changes(cooled, new), cooled.cooldown)
  IN  IF ~m.initialized
      THEN [memory |-> FirstSample(r, cooled), notices |-> <<>>]
      ELSE [memory |-> [new EXCEPT !.cooldown = IF told = <<>> THEN @ ELSE Cooldown], notices |-> told]

\* TickNativeShellStatusTracker: what the tray shows for a sample. Trouble shows
\* at once, everything else once it is stable.
Chrome(r, m) ==
  [serverRunning |-> m.running.stable, hostStateSharing |-> m.running.stable,
   attentionNeeded |-> r.attention \/ ~m.health.stable,
   viewerUrlAvailable |-> m.running.stable, shareActionsAvailable |-> m.running.stable,
   viewerCount |-> m.viewers.stable]

BuildTrayIconViewModel(c) ==           \* the badge; the tooltip says the same
  IF ~c.serverRunning THEN "Stopped"
  ELSE IF c.viewerCount > 0 THEN "viewers"
  ELSE IF c.attentionNeeded THEN "Needs attention"
  ELSE IF c.hostStateSharing THEN "Sharing" ELSE "Ready"
BuildTrayMenuViewModel(c) ==
  (IF c.serverRunning THEN {"stopSharing"} ELSE {"startSharing"})
  \cup (IF c.viewerUrlAvailable THEN {"copyViewerUrl"} ELSE {})
  \cup (IF c.shareActionsAvailable THEN {"showQr", "openShareWizard"} ELSE {})
=============================================================================
