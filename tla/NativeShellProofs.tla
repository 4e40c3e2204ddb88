------------------------- MODULE NativeShellProofs -------------------------
(* Proofs about the tray shell, for any numbers of samples, any cooldown and   *)
(* any number of processes, viewers and changes of the machine.                *)
EXTENDS NativeShell, TLAPS

(***************************************************************************)
(* The debouncing of one value.                                            *)
(***************************************************************************)
LEMMA AtLeastOneIsPositive == ASSUME NEW n \in Nat PROVE AtLeastOne(n) \in Nat \ {0} /\ 0 \in 0..(AtLeastOne(n) - 1)
  BY DEF AtLeastOne

\* The three ways to count a sample.
LEMMA CountedCases ==
  ASSUME NEW V, NEW n \in Nat, NEW t \in Tracks(V, n), NEW v \in V
  PROVE  /\ Counted(t, v).stable = t.stable
         /\ v = t.stable => Counted(t, v).pending = t.pending /\ Counted(t, v).samples = 0
         /\ v # t.stable /\ v = t.pending => Counted(t, v).pending = v /\ Counted(t, v).samples = t.samples + 1
         /\ v # t.stable /\ v # t.pending => Counted(t, v).pending = v /\ Counted(t, v).samples = 1
<1>1. CASE v = t.stable
  BY <1>1 DEF Tracks, Counted
<1>2. CASE v # t.stable /\ v = t.pending
  BY <1>2 DEF Tracks, Counted
<1>3. CASE v # t.stable /\ v # t.pending
  BY <1>3 DEF Tracks, Counted
<1> QED BY <1>1, <1>2, <1>3

LEMMA CountedType ==
  ASSUME NEW V, NEW n \in Nat, NEW t \in Tracks(V, n), NEW v \in V
  PROVE  /\ Counted(t, v) \in [stable : V, pending : V, samples : Nat]
         /\ Counted(t, v).samples <= AtLeastOne(n)
<1>1. t.stable \in V /\ t.pending \in V /\ t.samples \in Nat /\ t.samples < AtLeastOne(n)
  BY AtLeastOneIsPositive DEF Tracks
<1>2. Counted(t, v) \in [stable : V, pending : V, samples : Nat]
  <2>1. t \in [stable : V, pending : V, samples : Nat]
    BY AtLeastOneIsPositive DEF Tracks
  <2> HIDE DEF Tracks
  <2>2. CASE v = t.stable
    BY <2>1, <2>2 DEF Counted
  <2>3. CASE v # t.stable /\ v = t.pending
    BY <1>1, <2>1, <2>3 DEF Counted
  <2>4. CASE v # t.stable /\ v # t.pending
    BY <2>1, <2>4 DEF Counted
  <2> QED BY <2>2, <2>3, <2>4
<1>3. Counted(t, v).samples \in {0, 1, t.samples + 1}
  BY CountedCases
<1> QED BY <1>1, <1>2, <1>3, AtLeastOneIsPositive

LEMMA SampledType ==
  ASSUME NEW V, NEW n \in Nat, NEW t \in Tracks(V, n), NEW v \in V
  PROVE  Sampled(t, v, n) \in Tracks(V, n)
<1> DEFINE c == Counted(t, v)
<1>1. c \in [stable : V, pending : V, samples : Nat] /\ c.samples <= AtLeastOne(n)
  BY CountedType
<1>2. Settled(c, n) \in Tracks(V, n)
  <2> HIDE DEF c
  <2>1. CASE c.samples >= AtLeastOne(n)
    BY <1>1, <2>1, AtLeastOneIsPositive DEF Settled, Tracks
  <2>2. CASE ~(c.samples >= AtLeastOne(n))
    <3>1. c.samples \in 0..(AtLeastOne(n) - 1)
      BY <1>1, <2>2, AtLeastOneIsPositive
    <3> QED BY <1>1, <2>2, <3>1 DEF Settled, Tracks
  <2> QED BY <2>1, <2>2
<1> QED BY <1>2 DEF Sampled

\* What the counter means: the last value sampled is the pending one while it
\* counts.
Seen(t, v) == t.samples > 0 => t.pending = v

LEMMA SampledSeen ==
  ASSUME NEW V, NEW n \in Nat, NEW t \in Tracks(V, n), NEW v \in V
  PROVE  Seen(Sampled(t, v, n), v)
<1> DEFINE c == Counted(t, v)
<1>1. c \in [stable : V, pending : V, samples : Nat] /\ Seen(c, v)
  BY CountedType, CountedCases DEF Seen
<1>2. Seen(Settled(c, n), v)
  <2> HIDE DEF c
  <2> QED BY <1>1 DEF Settled, Seen
<1> QED BY <1>2 DEF Sampled

\* A value that becomes stable is the one of this sample and of the one before.
LEMMA SampledTwice ==
  ASSUME NEW V, NEW n \in Nat, n >= 2, NEW t \in Tracks(V, n), NEW v \in V, NEW before,
         Seen(t, before), Sampled(t, v, n).stable # t.stable
  PROVE  Sampled(t, v, n).stable = v /\ before = v
<1> DEFINE c == Counted(t, v)
<1>1. c \in [stable : V, pending : V, samples : Nat] /\ c.stable = t.stable
  BY CountedType, CountedCases
<1>2. c.samples >= 2 /\ Sampled(t, v, n).stable = c.pending
  <2> HIDE DEF c
  <2>1. Settled(c, n).stable # c.stable
    BY <1>1 DEF Sampled, c
  <2>2. c.samples >= AtLeastOne(n) /\ Settled(c, n).stable = c.pending
    BY <1>1, <2>1 DEF Settled
  <2> QED BY <1>1, <2>2 DEF AtLeastOne, Sampled, c
<1>3. v # t.stable /\ v = t.pending /\ t.samples > 0
  <2>1. t.samples \in Nat
    BY AtLeastOneIsPositive DEF Tracks
  <2> QED BY <1>2, <2>1, CountedCases
<1> QED BY <1>2, <1>3, CountedCases DEF Seen

(***************************************************************************)
(* One tick of the alerts.                                                 *)
(***************************************************************************)
LEMMA TrackType == ASSUME NEW V, NEW n \in Nat, NEW v \in V PROVE Track(v) \in Tracks(V, n) /\ Seen(Track(v), v)
  BY AtLeastOneIsPositive DEF Track, Tracks, Seen

LEMMA CoolsDown == ASSUME NEW m \in Memory PROVE CooledDown(m) \in Memory
<1>1. (IF m.cooldown > 0 THEN m.cooldown - 1 ELSE 0) \in 0..Cooldown
  BY AlertAssumption DEF Memory
<1> QED BY <1>1 DEF CooledDown, Memory

\* Apart from the cooldown, the new memory holds the samples.
LEMMA TickMemory ==
  ASSUME NEW r \in Runtime, NEW m \in Memory
  PROVE  LET new == TickNativeShellAlerts(r, m).memory
         IN  /\ new \in Memory /\ new.initialized
             /\ ~m.initialized => /\ new.running = Track(r.running) /\ new.health = Track(r.healthy)
                                  /\ new.viewers = Track(r.viewers)
             /\ m.initialized => /\ new.running = Sampled(m.running, r.running, ExitSamples)
                                 /\ new.health = Sampled(m.health, r.healthy, HealthSamples)
                                 /\ new.viewers = Sampled(m.viewers, r.viewers, ViewerSamples)
<1> DEFINE cooled == CooledDown(m)
           first == FirstSample(r, cooled)
           next == NextSample(r, cooled)
           told == Told(Changes(cooled, next), cooled.cooldown)
           kept == [next EXCEPT !.cooldown = IF told = <<>> THEN @ ELSE Cooldown]
<1>1. cooled \in Memory /\ cooled.initialized = m.initialized /\ cooled.running = m.running
      /\ cooled.health = m.health /\ cooled.viewers = m.viewers
  BY CoolsDown DEF CooledDown, Memory
<1>2. r.running \in BOOLEAN /\ r.healthy \in BOOLEAN /\ r.viewers \in Nat
  BY DEF Runtime
<1>3. m.running \in Tracks(BOOLEAN, ExitSamples) /\ m.health \in Tracks(BOOLEAN, HealthSamples)
      /\ m.viewers \in Tracks(Nat, ViewerSamples)
  BY DEF Memory
<1>4. /\ Track(r.running) \in Tracks(BOOLEAN, ExitSamples) /\ Track(r.healthy) \in Tracks(BOOLEAN, HealthSamples)
      /\ Track(r.viewers) \in Tracks(Nat, ViewerSamples)
  BY <1>2, TrackType, AlertAssumption
<1>5. /\ Sampled(m.running, r.running, ExitSamples) \in Tracks(BOOLEAN, ExitSamples)
      /\ Sampled(m.health, r.healthy, HealthSamples) \in Tracks(BOOLEAN, HealthSamples)
      /\ Sampled(m.viewers, r.viewers, ViewerSamples) \in Tracks(Nat, ViewerSamples)
  BY <1>2, <1>3, SampledType, AlertAssumption
<1>6. first \in Memory /\ first.initialized /\ first.running = Track(r.running) /\ first.health = Track(r.healthy)
      /\ first.viewers = Track(r.viewers)
  <2> HIDE DEF cooled
  <2> QED BY <1>1, <1>4 DEF FirstSample, Memory
<1>7. /\ next \in Memory /\ next.initialized = m.initialized
      /\ next.running = Sampled(m.running, r.running, ExitSamples)
      /\ next.health = Sampled(m.health, r.healthy, HealthSamples)
      /\ next.viewers = Sampled(m.viewers, r.viewers, ViewerSamples)
  <2> HIDE DEF cooled
  <2> QED BY <1>1, <1>5 DEF NextSample, Memory
<1>8. /\ kept \in Memory /\ kept.initialized = next.initialized /\ kept.running = next.running
      /\ kept.health = next.health /\ kept.viewers = next.viewers
  <2> HIDE DEF next, told
  <2>1. Cooldown \in 0..Cooldown
    BY AlertAssumption
  <2> QED BY <1>7, <2>1 DEF Memory
<1>9. TickNativeShellAlerts(r, m).memory = IF ~m.initialized THEN first ELSE kept
  BY DEF TickNativeShellAlerts
<1> HIDE DEF first, next, kept, cooled, told
<1>10. CASE m.initialized
  BY <1>7, <1>8, <1>9, <1>10
<1>11. CASE ~m.initialized
  BY <1>6, <1>9, <1>11
<1> QED BY <1>10, <1>11 DEF Memory

(***************************************************************************)
(* The inductive invariant.                                                *)
(***************************************************************************)
PhaseOK ==
  /\ doing = "quit" => at = "terminate"
  /\ doing = "none" => at = "health"
  /\ at = "terminate" => doing \in {"start", "stop", "quit"} /\ pid # 0
  /\ doing = "start" => pid # 0

Unreaped == {"starting", "serving", "zombie"}
PidOK == pid # 0 => proc[pid] \in Unreaped
Managed == \A p \in Pids : proc[p] \in Unreaped => up /\ pid = p

MemorySeen ==
  memory.initialized => /\ Seen(memory.running, last.running) /\ Seen(memory.health, last.healthy)
                        /\ Seen(memory.viewers, last.viewers)

ShellInvariant == ShellTypeOK /\ PhaseOK /\ PidOK /\ Managed /\ StopIsOffered /\ MemorySeen

(***************************************************************************)
(* The beginning.                                                          *)
(***************************************************************************)
LEMMA ShellInit == Init => ShellInvariant
<1> SUFFICES ASSUME Init PROVE ShellInvariant
  OBVIOUS
<1>1. MaxStarts \in Nat /\ MaxMoves \in Nat /\ MaxViewers \in Nat /\ Probes \in Nat
  BY ShellAssumption
<1>2. 0 \in 0..MaxStarts /\ 0 \in 0..MaxMoves /\ 0 \in 0..MaxViewers /\ 0 \in 0..Probes
  BY <1>1
<1>3. NoMemory \in Memory /\ ~NoMemory.initialized
  <2>1. FALSE \in BOOLEAN
    OBVIOUS
  <2>2. Track(FALSE) \in Tracks(BOOLEAN, HealthSamples) /\ Track(FALSE) \in Tracks(BOOLEAN, ExitSamples)
    BY <2>1, TrackType, AlertAssumption, Zenon
  <2>3. Track(0) \in Tracks(Nat, ViewerSamples) /\ 0 \in 0..Cooldown
    BY TrackType, AlertAssumption
  <2> QED BY <2>2, <2>3 DEF NoMemory, Memory
<1>4. NoTick \in Runtime
  BY <1>1 DEF NoTick, Runtime
<1>5. icon \in IconStates \cup {"fallback"} /\ menu \subseteq Items /\ up \in BOOLEAN
  BY DEF Init, InitialIndicatorIcon, IconStates, LoadGtkApi
<1>6. ShellTypeOK
  BY <1>2, <1>3, <1>4, <1>5 DEF Init, ShellTypeOK
<1>7. PhaseOK /\ PidOK /\ Managed /\ StopIsOffered
  BY DEF Init, PhaseOK, PidOK, Managed, Unreaped, StopIsOffered, Idle
<1>8. MemorySeen
  BY <1>3 DEF Init, MemorySeen
<1> QED BY <1>6, <1>7, <1>8 DEF ShellInvariant

(***************************************************************************)
(* The clicks.                                                             *)
(***************************************************************************)
\* What a click leaves alone, and what it has to show.
LEMMA ClickKeeps ==
  ASSUME ShellInvariant, UNCHANGED <<healthOk, shellVars, viewers, moves>>,
         up' \in BOOLEAN, doing' \in {"tick", "refresh", "start", "stop", "quit"}, at' \in {"health", "status", "terminate"},
         tries' \in 0..Probes, pid' \in 0..MaxStarts, proc' \in [Pids -> {"unused", "starting", "serving", "zombie", "reaped"}],
         PhaseOK', PidOK', Managed'
  PROVE  ShellInvariant'
<1>1. ShellTypeOK'
  BY DEF ShellInvariant, ShellTypeOK, shellVars
<1>2. StopIsOffered'
  BY DEF StopIsOffered, Idle
<1>3. MemorySeen'
  BY DEF ShellInvariant, MemorySeen, shellVars
<1> QED BY <1>1, <1>2, <1>3 DEF ShellInvariant

LEMMA ZeroTries == 0 \in 0..Probes
  BY ShellAssumption

\* A click that only looks, and a stop, a quit or a refresh that begins.
LEMMA ClickLooks ==
  ASSUME ShellInvariant, Idle, UNCHANGED <<healthOk, shellVars, viewers, moves, pid, proc, up>>,
         \/ ThenTick
         \/ Begin("refresh", "health")
         \/ pid # 0 /\ Begin("stop", "terminate")
         \/ pid # 0 /\ Begin("quit", "terminate")
  PROVE  ShellInvariant'
<1>1. /\ doing' \in {"tick", "refresh", "stop", "quit"} /\ at' \in {"health", "terminate"} /\ tries' = 0
      /\ doing' = "quit" => at' = "terminate"
      /\ at' = "terminate" => doing' \in {"stop", "quit"} /\ pid # 0
  BY DEF ThenTick, Begin
<1>2. PhaseOK'
  BY <1>1 DEF PhaseOK
<1>3. PidOK' /\ Managed'
  BY DEF ShellInvariant, PidOK, Managed
<1>4. up' \in BOOLEAN /\ pid' \in 0..MaxStarts /\ proc' \in [Pids -> {"unused", "starting", "serving", "zombie", "reaped"}]
  BY DEF ShellInvariant, ShellTypeOK
<1> QED BY <1>1, <1>2, <1>3, <1>4, ZeroTries, ClickKeeps

LEMMA StartServerKeeps == ASSUME ShellInvariant, OnStartServer PROVE ShellInvariant'
<1>1. CASE ThenTick /\ UNCHANGED <<pid, proc>>
  BY <1>1, ClickLooks DEF OnStartServer, machineVars
<1>2. ASSUME NEW p \in Pids, pid = 0, proc[p] = "unused", pid' = p, proc' = [proc EXCEPT ![p] = "starting"],
             Begin("start", "health")
      PROVE  ShellInvariant'
  <2>1. UNCHANGED <<healthOk, shellVars, viewers, moves, up>> /\ up = TRUE
    BY DEF OnStartServer, machineVars, Idle, ShellInvariant, ShellTypeOK
  <2>2. p \in 0..MaxStarts /\ p # 0
    BY ShellAssumption DEF Pids
  <2>3. doing' = "start" /\ at' = "health" /\ tries' = 0
    BY <1>2 DEF Begin
  <2>4. proc \in [Pids -> {"unused", "starting", "serving", "zombie", "reaped"}]
    BY DEF ShellInvariant, ShellTypeOK
  <2>5. proc' \in [Pids -> {"unused", "starting", "serving", "zombie", "reaped"}] /\ proc'[p] = "starting"
        /\ \A q \in Pids : q # p => proc'[q] = proc[q]
    BY <1>2, <2>4
  <2>6. PhaseOK'
    BY <1>2, <2>2, <2>3 DEF PhaseOK
  <2>7. PidOK'
    BY <1>2, <2>5 DEF PidOK, Unreaped
  <2>8. \A q \in Pids : proc[q] \notin Unreaped
    BY <1>2, <2>2 DEF ShellInvariant, Managed, Pids
  <2>9. Managed'
    BY <1>2, <2>1, <2>5, <2>8 DEF Managed
  <2> QED BY <1>2, <2>1, <2>2, <2>3, <2>5, <2>6, <2>7, <2>9, ZeroTries, ClickKeeps
<1> QED BY <1>1, <1>2 DEF OnStartServer

LEMMA QuitKeeps == ASSUME ShellInvariant, OnQuit PROVE ShellInvariant'
<1>1. CASE pid # 0
  BY <1>1, ClickLooks DEF OnQuit, machineVars
<1>2. CASE pid = 0
  <2>1. up' = FALSE /\ UNCHANGED <<doing, at, tries, healthOk, shellVars, viewers, moves, pid, proc>> /\ doing = "none"
    BY <1>2 DEF OnQuit, machineVars, Idle
  <2>2. \A q \in Pids : proc[q] \notin Unreaped
    BY <1>2, ShellAssumption DEF ShellInvariant, Managed, Pids
  <2>3. ShellTypeOK'
    BY <2>1 DEF ShellInvariant, ShellTypeOK, shellVars
  <2>4. PhaseOK' /\ PidOK' /\ StopIsOffered' /\ MemorySeen'
    BY <2>1 DEF ShellInvariant, PhaseOK, PidOK, StopIsOffered, Idle, MemorySeen, shellVars
  <2>5. Managed'
    BY <2>1, <2>2 DEF Managed
  <2> QED BY <2>3, <2>4, <2>5 DEF ShellInvariant
<1> QED BY <1>1, <1>2

(***************************************************************************)
(* The polls and the end of a process.                                     *)
(***************************************************************************)
LEMMA HealthKeeps == ASSUME ShellInvariant, Health PROVE ShellInvariant'
<1>1. /\ at' = "status" /\ healthOk' \in BOOLEAN /\ UNCHANGED <<up, doing, tries, shellVars, pid, proc, viewers>>
      /\ doing \notin {"none", "quit"}
  BY DEF Health, machineVars, ShellInvariant, PhaseOK
<1>2. moves' \in 0..MaxMoves
  <2>1. moves' = moves \/ Move
    BY DEF Health, Answered
  <2> QED BY <2>1, ShellAssumption DEF Move, ShellInvariant, ShellTypeOK
<1>3. ShellTypeOK'
  BY <1>1, <1>2 DEF ShellInvariant, ShellTypeOK, shellVars
<1>4. PhaseOK' /\ PidOK' /\ Managed' /\ StopIsOffered' /\ MemorySeen'
  BY <1>1 DEF ShellInvariant, PhaseOK, PidOK, Managed, StopIsOffered, Idle, MemorySeen, shellVars
<1> QED BY <1>3, <1>4 DEF ShellInvariant

LEMMA TerminateKeeps == ASSUME ShellInvariant, Terminate PROVE ShellInvariant'
<1>1. /\ proc' = [proc EXCEPT ![pid] = "reaped"] /\ pid' = 0 /\ up' \in BOOLEAN
      /\ doing' \in {"stop", "tick"} /\ at' = "health" /\ tries' = 0
      /\ UNCHANGED <<healthOk, shellVars, moves>>
  BY DEF Terminate, Begin, ThenTick
<1>2. pid \in Pids /\ proc \in [Pids -> {"unused", "starting", "serving", "zombie", "reaped"}]
  BY ShellAssumption DEF Terminate, ShellInvariant, ShellTypeOK, PhaseOK, Pids
<1>3. viewers' \in 0..MaxViewers
  <2>1. viewers' \in {viewers, 0}
    BY DEF Terminate, KeepViewers
  <2> QED BY <2>1, ShellAssumption DEF ShellInvariant, ShellTypeOK
<1>4. 0 \in 0..MaxStarts
  BY ShellAssumption
<1>5. ShellTypeOK'
  BY <1>1, <1>2, <1>3, <1>4, ZeroTries DEF ShellInvariant, ShellTypeOK, shellVars
<1>6. \A p \in Pids : proc'[p] \notin Unreaped
  BY <1>1, <1>2 DEF ShellInvariant, Managed, Unreaped
<1>7. Managed' /\ PidOK'
  BY <1>1, <1>6 DEF Managed, PidOK
<1>8. PhaseOK' /\ StopIsOffered' /\ MemorySeen'
  BY <1>1 DEF ShellInvariant, PhaseOK, StopIsOffered, Idle, MemorySeen, shellVars
<1> QED BY <1>5, <1>7, <1>8 DEF ShellInvariant

LEMMA SnapshotType ==
  ASSUME NEW health \in BOOLEAN, NEW status \in BOOLEAN, NEW n \in Nat
  PROVE  Snapshot(health, status, n) \in Runtime
<1>1. (IF status THEN n ELSE 0) \in Nat
  <2>1. CASE status
    BY <2>1
  <2>2. CASE ~status
    BY <2>2
  <2> QED BY <2>1, <2>2
<1>2. (health \/ status) \in BOOLEAN /\ (~health) \in BOOLEAN
  OBVIOUS
<1>3. \A a, b, c \in BOOLEAN, k \in Nat :
        [running |-> a, healthy |-> b, attention |-> c, viewers |-> k] \in Runtime
  BY DEF Runtime
<1> QED BY <1>1, <1>2, <1>3, Zenon DEF Snapshot

\* What a tick shows: the menu has its stop item while a process is managed.
LEMMA TickKeeps ==
  ASSUME ShellInvariant, NEW r \in Runtime, Tick(r), UNCHANGED <<pid, proc>>
  PROVE  /\ last' \in Runtime /\ memory' \in Memory /\ menu' \subseteq Items /\ icon' \in IconStates \cup {"fallback"}
         /\ MemorySeen'
         /\ pid # 0 => "stopServer" \in menu'
<1>1. memory \in Memory /\ last' = r /\ memory' = TickNativeShellAlerts(r, memory).memory
  BY DEF Tick, ShellInvariant, ShellTypeOK
<1>2. memory' \in Memory
  BY <1>1, TickMemory
<1>3. icon' \in IconStates \cup {"fallback"}
  <2>1. icon \in IconStates \cup {"fallback"}
    BY DEF ShellInvariant, ShellTypeOK
  <2> QED BY <2>1 DEF Tick, UpdateIndicatorIcon, SelectLinuxTrayIconState, IconStates
<1>4. menu' \subseteq Items /\ (pid # 0 => "stopServer" \in menu')
  <2>1. menu' = Menu(r, memory')
    BY <1>1 DEF Tick
  <2>2. pid # 0 => IsServerRunning
    BY DEF ShellInvariant, PidOK, IsServerRunning, Unreaped
  <2>3. \A m : Menu(r, m) \subseteq Items /\ (IsServerRunning => "stopServer" \in Menu(r, m))
    BY DEF Menu, Items
  <2> QED BY <2>1, <2>2, <2>3
<1>5. MemorySeen'
  <2>1. r.running \in BOOLEAN /\ r.healthy \in BOOLEAN /\ r.viewers \in Nat
    BY DEF Runtime
  <2>2. memory.running \in Tracks(BOOLEAN, ExitSamples) /\ memory.health \in Tracks(BOOLEAN, HealthSamples)
        /\ memory.viewers \in Tracks(Nat, ViewerSamples)
    BY <1>1 DEF Memory
  <2>3. CASE memory.initialized
    <3>1. Seen(memory'.running, r.running) /\ Seen(memory'.health, r.healthy) /\ Seen(memory'.viewers, r.viewers)
      BY <1>1, <2>1, <2>2, <2>3, TickMemory, SampledSeen, AlertAssumption
    <3> QED BY <1>1, <3>1 DEF MemorySeen
  <2>4. CASE ~memory.initialized
    <3>1. Seen(memory'.running, r.running) /\ Seen(memory'.health, r.healthy) /\ Seen(memory'.viewers, r.viewers)
      BY <1>1, <2>1, <2>4, TickMemory, TrackType, AlertAssumption
    <3> QED BY <1>1, <3>1 DEF MemorySeen
  <2> QED BY <1>1, <2>3, <2>4 DEF Memory
<1> QED BY <1>1, <1>2, <1>3, <1>4, <1>5

LEMMA StatusKeeps == ASSUME ShellInvariant, Status PROVE ShellInvariant'
<1>1. PICK ok \in BOOLEAN :
        /\ Answered(ok)
        /\ LET r == Snapshot(healthOk, ok, viewers)
           IN  CASE doing = "tick"    -> Tick(r) /\ Begin("none", "health")
                 [] doing = "refresh" -> ThenTick /\ UNCHANGED shellVars
                 [] doing = "start"   -> WaitForLiveCondition(healthOk /\ ok, Begin("start", "terminate")) /\ UNCHANGED shellVars
                 [] doing = "stop"    -> WaitForLiveCondition(~healthOk /\ ~ok, ThenTick) /\ UNCHANGED shellVars
  BY DEF Status
<1>2. up /\ at = "status" /\ healthOk' = FALSE /\ UNCHANGED <<up, pid, proc, viewers>>
  BY DEF Status, machineVars
<1>3. doing \in {"tick", "refresh", "start", "stop"}
  BY <1>2 DEF ShellInvariant, ShellTypeOK, PhaseOK
<1>4. moves' \in 0..MaxMoves
  <2>1. moves' = moves \/ Move
    BY <1>1 DEF Answered
  <2> QED BY <2>1, ShellAssumption DEF Move, ShellInvariant, ShellTypeOK
<1>5. Snapshot(healthOk, ok, viewers) \in Runtime
  <2>1. viewers \in Nat /\ healthOk \in BOOLEAN
    BY ShellAssumption DEF ShellInvariant, ShellTypeOK
  <2> QED BY <2>1, SnapshotType
<1>6. PidOK' /\ Managed'
  BY <1>2 DEF ShellInvariant, PidOK, Managed
<1>7. CASE doing = "tick"
  <2>1. Tick(Snapshot(healthOk, ok, viewers)) /\ Begin("none", "health")
    BY <1>1, <1>7
  <2>2. /\ last' \in Runtime /\ memory' \in Memory /\ menu' \subseteq Items /\ icon' \in IconStates \cup {"fallback"}
        /\ MemorySeen' /\ (pid # 0 => "stopServer" \in menu')
    BY <1>2, <1>5, <2>1, TickKeeps
  <2>3. doing' = "none" /\ at' = "health" /\ tries' = 0
    BY <2>1 DEF Begin
  <2>4. ShellTypeOK'
    BY <1>2, <1>4, <2>2, <2>3, ZeroTries DEF ShellInvariant, ShellTypeOK
  <2>5. PhaseOK' /\ StopIsOffered'
    BY <1>2, <2>2, <2>3 DEF PhaseOK, StopIsOffered
  <2> QED BY <1>6, <2>2, <2>4, <2>5 DEF ShellInvariant
<1>8. CASE doing # "tick"
  <2>1. /\ UNCHANGED shellVars
        /\ \/ ThenTick
           \/ doing = "start" /\ Begin("start", "terminate")
           \/ at' = "health" /\ tries + 1 < Probes /\ tries' = tries + 1 /\ UNCHANGED doing
    <3>1. CASE doing = "refresh"
      BY <1>1, <3>1
    <3>2. CASE doing = "start"
      BY <1>1, <3>2 DEF WaitForLiveCondition
    <3>3. CASE doing = "stop"
      BY <1>1, <3>3 DEF WaitForLiveCondition
    <3> QED BY <1>3, <1>8, <3>1, <3>2, <3>3
  <2>2. tries' \in 0..Probes
    BY <2>1, ZeroTries, ShellAssumption DEF ThenTick, Begin, ShellInvariant, ShellTypeOK
  <2>3. /\ doing' \in {"tick", "start", "stop", "refresh"} /\ at' \in {"health", "terminate"}
        /\ at' = "terminate" => doing' = "start"
        /\ doing' = "start" => doing = "start"
    BY <1>3, <2>1 DEF ThenTick, Begin
  <2>4. ShellTypeOK'
    BY <1>2, <1>4, <2>1, <2>2, <2>3 DEF ShellInvariant, ShellTypeOK, shellVars
  <2>5. PhaseOK' /\ StopIsOffered' /\ MemorySeen'
    BY <1>2, <2>1, <2>3 DEF ShellInvariant, PhaseOK, StopIsOffered, Idle, MemorySeen, shellVars
  <2> QED BY <1>6, <2>4, <2>5 DEF ShellInvariant
<1> QED BY <1>7, <1>8

(***************************************************************************)
(* The machine.                                                            *)
(***************************************************************************)
LEMMA MachineKeepsInvariant ==
  ASSUME ShellInvariant, MachineKeeps, viewers' \in 0..MaxViewers, moves' \in 0..MaxMoves,
         proc' \in [Pids -> {"unused", "starting", "serving", "zombie", "reaped"}],
         \A p \in Pids : proc'[p] \in Unreaped <=> proc[p] \in Unreaped
  PROVE  ShellInvariant'
<1>1. UNCHANGED <<up, doing, at, tries, healthOk, last, memory, menu, icon, pid>>
  BY DEF MachineKeeps, shellVars
<1>2. ShellTypeOK'
  BY <1>1 DEF ShellInvariant, ShellTypeOK
<1>3. PhaseOK' /\ StopIsOffered' /\ MemorySeen'
  BY <1>1 DEF ShellInvariant, PhaseOK, StopIsOffered, Idle, MemorySeen
<1>4. pid # 0 => pid \in Pids
  BY ShellAssumption DEF ShellInvariant, ShellTypeOK, Pids
<1>5. PidOK'
  BY <1>1, <1>4 DEF ShellInvariant, PidOK
<1>6. Managed'
  BY <1>1 DEF ShellInvariant, Managed
<1> QED BY <1>2, <1>3, <1>5, <1>6 DEF ShellInvariant

LEMMA MachineStep == ASSUME ShellInvariant, Machine PROVE ShellInvariant'
<1>1. proc \in [Pids -> {"unused", "starting", "serving", "zombie", "reaped"}] /\ viewers \in 0..MaxViewers /\ moves \in 0..MaxMoves
  BY DEF ShellInvariant, ShellTypeOK
<1>2. Move => moves' \in 0..MaxMoves
  BY <1>1, ShellAssumption DEF Move
<1>3. 0 \in 0..MaxViewers
  BY ShellAssumption
<1>4. ASSUME NEW p \in Pids, ChildListens(p) PROVE ShellInvariant'
  <2>1. proc' \in [Pids -> {"unused", "starting", "serving", "zombie", "reaped"}]
        /\ \A q \in Pids : proc'[q] \in Unreaped <=> proc[q] \in Unreaped
    BY <1>1, <1>4 DEF ChildListens, Unreaped
  <2>2. MachineKeeps /\ viewers' = viewers /\ moves' = moves
    BY <1>4 DEF ChildListens, machineVars
  <2> QED BY <1>1, <2>1, <2>2, MachineKeepsInvariant
<1>5. ASSUME NEW p \in Pids, ChildExits(p) PROVE ShellInvariant'
  <2>1. proc' \in [Pids -> {"unused", "starting", "serving", "zombie", "reaped"}]
        /\ \A q \in Pids : proc'[q] \in Unreaped <=> proc[q] \in Unreaped
    BY <1>1, <1>5 DEF ChildExits, Unreaped
  <2>2. MachineKeeps /\ viewers' \in {viewers, 0} /\ Move
    BY <1>5 DEF ChildExits, KeepViewers
  <2> QED BY <1>1, <1>2, <1>3, <2>1, <2>2, MachineKeepsInvariant
<1>6. CASE OtherServes
  BY <1>1, <1>2, <1>3, <1>6, MachineKeepsInvariant DEF OtherServes
<1>7. CASE ViewersMove
  <2>1. MachineKeeps /\ viewers' \in 0..MaxViewers /\ Move /\ proc' = proc
    BY <1>7 DEF ViewersMove
  <2> QED BY <1>1, <1>2, <2>1, MachineKeepsInvariant
<1> QED BY <1>4, <1>5, <1>6, <1>7 DEF Machine

LEMMA ShellStep == ShellInvariant /\ [Next]_vars => ShellInvariant'
<1> SUFFICES ASSUME ShellInvariant, [Next]_vars PROVE ShellInvariant'
  OBVIOUS
<1>1. CASE OnPoll \/ OnOpen \/ OnExportDiagnostics \/ OnRefreshDashboard \/ OnStopServer
  BY <1>1, ClickLooks DEF OnPoll, OnOpen, OnExportDiagnostics, OnRefreshDashboard, OnStopServer, machineVars
<1>2. CASE UNCHANGED vars
  BY <1>2 DEF vars, shellVars, machineVars, ShellInvariant, ShellTypeOK, PhaseOK, PidOK, Managed, StopIsOffered,
     Idle, MemorySeen
<1> QED BY <1>1, <1>2, HealthKeeps, StatusKeeps, TerminateKeeps, StartServerKeeps, QuitKeeps, MachineStep
     DEF Next, Thread, Click

\* The invariant above holds in every state of every behaviour.
THEOREM ShellSafe == Spec => []ShellInvariant
  BY ShellInit, ShellStep, PTL DEF Spec

\* No server process gets lost, however clicks, timers, deaths and timeouts follow
\* one another, and the state keeps its type
\* (native_shell_action_controller.cpp:216-300).
THEOREM ShellLosesNoServer == Spec => []NoServerLost
<1>1. ShellInvariant => NoServerLost
  BY DEF ShellInvariant, NoServerLost, Managed, Unreaped
<1> QED BY <1>1, ShellSafe, PTL

\* The menu offers to stop a managed process, dead or alive, whatever the samples
\* say (native_shell_action_controller.cpp:260).
THEOREM ShellOffersStop == Spec => []StopIsOffered
<1>1. ShellInvariant => StopIsOffered
  BY DEF ShellInvariant
<1> QED BY <1>1, ShellSafe, PTL

(***************************************************************************)
(* What a step may change of the samples.                                  *)
(***************************************************************************)
Debounced ==
  memory.initialized =>
    /\ memory'.running.stable # memory.running.stable => {last.running, last'.running} = {memory'.running.stable}
    /\ memory'.health.stable # memory.health.stable => {last.healthy, last'.healthy} = {memory'.health.stable}
    /\ memory'.viewers.stable # memory.viewers.stable => {last.viewers, last'.viewers} = {memory'.viewers.stable}

LEMMA DebouncedTick ==
  ASSUME HealthSamples >= 2, ViewerSamples >= 2, ExitSamples >= 2, ShellInvariant,
         NEW r \in Runtime, Tick(r)
  PROVE  Debounced
<1> SUFFICES ASSUME memory.initialized PROVE Debounced
  BY DEF Debounced
<1>1. memory \in Memory /\ last' = r /\ memory' = TickNativeShellAlerts(r, memory).memory
  BY DEF Tick, ShellInvariant, ShellTypeOK
<1>2. r.running \in BOOLEAN /\ r.healthy \in BOOLEAN /\ r.viewers \in Nat
  BY DEF Runtime
<1>3. memory.running \in Tracks(BOOLEAN, ExitSamples) /\ memory.health \in Tracks(BOOLEAN, HealthSamples)
      /\ memory.viewers \in Tracks(Nat, ViewerSamples)
  BY <1>1 DEF Memory
<1>4. Seen(memory.running, last.running) /\ Seen(memory.health, last.healthy) /\ Seen(memory.viewers, last.viewers)
  BY DEF ShellInvariant, MemorySeen
<1>5. /\ memory'.running = Sampled(memory.running, r.running, ExitSamples)
      /\ memory'.health = Sampled(memory.health, r.healthy, HealthSamples)
      /\ memory'.viewers = Sampled(memory.viewers, r.viewers, ViewerSamples)
  BY <1>1, TickMemory
<1>6. memory'.running.stable # memory.running.stable
        => memory'.running.stable = last'.running /\ last.running = last'.running
  BY <1>1, <1>2, <1>3, <1>4, <1>5, SampledTwice, AlertAssumption
<1>7. memory'.health.stable # memory.health.stable
        => memory'.health.stable = last'.healthy /\ last.healthy = last'.healthy
  BY <1>1, <1>2, <1>3, <1>4, <1>5, SampledTwice, AlertAssumption
<1>8. memory'.viewers.stable # memory.viewers.stable
        => memory'.viewers.stable = last'.viewers /\ last.viewers = last'.viewers
  BY <1>1, <1>2, <1>3, <1>4, <1>5, SampledTwice, AlertAssumption
<1> QED BY <1>6, <1>7, <1>8 DEF Debounced

LEMMA DebouncedStep ==
  ASSUME HealthSamples >= 2, ViewerSamples >= 2, ExitSamples >= 2, ShellInvariant, [Next]_vars
  PROVE  [Debounced]_vars
<1>1. CASE UNCHANGED shellVars
  BY <1>1 DEF Debounced, shellVars
<1>2. CASE Status
  <2>1. PICK ok \in BOOLEAN :
          LET r == Snapshot(healthOk, ok, viewers)
          IN  CASE doing = "tick"    -> Tick(r) /\ Begin("none", "health")
                [] doing = "refresh" -> ThenTick /\ UNCHANGED shellVars
                [] doing = "start"   -> WaitForLiveCondition(healthOk /\ ok, Begin("start", "terminate")) /\ UNCHANGED shellVars
                [] doing = "stop"    -> WaitForLiveCondition(~healthOk /\ ~ok, ThenTick) /\ UNCHANGED shellVars
    BY <1>2 DEF Status
  <2>2. doing \in {"tick", "refresh", "start", "stop"}
    BY <1>2 DEF Status, ShellInvariant, ShellTypeOK, PhaseOK
  <2>3. CASE doing = "tick"
    <3>1. viewers \in Nat /\ healthOk \in BOOLEAN
      BY ShellAssumption DEF ShellInvariant, ShellTypeOK
    <3> QED BY <2>1, <2>3, <3>1, SnapshotType, DebouncedTick
  <2>4. CASE doing # "tick"
    BY <1>1, <2>1, <2>2, <2>4
  <2> QED BY <2>3, <2>4
<1>3. CASE ~Status
  <2>1. UNCHANGED vars => UNCHANGED shellVars
    BY DEF vars
  <2>2. Health \/ Terminate \/ OnPoll \/ Click => UNCHANGED shellVars
    BY DEF Health, Terminate, OnPoll, Click, OnOpen, OnExportDiagnostics, OnRefreshDashboard, OnStartServer,
       OnStopServer, OnQuit
  <2>3. Machine => UNCHANGED shellVars
    BY DEF Machine, ChildListens, ChildExits, OtherServes, ViewersMove, MachineKeeps
  <2> QED BY <1>1, <1>3, <2>1, <2>2, <2>3 DEF Next, Thread
<1> QED BY <1>2, <1>3

\* Where every value takes two samples at least, one odd answer to a poll moves
\* neither the menu nor the notifications
\* (native_shell_alert_coordinator.cpp:36-123).
THEOREM ShellDebounces ==
  ASSUME HealthSamples >= 2, ViewerSamples >= 2, ExitSamples >= 2
  PROVE  Spec => ChangesAreDebounced
<1>1. ShellInvariant /\ [Next]_vars => [Debounced]_vars
  BY DebouncedStep
<1>2. Spec => [][Debounced]_vars
  BY <1>1, ShellSafe, PTL DEF Spec
<1> QED BY <1>2 DEF Debounced, ChangesAreDebounced
=============================================================================
