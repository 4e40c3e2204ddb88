------------------------- MODULE DesktopHostProofs -------------------------
(* Proofs about the desktop host's window, for any ports, names, requests and  *)
(* draws and for any number of commands, crashes and viewers.                  *)
EXTENDS DesktopHost, FiniteSetTheorems, TLAPS

(***************************************************************************)
(* The session: every way to change it keeps its type, and the flags stay  *)
(* only if the configuration does (host_session_coordinator.cpp).          *)
(***************************************************************************)
FlagsKeepConfig(prior, new) == new.flags = {} \/ (new.flags = prior.flags /\ new.config = prior.config)

LEMMA TextTypes == /\ Empty \in Texts
                   /\ \A n \in Names : Text(n) \in Texts
                   /\ \A t \in Texts : Trim(t) \in Texts
  BY DEF Empty, Text, Texts, Trim

LEMMA NormalizeType == ASSUME NEW c \in Drafts PROVE NormalizeConfig(c) \in Configs
<1>1. (IF c.bind = "" THEN DefaultBind ELSE c.bind) \in Binds
  BY SessionAssumption DEF Drafts
<1>2. (IF c.port \in Ports THEN c.port ELSE DefaultPort) \in Ports
  BY SessionAssumption
<1> QED BY <1>1, <1>2 DEF NormalizeConfig, Drafts, Configs

LEMMA MutationResult ==
  ASSUME NEW prior \in Sessions, NEW config \in Configs, NEW generated \in BOOLEAN
  PROVE  LET new == BuildMutationResult(prior, config, generated)
         IN  new \in Sessions /\ FlagsKeepConfig(prior, new)
<1>1. prior.flags \in SUBSET Flags /\ {} \in SUBSET Flags
  BY DEF Sessions
<1>2. CASE config # prior.config \/ generated
  BY <1>1, <1>2 DEF BuildMutationResult, Sessions, FlagsKeepConfig
<1>3. CASE ~(config # prior.config \/ generated)
  BY <1>1, <1>3 DEF BuildMutationResult, Sessions, FlagsKeepConfig
<1> QED BY <1>2, <1>3

LEMMA SessionApplied ==
  ASSUME NEW s \in Sessions, NEW r \in Drafts
  PROVE  LET new == ApplyHostSessionConfig(s, r.room, r.token, r.bind, r.port)
         IN  new \in Sessions /\ FlagsKeepConfig(s, new)
<1>1. [bind |-> r.bind, port |-> r.port, room |-> r.room, token |-> r.token] \in Drafts
  BY DEF Drafts
<1> QED BY <1>1, NormalizeType, MutationResult DEF ApplyHostSessionConfig

LEMMA SessionEnsured ==
  ASSUME NEW s \in Sessions, NEW a \in Names, NEW b \in Names
  PROVE  LET new == EnsureHostSessionCredentials(s, a, b)
         IN  new \in Sessions /\ FlagsKeepConfig(s, new)
<1> DEFINE config == [s.config EXCEPT !.room = IF @ = Empty THEN Text(a) ELSE @, !.token = IF @ = Empty THEN Text(b) ELSE @]
<1>1. s.config \in Configs
  BY DEF Sessions
<1>2. (IF s.config.room = Empty THEN Text(a) ELSE s.config.room) \in Texts
      /\ (IF s.config.token = Empty THEN Text(b) ELSE s.config.token) \in Texts
  BY <1>1, TextTypes DEF Configs
<1>3. config \in Configs
  BY <1>1, <1>2 DEF Configs
<1>4. (Empty \in {s.config.room, s.config.token}) \in BOOLEAN
  OBVIOUS
<1> QED BY <1>3, <1>4, MutationResult DEF EnsureHostSessionCredentials

LEMMA SessionGenerated ==
  ASSUME NEW s, s.config \in [bind : Binds, port : Ports, room : Texts, token : Texts], NEW a \in Names, NEW b \in Names
  PROVE  LET new == GenerateHostSessionCredentials(s, a, b)
         IN  new \in Sessions /\ new.flags = {}
<1>1. [s.config EXCEPT !.room = Text(a), !.token = Text(b)] \in Configs
  BY TextTypes DEF Configs
<1>2. {} \in SUBSET Flags
  OBVIOUS
<1> QED BY <1>1, <1>2 DEF GenerateHostSessionCredentials, BuildMutationResult, Sessions

LEMMA SessionEdited ==
  ASSUME NEW s \in Sessions
  PROVE  LET new == ApplyDesktopEditSessionDraft(s, BuildDesktopEditSessionDraft(s))
         IN  new \in Sessions /\ FlagsKeepConfig(s, new)
<1> DEFINE c == s.config
           draft == [bind |-> c.bind, room |-> Trim(c.room), token |-> Trim(c.token),
                     port |-> IF TryParsePort(c.port) THEN c.port ELSE "none"]
           changed == DraftConfig(c) # c \/ ~TryParsePort(c.port)
<1>1. c \in Configs /\ s.flags \in SUBSET Flags /\ {} \in SUBSET Flags
  BY DEF Sessions
<1>2. draft \in Drafts
  BY <1>1, TextTypes DEF Configs, Drafts, PortTexts
<1>3. DraftConfig(c) \in Configs
  BY <1>2, NormalizeType DEF DraftConfig
<1>4. ApplyDesktopEditSessionDraft(s, BuildDesktopEditSessionDraft(s))
        = [config |-> DraftConfig(c), flags |-> IF changed THEN {} ELSE s.flags]
  BY DEF ApplyDesktopEditSessionDraft, BuildDesktopEditSessionDraft
<1> HIDE DEF c, draft
<1>5. CASE changed
  BY <1>1, <1>3, <1>4, <1>5 DEF Sessions, FlagsKeepConfig
<1>6. CASE ~changed
  BY <1>1, <1>3, <1>4, <1>6 DEF Sessions, FlagsKeepConfig, c
<1> QED BY <1>5, <1>6

\* What a start does with the session before it looks at the port.
LEMMA SessionStarted ==
  ASSUME NEW s \in Sessions, NEW a \in Names, NEW b \in Names
  PROVE  LET new == EnsureHostSessionCredentials(ApplyDesktopEditSessionDraft(s, BuildDesktopEditSessionDraft(s)), a, b)
         IN  new \in Sessions /\ FlagsKeepConfig(s, new)
<1> DEFINE edited == ApplyDesktopEditSessionDraft(s, BuildDesktopEditSessionDraft(s))
           new == EnsureHostSessionCredentials(edited, a, b)
<1>1. edited \in Sessions /\ FlagsKeepConfig(s, edited)
  BY SessionEdited
<1> HIDE DEF edited
<1>2. new \in Sessions /\ FlagsKeepConfig(edited, new)
  BY <1>1, SessionEnsured
<1> HIDE DEF new
<1>3. FlagsKeepConfig(s, new)
  BY <1>1, <1>2 DEF FlagsKeepConfig
<1> QED BY <1>2, <1>3 DEF new, edited

(***************************************************************************)
(* The child process and the threads that read its output.                 *)
(***************************************************************************)
AllHandles == Pipes \cup {"process"}
HandlesOK ==
  /\ handles \in {{}, AllHandles}
  /\ handles = {} <=> child = NoChild
  /\ call = "terminate" => handles = AllHandles
  /\ call = "spawn" => handles = {}
ReadersOK ==
  /\ \A p \in Pipes : reader[p] = "running" => handles = AllHandles
  /\ call \in {"closeToStop", "closeToStart", "spawn"} => \A p \in Pipes : reader[p] = "none"
StoppingOK == call \notin {"none", "terminate"} => ~running

ControllerInvariant == ControllerTypeOK /\ HandlesOK /\ ReadersOK /\ StoppingOK

\* All that can happen to the controller's state: a step of a call, a reader, the
\* child, a port that changes hands, or the end of the app.
OwnerMoves == owner' \in [Ports -> Owners] /\ UNCHANGED <<child, running, stopReaders, handles, reader, call>>
Crashed ==
  /\ child' = NoChild /\ running' = FALSE /\ stopReaders' = FALSE /\ handles' = {} /\ call' = "none"
  /\ reader' = [p \in Pipes |-> "none"] /\ owner' \in [Ports -> Owners]
ControllerMoves ==
  \/ CallStop \/ CallStart \/ Terminate \/ Join \/ Close \/ (\E p \in Ports : Spawn(p)) \/ SpawnFails
  \/ (\E p \in Pipes : ReaderEnds(p)) \/ ChildListens \/ ChildExits \/ OwnerMoves \/ Crashed

LEMMA ControllerInitial == ControllerInit => ControllerInvariant
  BY DEF ControllerInit, ControllerInvariant, ControllerTypeOK, HandlesOK, ReadersOK, StoppingOK, AllHandles, Children,
     NoChild, Owners, Calls, Pipes

LEMMA ChildIs == ASSUME ControllerTypeOK, child # NoChild PROVE child \in [state : {"live", "exited"}, port : Ports]
  BY DEF ControllerTypeOK, Children
LEMMA NoChildIsNone == NoChild.state = "none" /\ NoChild \in Children
  BY DEF NoChild, Children
LEMMA FreedType == ASSUME ControllerTypeOK PROVE Freed \in [Ports -> Owners]
<1>1. owner \in [Ports -> Owners] /\ "free" \in Owners
  BY DEF ControllerTypeOK, Owners
<1> QED BY <1>1 DEF Freed
LEMMA Exited ==
  ASSUME ControllerTypeOK, child # NoChild
  PROVE  [child EXCEPT !.state = "exited"] \in Children \ {NoChild}
<1>1. child \in [state : {"live", "exited"}, port : Ports]
  BY ChildIs
<1>2. [child EXCEPT !.state = "exited"] \in [state : {"live", "exited"}, port : Ports]
      /\ [child EXCEPT !.state = "exited"].state = "exited"
  BY <1>1
<1> QED BY <1>2, NoChildIsNone DEF Children

LEMMA ControllerCalls ==
  ASSUME ControllerInvariant, CallStop \/ CallStart \/ Terminate \/ Join \/ SpawnFails
  PROVE  ControllerInvariant'
<1>1. ControllerTypeOK /\ HandlesOK /\ ReadersOK /\ StoppingOK
  BY DEF ControllerInvariant
<1>2. CASE CallStop
  BY <1>1, <1>2 DEF CallStop, ControllerInvariant, ControllerTypeOK, HandlesOK, ReadersOK, StoppingOK, AllHandles, Calls
<1>3. CASE CallStart
  BY <1>1, <1>3 DEF CallStart, ControllerInvariant, ControllerTypeOK, HandlesOK, ReadersOK, StoppingOK, Calls
<1>4. CASE SpawnFails
  BY <1>1, <1>4 DEF SpawnFails, ControllerInvariant, ControllerTypeOK, HandlesOK, ReadersOK, StoppingOK, Calls
<1>5. CASE Terminate
  <2>1. /\ call = "terminate" /\ running' = FALSE /\ call' = "joinToStop" /\ UNCHANGED <<stopReaders, handles, reader>>
        /\ \/ child' = [child EXCEPT !.state = "exited"] /\ owner' = Freed
           \/ UNCHANGED <<child, owner>>
    BY <1>5 DEF Terminate
  <2>2. child # NoChild
    BY <1>1, <2>1 DEF HandlesOK, AllHandles
  <2>3. child' \in Children /\ child' # NoChild /\ owner' \in [Ports -> Owners]
    BY <1>1, <2>1, <2>2, Exited, FreedType DEF ControllerTypeOK
  <2>4. ControllerTypeOK'
    BY <1>1, <2>1, <2>3 DEF ControllerTypeOK, Calls
  <2>5. HandlesOK' /\ ReadersOK' /\ StoppingOK'
    BY <1>1, <2>1, <2>2, <2>3 DEF HandlesOK, ReadersOK, StoppingOK
  <2> QED BY <2>4, <2>5 DEF ControllerInvariant
<1>6. CASE Join
  <2>1. /\ call \in {"joinToStop", "joinToStart"} /\ call' \in {"closeToStop", "closeToStart"}
        /\ reader' = [p \in Pipes |-> "none"] /\ UNCHANGED <<child, owner, running, stopReaders, handles>>
    BY <1>6 DEF Join
  <2> QED BY <1>1, <2>1 DEF ControllerInvariant, ControllerTypeOK, HandlesOK, ReadersOK, StoppingOK, Calls
<1> QED BY <1>2, <1>3, <1>4, <1>5, <1>6

LEMMA ControllerStays == ASSUME ControllerInvariant, ControllerMoves PROVE ControllerInvariant'
<1>1. ControllerTypeOK /\ HandlesOK /\ ReadersOK /\ StoppingOK
  BY DEF ControllerInvariant
<1>2. CASE Close
  <2>1. /\ call \in {"closeToStop", "closeToStart"} /\ call' \in {"none", "spawn"}
        /\ handles' = {} /\ child' = NoChild /\ UNCHANGED <<running, stopReaders, reader>>
        /\ owner' \in {owner, [owner EXCEPT ![child.port] = "server"]}
    BY <1>2 DEF Close
  <2>2. owner' \in [Ports -> Owners]
    BY <1>1, <2>1 DEF ControllerTypeOK, Owners
  <2> QED BY <1>1, <2>1, <2>2, NoChildIsNone
          DEF ControllerInvariant, ControllerTypeOK, HandlesOK, ReadersOK, StoppingOK, Calls, AllHandles
<1>3. ASSUME NEW port \in Ports, Spawn(port) PROVE ControllerInvariant'
  <2>1. [state |-> "live", port |-> port] \in Children /\ [state |-> "live", port |-> port] # NoChild
    BY NoChildIsNone DEF Children
  <2> QED BY <1>1, <1>3, <2>1
          DEF Spawn, ControllerInvariant, ControllerTypeOK, HandlesOK, ReadersOK, StoppingOK, Calls, AllHandles
<1>4. ASSUME NEW p \in Pipes, ReaderEnds(p) PROVE ControllerInvariant'
  <2>1. reader' \in [Pipes -> {"none", "running", "done"}] /\ reader[p] = "running"
        /\ \A q \in Pipes : reader'[q] = reader[q] \/ (q = p /\ reader'[q] = "done")
    BY <1>1, <1>4 DEF ReaderEnds, ControllerTypeOK
  <2>2. UNCHANGED <<child, owner, running, stopReaders, handles, call>>
    BY <1>4 DEF ReaderEnds
  <2> QED BY <1>1, <2>1, <2>2 DEF ControllerInvariant, ControllerTypeOK, HandlesOK, ReadersOK, StoppingOK
<1>5. CASE ChildListens \/ ChildExits
  <2>1. child # NoChild
    BY <1>5, NoChildIsNone DEF ChildListens, ChildExits, Alive
  <2>2. /\ UNCHANGED <<running, stopReaders, handles, reader, call>>
        /\ child' \in {child, [child EXCEPT !.state = "exited"]}
        /\ owner' \in {owner, Freed, [owner EXCEPT ![child.port] = "child"]}
    BY <1>5 DEF ChildListens, ChildExits
  <2>3. child' \in Children /\ child' # NoChild
    BY <1>1, <2>1, <2>2, Exited DEF ControllerTypeOK
  <2>4. owner' \in [Ports -> Owners]
    BY <1>1, <2>2, FreedType DEF ControllerTypeOK, Owners
  <2> QED BY <1>1, <2>1, <2>2, <2>3, <2>4 DEF ControllerInvariant, ControllerTypeOK, HandlesOK, ReadersOK, StoppingOK
<1>6. CASE OwnerMoves
  BY <1>1, <1>6 DEF OwnerMoves, ControllerInvariant, ControllerTypeOK, HandlesOK, ReadersOK, StoppingOK
<1>7. CASE Crashed
  BY <1>1, <1>7, NoChildIsNone
     DEF Crashed, ControllerInvariant, ControllerTypeOK, HandlesOK, ReadersOK, StoppingOK, Calls, AllHandles
<1> QED BY <1>2, <1>3, <1>4, <1>5, <1>6, <1>7, ControllerCalls DEF ControllerMoves
LEMMA ReadersUseOpenHandles == ASSUME ControllerInvariant PROVE ReaderHandlesOpen
  BY DEF ControllerInvariant, ReadersOK, ReaderHandlesOpen, AllHandles

(***************************************************************************)
(* The session, the action under way and the page state.                   *)
(***************************************************************************)
Operations == {"start", "stop", "open", "quit"}
Lists == UNION {[1..n -> Operations] : n \in 0..2}
Jobs2 == [ops : Lists, at : {"idle", "begin", "probe", "starting", "stopping"}, ok : BOOLEAN,
          sets : SUBSET Flags, setsIfOk : SUBSET Flags, clears : SUBSET Flags, exits : BOOLEAN]

JobOK ==
  /\ job \in Jobs2
  /\ "viewerUrlCopied" \notin job.sets \cup job.setsIfOk
  /\ job.at = "stopping" /\ call # "terminate" => ~running
SessionOK ==
  /\ session \in Sessions
  /\ "viewerUrlCopied" \in session.flags => copied = session.config
PageOK ==
  /\ hostPage \in HostPageStates
  /\ hostPage = "stopped" => ~IsRunning

LEMMA JobsAre == Jobs = Jobs2
  BY DEF Jobs, Jobs2, Lists, Operations

LEMMA ListsOfOne == ASSUME NEW a \in Operations PROVE <<a>> \in Lists /\ <<>> \in Lists
<1>1. <<a>> \in [1..1 -> Operations] /\ <<>> \in [1..0 -> Operations]
  OBVIOUS
<1>2. 0 \in 0..2 /\ 1 \in 0..2
  OBVIOUS
<1> QED BY <1>1, <1>2 DEF Lists
LEMMA ListsOfTwo == ASSUME NEW a \in Operations, NEW b \in Operations PROVE <<a, b>> \in Lists
<1>1. <<a, b>> \in [1..2 -> Operations]
  OBVIOUS
<1>2. 2 \in 0..2
  OBVIOUS
<1> QED BY <1>1, <1>2 DEF Lists
LEMMA ListsTail == ASSUME NEW l \in Lists, l # <<>> PROVE Tail(l) \in Lists /\ Head(l) \in Operations
<1>1. PICK n \in 0..2 : l \in [1..n -> Operations]
  BY DEF Lists
<1>2. n # 0
  <2> SUFFICES ASSUME n = 0 PROVE FALSE
    OBVIOUS
  <2>1. l \in [1..0 -> Operations]
    BY <1>1
  <2> QED BY <2>1
<1>3. n - 1 \in 0..2 /\ Tail(l) \in [1..(n - 1) -> Operations] /\ Head(l) \in Operations
  <2>1. l \in Seq(Operations) /\ Len(l) = n
    BY <1>1
  <2>2. Tail(l) \in Seq(Operations) /\ Len(Tail(l)) = n - 1 /\ Head(l) \in Operations
    BY <1>1, <1>2, <2>1
  <2>3. \A t \in Seq(Operations) : t \in [1..Len(t) -> Operations]
    OBVIOUS
  <2>4. Tail(l) \in [1..(n - 1) -> Operations]
    BY <2>2, <2>3
  <2> QED BY <1>1, <1>2, <2>2, <2>4
<1> QED BY <1>3 DEF Lists

LEMMA JobType ==
  ASSUME NEW ops \in Lists, NEW sets \in SUBSET Flags, NEW setsIfOk \in SUBSET Flags
  PROVE  /\ Job(ops, sets, setsIfOk) \in Jobs2
         /\ Job(ops, sets, setsIfOk).at = "begin"
         /\ Job(ops, sets, setsIfOk).sets = sets /\ Job(ops, sets, setsIfOk).setsIfOk = setsIfOk
<1>1. Idle \in Jobs2
  <2>1. <<>> \in Lists
    BY ListsOfOne DEF Operations
  <2>2. {} \in SUBSET Flags /\ TRUE \in BOOLEAN /\ FALSE \in BOOLEAN
    OBVIOUS
  <2> QED BY <2>1, <2>2, Zenon DEF Idle, Jobs2
<1> HIDE DEF Idle
<1> QED BY <1>1 DEF Job, Jobs2
LEMMA IdleType == Idle \in Jobs2 /\ Idle.at = "idle" /\ Idle.sets = {} /\ Idle.setsIfOk = {} /\ Idle.ops = <<>>
<1>1. <<>> \in Lists
  BY ListsOfOne DEF Operations
<1> QED BY <1>1 DEF Idle, Jobs2

LEMMA AtType ==
  ASSUME JobOK, NEW where \in {"probe", "starting", "stopping"}, At(where)
  PROVE  job' \in Jobs2 /\ job'.at = where /\ "viewerUrlCopied" \notin job'.sets \cup job'.setsIfOk
  BY DEF At, JobOK, Jobs2
LEMMA ReturnType ==
  ASSUME JobOK, job.ops # <<>>, NEW ok \in BOOLEAN, NEW clears \in SUBSET Flags, Return(ok, clears)
  PROVE  job' \in Jobs2 /\ job'.at = "begin" /\ "viewerUrlCopied" \notin job'.sets \cup job'.setsIfOk
<1> DEFINE left == IF ok THEN Tail(job.ops) ELSE <<>>
<1>1. job \in Jobs2 /\ job.ops \in Lists /\ job.clears \in SUBSET Flags
  BY DEF JobOK, Jobs2
<1>2. left \in Lists
  <2>1. Tail(job.ops) \in Lists /\ <<>> \in Lists
    BY <1>1, ListsTail, ListsOfOne DEF Operations
  <2> QED BY <2>1
<1> HIDE DEF left
<1>3. job' = [job EXCEPT !.ops = left, !.at = "begin", !.ok = ok, !.clears = job.clears \cup clears]
  BY DEF Return, left
<1>4. job' \in Jobs2
  BY <1>1, <1>2, <1>3 DEF Jobs2
<1>5. job'.at = "begin" /\ job'.sets = job.sets /\ job'.setsIfOk = job.setsIfOk
  BY <1>1, <1>3 DEF Jobs2
<1> QED BY <1>4, <1>5 DEF JobOK
(***************************************************************************)
(* The controller under every step of the app.                             *)
(***************************************************************************)
\* What happens to the controller outside the operations of a host action.
Quiet ==
  \/ Terminate \/ Join \/ Close \/ (\E p \in Pipes : ReaderEnds(p)) \/ ChildListens \/ ChildExits
  \/ OwnerMoves \/ Crashed \/ UNCHANGED ctlVars

LEMMA OwnerChanges ==
  ASSUME ControllerTypeOK, NEW p \in Ports, NEW new \in Owners,
         owner' \in {owner, [owner EXCEPT ![p] = new]}, UNCHANGED <<child, running, stopReaders, handles, reader, call>>
  PROVE  OwnerMoves
<1>1. owner \in [Ports -> Owners]
  BY DEF ControllerTypeOK
<1> QED BY <1>1 DEF OwnerMoves

LEMMA QuietOutsideJobs ==
  ASSUME ControllerTypeOK, [Next]_vars, ~JobStep
  PROVE  Quiet
<1>1. CASE UNCHANGED vars \/ JobEnds \/ Tick \/ Command \/ HostStatus \/ PollAnswered \/ ViewersMove \/ AppStarts
  <2>1. UNCHANGED ctlVars
    BY <1>1 DEF vars, JobEnds, Tick, HandleRuntimeTick, Command, ExecuteHostAction, RestoreWebViewShellState,
       ApplyAdminShellSessionRequest, GenerateRoomToken, ApplySession, CopyViewerUrl, OnDestroy, HostStatus, PollAnswered,
       ViewersMove, AppStarts
  <2> QED BY <2>1 DEF Quiet
<1>2. CASE TakeMessage
  BY <1>2 DEF TakeMessage, Quiet
<1>3. CASE ControllerStep
  BY <1>3 DEF ControllerStep, CallStep, Quiet
<1>4. ASSUME NEW p \in Pipes, Reader(p) PROVE Quiet
  BY <1>4 DEF Reader, Quiet
<1>5. CASE ServerMoves
  <2>1. CASE ChildListens \/ ChildExits
    BY <2>1 DEF Quiet
  <2>2. ASSUME NEW p \in Ports, PortFreed(p) \/ PortTaken(p) PROVE Quiet
    <3>1. OwnerMoves
      BY <2>2, OwnerChanges DEF PortFreed, PortTaken, Owners
    <3> QED BY <3>1 DEF Quiet
  <2> QED BY <1>5, <2>1, <2>2 DEF ServerMoves
<1>6. CASE AppCrashes
  <2>1. owner' \in [Ports -> Owners]
    BY <1>6 DEF AppCrashes, ControllerTypeOK, Owners
  <2> QED BY <1>6, <2>1 DEF AppCrashes, Crashed, Quiet
<1> QED BY <1>1, <1>2, <1>3, <1>4, <1>5, <1>6 DEF Next, UiStep

LEMMA StaleIsCleaned ==
  ASSUME ControllerTypeOK, NEW p \in Ports, NEW stopped \in BOOLEAN, CleanupStaleProcess(p, stopped),
         UNCHANGED <<child, running, stopReaders, handles, reader, call>>
  PROVE  OwnerMoves
<1>1. owner' \in {owner, [owner EXCEPT ![p] = "free"]}
  BY DEF CleanupStaleProcess
<1> QED BY <1>1, OwnerChanges DEF Owners

LEMMA JobsMoveController ==
  ASSUME ControllerTypeOK, session \in Sessions, JobStep
  PROVE  ControllerMoves \/ UNCHANGED ctlVars
<1>1. Config.port \in Ports
  BY DEF Config, Sessions, Configs
<1>2. CASE (\E n \in Draws : StartBegins(n)) \/ Stopped \/ Opened
  BY <1>2 DEF StartBegins, Stopped, Opened
<1>3. CASE Probe
  <2>1. CASE CallStart
    BY <2>1 DEF ControllerMoves
  <2>2. CASE UNCHANGED <<child, running, stopReaders, handles, reader, call>> /\ CleanupStaleProcess(Config.port, TRUE)
    BY <1>1, <2>2, StaleIsCleaned DEF ControllerMoves
  <2>3. CASE UNCHANGED <<child, running, stopReaders, handles, reader, call, owner>>
    BY <2>3 DEF ctlVars
  <2> QED BY <1>3, <2>1, <2>2, <2>3 DEF Probe
<1>4. CASE Started
  BY <1>1, <1>4 DEF Started, ControllerMoves
<1>5. CASE StopBegins
  <2>1. CASE CallStop
    BY <2>1 DEF ControllerMoves
  <2>2. CASE UNCHANGED <<child, running, stopReaders, handles, reader, call>> /\ CleanupStaleProcess(Config.port, TRUE)
    BY <1>1, <2>2, StaleIsCleaned DEF ControllerMoves
  <2>3. CASE UNCHANGED <<child, running, stopReaders, handles, reader, call, owner>>
    BY <2>3 DEF ctlVars
  <2> QED BY <1>5, <2>1, <2>2, <2>3 DEF StopBegins
<1>6. CASE Quits
  BY <1>6 DEF Quits, ControllerMoves
<1> QED BY <1>2, <1>3, <1>4, <1>5, <1>6 DEF JobStep

LEMMA ControllerNext == ASSUME ControllerInvariant, session \in Sessions, [Next]_vars PROVE ControllerInvariant'
<1>1. ControllerTypeOK
  BY DEF ControllerInvariant
<1>2. ControllerMoves \/ UNCHANGED ctlVars
  BY <1>1, QuietOutsideJobs, JobsMoveController DEF Quiet, ControllerMoves
<1>3. CASE UNCHANGED ctlVars
  BY <1>3 DEF ctlVars, ControllerInvariant, ControllerTypeOK, HandlesOK, ReadersOK, StoppingOK
<1> QED BY <1>2, <1>3, ControllerStays

\* A run begins with Spawn only.
LEMMA RunningStays ==
  ASSUME ControllerInvariant, ControllerMoves \/ UNCHANGED ctlVars, ~ \E p \in Ports : Spawn(p)
  PROVE  (running' => running) /\ (IsRunning' => IsRunning)
<1>1. CASE Terminate \/ CallStart \/ Close \/ Crashed
  BY <1>1 DEF Terminate, CallStart, Close, Crashed, IsRunning, ControllerInvariant, StoppingOK
<1>2. CASE CallStop \/ Join \/ SpawnFails \/ (\E p \in Pipes : ReaderEnds(p)) \/ OwnerMoves \/ UNCHANGED ctlVars
  BY <1>2 DEF CallStop, Join, SpawnFails, ReaderEnds, OwnerMoves, ctlVars, IsRunning, Alive
<1>3. CASE ChildListens \/ ChildExits
  BY <1>3 DEF ChildListens, ChildExits, IsRunning, Alive
<1> QED BY <1>1, <1>2, <1>3 DEF ControllerMoves
(***************************************************************************)
(* The action under way.                                                   *)
(***************************************************************************)
StopsWhileStopping == job.at = "stopping" /\ call # "terminate" => ~running

LEMMA JobSteps ==
  ASSUME ControllerInvariant, JobOK, session \in Sessions, JobStep
  PROVE  /\ job' \in Jobs2 /\ "viewerUrlCopied" \notin job'.sets \cup job'.setsIfOk
         /\ StopsWhileStopping'
<1>1. \A ok \in BOOLEAN, clears \in SUBSET Flags : job.ops # <<>> /\ Return(ok, clears) =>
        job' \in Jobs2 /\ job'.at = "begin" /\ "viewerUrlCopied" \notin job'.sets \cup job'.setsIfOk
  BY ReturnType
<1>2. \A where \in {"probe", "starting", "stopping"} : At(where) =>
        job' \in Jobs2 /\ job'.at = where /\ "viewerUrlCopied" \notin job'.sets \cup job'.setsIfOk
  BY AtType
<1>3. {} \in SUBSET Flags /\ {"handoffDelivered"} \in SUBSET Flags /\ TRUE \in BOOLEAN /\ FALSE \in BOOLEAN
  BY DEF Flags
<1>4. JobOK /\ job' = job /\ job.at # "stopping" =>
        job' \in Jobs2 /\ "viewerUrlCopied" \notin job'.sets \cup job'.setsIfOk /\ StopsWhileStopping'
  BY DEF JobOK, StopsWhileStopping
<1>5. CASE \E n \in Draws : StartBegins(n)
  BY <1>1, <1>2, <1>3, <1>5 DEF StartBegins, Doing, StopsWhileStopping
<1>6. CASE Probe
  BY <1>1, <1>2, <1>3, <1>4, <1>6 DEF Probe, Doing, StopsWhileStopping
<1>7. CASE Started
  BY <1>1, <1>3, <1>7 DEF Started, Doing, StopsWhileStopping
<1>8. CASE Stopped \/ Opened
  BY <1>1, <1>3, <1>8 DEF Stopped, Opened, Doing, StopsWhileStopping
<1>9. CallStop => (call' # "terminate" => ~running')
  BY DEF CallStop
<1>10. CASE StopBegins
  BY <1>1, <1>2, <1>3, <1>9, <1>10 DEF StopBegins, Doing, StopsWhileStopping
<1>11. CASE Quits
  BY <1>1, <1>2, <1>3, <1>9, <1>11 DEF Quits, Doing, StopsWhileStopping
<1> QED BY <1>5, <1>6, <1>7, <1>8, <1>10, <1>11 DEF JobStep

LEMMA StoppingIsQuiet ==
  ASSUME ControllerInvariant, JobOK, Quiet, UNCHANGED job
  PROVE  StopsWhileStopping'
<1>1. /\ job.at = "stopping" /\ call # "terminate" => ~running
      /\ call \notin {"none", "terminate"} => ~running
  BY DEF JobOK, ControllerInvariant, StoppingOK
<1>2. CASE Terminate \/ Crashed
  BY <1>2 DEF Terminate, Crashed, StopsWhileStopping
<1>3. CASE Join \/ Close
  BY <1>1, <1>3 DEF Join, Close, StopsWhileStopping
<1>4. CASE (\E p \in Pipes : ReaderEnds(p)) \/ ChildListens \/ ChildExits \/ OwnerMoves \/ UNCHANGED ctlVars
  BY <1>1, <1>4 DEF ReaderEnds, ChildListens, ChildExits, OwnerMoves, ctlVars, StopsWhileStopping
<1> QED BY <1>2, <1>3, <1>4 DEF Quiet

\* A job that is given.
LEMMA JobsGiven ==
  ASSUME ExecuteHostAction \/ RestoreWebViewShellState \/ OnDestroy \/ AppStarts
  PROVE  job' \in Jobs2 /\ job'.at = "begin" /\ "viewerUrlCopied" \notin job'.sets \cup job'.setsIfOk
<1>1. {<<"start">>, <<"stop">>, <<"stop", "start">>, <<"start", "open">>, <<"open">>, <<"open", "open">>, <<"stop", "quit">>}
        \subseteq Lists
  BY ListsOfOne, ListsOfTwo DEF Operations
<1>2. {{}, {"handoffStarted"}, {"shareBundleExported"}, {"handoffStarted", "shareWizardOpened"},
       {"handoffStarted", "shareBundleExported"}} \subseteq SUBSET Flags
  BY DEF Flags
<1>3. \A ops \in Lists, sets \in SUBSET Flags, setsIfOk \in SUBSET Flags :
        /\ Job(ops, sets, setsIfOk) \in Jobs2 /\ Job(ops, sets, setsIfOk).at = "begin"
        /\ Job(ops, sets, setsIfOk).sets = sets /\ Job(ops, sets, setsIfOk).setsIfOk = setsIfOk
  BY JobType
<1> HIDE DEF Job
<1>4. CASE RestoreWebViewShellState \/ AppStarts
  <2>1. job' = Job(<<"start">>, {}, {})
    BY <1>4 DEF RestoreWebViewShellState, AppStarts, Launch
  <2> QED BY <1>1, <1>2, <1>3, <2>1
<1>5. CASE OnDestroy
  <2>1. job' = [Job(<<"stop", "quit">>, {}, {}) EXCEPT !.exits = TRUE]
    BY <1>5 DEF OnDestroy
  <2>2. \A j \in Jobs2 :
          /\ [j EXCEPT !.exits = TRUE] \in Jobs2
          /\ [j EXCEPT !.exits = TRUE].at = j.at /\ [j EXCEPT !.exits = TRUE].sets = j.sets
          /\ [j EXCEPT !.exits = TRUE].setsIfOk = j.setsIfOk
    BY DEF Jobs2
  <2>3. /\ Job(<<"stop", "quit">>, {}, {}) \in Jobs2 /\ Job(<<"stop", "quit">>, {}, {}).at = "begin"
        /\ Job(<<"stop", "quit">>, {}, {}).sets = {} /\ Job(<<"stop", "quit">>, {}, {}).setsIfOk = {}
    BY <1>1, <1>2, <1>3
  <2> QED BY <2>1, <2>2, <2>3
<1>6. CASE ExecuteHostAction
  <2>1. \E ops \in Lists, sets \in SUBSET Flags, setsIfOk \in SUBSET Flags :
          job' = Job(ops, sets, setsIfOk) /\ "viewerUrlCopied" \notin sets \cup setsIfOk
    <3>1. job' \in HostActions
      BY <1>6 DEF ExecuteHostAction
    <3> QED BY <1>1, <1>2, <3>1 DEF HostActions
  <2> QED BY <1>3, <2>1
<1> QED BY <1>4, <1>5, <1>6

LEMMA JobNext ==
  ASSUME ControllerInvariant, JobOK, session \in Sessions, [Next]_vars
  PROVE  JobOK'
<1>1. CASE JobStep
  BY <1>1, JobSteps DEF JobOK, StopsWhileStopping
<1>2. CASE ~JobStep /\ UNCHANGED job
  BY <1>2, QuietOutsideJobs, StoppingIsQuiet DEF ControllerInvariant, JobOK, StopsWhileStopping
<1>3. CASE ExecuteHostAction \/ RestoreWebViewShellState \/ OnDestroy \/ AppStarts
  BY <1>3, JobsGiven DEF JobOK
<1>4. CASE JobEnds
  BY <1>4, IdleType DEF JobEnds, JobOK
<1>5. ASSUME ~JobStep, ~(ExecuteHostAction \/ RestoreWebViewShellState \/ OnDestroy \/ AppStarts), ~JobEnds
      PROVE  UNCHANGED job
  <2>1. UNCHANGED vars \/ ControllerStep \/ (\E p \in Pipes : Reader(p)) \/ ServerMoves \/ AppCrashes \/ ViewersMove => UNCHANGED job
    BY DEF vars, appVars, ControllerStep, Reader, ServerMoves, AppCrashes, ViewersMove
  <2>2. TakeMessage \/ Tick \/ HostStatus \/ PollAnswered => UNCHANGED job
    BY DEF TakeMessage, Tick, HandleRuntimeTick, HostStatus, PollAnswered
  <2>3. ApplyAdminShellSessionRequest \/ GenerateRoomToken \/ CopyViewerUrl => UNCHANGED job
    BY DEF ApplyAdminShellSessionRequest, GenerateRoomToken, ApplySession, CopyViewerUrl
  <2> QED BY <1>5, <2>1, <2>2, <2>3 DEF Next, UiStep, Command
<1> QED BY <1>1, <1>2, <1>3, <1>4, <1>5
(***************************************************************************)
(* The session and the link that was copied.                               *)
(***************************************************************************)
LEMMA DrawsAreNames == ASSUME NEW n \in Draws PROVE n[1] \in Names /\ n[2] \in Names
  BY DesktopAssumption
LEMMA RequestsAreDrafts == ASSUME NEW r \in Requests PROVE r \in Drafts
  BY DesktopAssumption

\* A session that is kept, reset or given flags other than the link's.
LEMMA SessionKept ==
  ASSUME SessionOK, UNCHANGED copied, session' \in Sessions,
         \/ FlagsKeepConfig(session, session')
         \/ session'.config = session.config /\ ("viewerUrlCopied" \in session'.flags => "viewerUrlCopied" \in session.flags)
  PROVE  SessionOK'
  BY DEF SessionOK, FlagsKeepConfig

LEMMA FlagsAdded ==
  ASSUME NEW s \in Sessions, NEW flags \in SUBSET Flags
  PROVE  [s EXCEPT !.flags = flags] \in Sessions /\ [s EXCEPT !.flags = flags].config = s.config
         /\ [s EXCEPT !.flags = flags].flags = flags
  BY DEF Sessions

LEMMA NewSessionIs == ASSUME NEW n \in Draws PROVE NewSession(n) \in Sessions /\ NewSession(n).flags = {}
<1>1. [bind |-> DefaultBind, port |-> DefaultPort, room |-> Empty, token |-> Empty]
        \in [bind : Binds, port : Ports, room : Texts, token : Texts]
  BY TextTypes, SessionAssumption
<1> QED BY <1>1, DrawsAreNames, SessionGenerated DEF NewSession

LEMMA SessionNext == ASSUME SessionOK, JobOK, [Next]_vars PROVE SessionOK'
<1>1. session \in Sessions /\ session.flags \in SUBSET Flags
  BY DEF SessionOK, Sessions
<1>2. ASSUME NEW n \in Draws, StartBegins(n) PROVE SessionOK'
  <2>1. CASE UNCHANGED session
    BY <1>2, <2>1 DEF StartBegins, SessionOK
  <2>2. CASE session' = EnsureHostSessionCredentials(
                          ApplyDesktopEditSessionDraft(session, BuildDesktopEditSessionDraft(session)), n[1], n[2])
    <3>1. session' \in Sessions /\ FlagsKeepConfig(session, session')
      BY <1>1, <2>2, SessionStarted, DrawsAreNames
    <3> QED BY <1>2, <3>1, SessionKept DEF StartBegins
  <2> QED BY <1>2, <2>1, <2>2 DEF StartBegins
<1>3. CASE JobEnds
  <2>1. (session.flags \cup job.sets \cup (IF job.ok THEN job.setsIfOk ELSE {})) \ job.clears \in SUBSET Flags
    BY <1>1 DEF JobOK, Jobs2
  <2>2. session' = [session EXCEPT !.flags = (session.flags \cup job.sets \cup (IF job.ok THEN job.setsIfOk ELSE {})) \ job.clears]
    BY <1>3 DEF JobEnds
  <2>3. "viewerUrlCopied" \notin job.sets \cup (IF job.ok THEN job.setsIfOk ELSE {})
    BY DEF JobOK
  <2>4. /\ session' \in Sessions /\ session'.config = session.config
        /\ session'.flags = (session.flags \cup job.sets \cup (IF job.ok THEN job.setsIfOk ELSE {})) \ job.clears
    BY <1>1, <2>1, <2>2, FlagsAdded
  <2> QED BY <1>3, <2>3, <2>4, SessionKept DEF JobEnds
<1>4. CASE ApplyAdminShellSessionRequest
  <2>1. PICK r \in Requests : ApplySession(ApplyHostSessionConfig(session, r.room, r.token, r.bind, r.port))
    BY <1>4 DEF ApplyAdminShellSessionRequest
  <2>2. session' \in Sessions /\ FlagsKeepConfig(session, session')
    BY <1>1, <2>1, SessionApplied, RequestsAreDrafts DEF ApplySession
  <2> QED BY <2>1, <2>2, SessionKept DEF ApplySession
<1>5. CASE GenerateRoomToken
  <2>1. PICK n \in Draws : ApplySession(GenerateHostSessionCredentials(session, n[1], n[2]))
    BY <1>5 DEF GenerateRoomToken
  <2>2. session.config \in [bind : Binds, port : Ports, room : Texts, token : Texts]
    BY <1>1 DEF Sessions, Configs
  <2>3. session' \in Sessions /\ session'.flags = {}
    BY <2>1, <2>2, SessionGenerated, DrawsAreNames DEF ApplySession
  <2> QED BY <2>1, <2>3, SessionKept DEF ApplySession, FlagsKeepConfig
<1>6. CASE CopyViewerUrl
  <2>1. \A flags \in {{"handoffStarted", "viewerUrlCopied"}, {"handoffStarted"}} : session.flags \cup flags \in SUBSET Flags
    BY <1>1 DEF Flags
  <2>2. CASE session' = [session EXCEPT !.flags = session.flags \cup {"handoffStarted", "viewerUrlCopied"}] /\ copied' = Config
    BY <1>1, <2>1, <2>2, FlagsAdded DEF SessionOK, Config
  <2>3. CASE session' = [session EXCEPT !.flags = session.flags \cup {"handoffStarted"}] /\ UNCHANGED copied
    <3>1. session' \in Sessions /\ session'.config = session.config /\ session'.flags = session.flags \cup {"handoffStarted"}
      BY <1>1, <2>1, <2>3, FlagsAdded
    <3> QED BY <2>3, <3>1, SessionKept
  <2> QED BY <1>6, <2>2, <2>3 DEF CopyViewerUrl
<1>7. CASE TakeMessage
  <2>1. UNCHANGED copied /\ (session' = session \/ session' = [session EXCEPT !.flags = session.flags \cup {"handoffDelivered"}])
    BY <1>7 DEF TakeMessage, HandlePollResult, HandleHostStatus
  <2>2. session.flags \cup {"handoffDelivered"} \in SUBSET Flags
    BY <1>1 DEF Flags
  <2>3. CASE session' = [session EXCEPT !.flags = session.flags \cup {"handoffDelivered"}]
    <3>1. session' \in Sessions /\ session'.config = session.config /\ session'.flags = session.flags \cup {"handoffDelivered"}
      BY <1>1, <2>2, <2>3, FlagsAdded
    <3> QED BY <2>1, <3>1, SessionKept
  <2> QED BY <2>1, <2>3 DEF SessionOK
<1>8. CASE AppStarts
  <2>1. PICK n \in Draws : session' = NewSession(n)
    BY <1>8 DEF AppStarts, Launch
  <2> QED BY <2>1, NewSessionIs DEF SessionOK
<1>9. ASSUME ~(\E n \in Draws : StartBegins(n)), ~JobEnds, ~ApplyAdminShellSessionRequest, ~GenerateRoomToken,
             ~CopyViewerUrl, ~TakeMessage, ~AppStarts
      PROVE  SessionOK'
  <2>1. Probe \/ Started \/ StopBegins \/ Stopped \/ Quits \/ Opened => UNCHANGED <<session, copied>>
    BY DEF Probe, Started, StopBegins, Stopped, Quits, Opened
  <2>2. UNCHANGED vars \/ ControllerStep \/ (\E p \in Pipes : Reader(p)) \/ ServerMoves \/ AppCrashes \/ ViewersMove
          => UNCHANGED <<session, copied>>
    BY DEF vars, appVars, ControllerStep, Reader, ServerMoves, AppCrashes, ViewersMove
  <2>3. Tick \/ HostStatus \/ PollAnswered \/ ExecuteHostAction \/ RestoreWebViewShellState \/ OnDestroy => UNCHANGED <<session, copied>>
    BY DEF Tick, HandleRuntimeTick, HostStatus, PollAnswered, ExecuteHostAction, RestoreWebViewShellState, OnDestroy
  <2>4. UNCHANGED <<session, copied>>
    BY <1>9, <2>1, <2>2, <2>3 DEF Next, UiStep, JobStep, Command
  <2> QED BY <2>4 DEF SessionOK
<1> QED BY <1>2, <1>3, <1>4, <1>5, <1>6, <1>7, <1>8, <1>9
(***************************************************************************)
(* The messages posted to the window and the poll.                         *)
(***************************************************************************)
NoAnswer(q) == \A i \in 1..Len(q) : q[i].kind # "poll"
OneAnswer(q) == \E i \in 1..Len(q) : \A j \in 1..Len(q) : q[j].kind = "poll" <=> j = i

PollOK ==
  /\ up \in BOOLEAN /\ polling \in BOOLEAN /\ poll \in Ports \cup {NoPoll} /\ posted \in Seq(Messages)
  /\ up /\ polling => (poll # NoPoll /\ NoAnswer(posted)) \/ (poll = NoPoll /\ OneAnswer(posted))
  /\ up /\ ~polling => poll = NoPoll /\ NoAnswer(posted)

LEMMA MessageIs ==
  ASSUME NEW m \in Messages
  PROVE  /\ m.viewers \in 0..MaxViewers
         /\ m.kind # "poll" => m.state \in {"ready", "sharing"}
  BY DEF Messages

LEMMA PollMessage ==
  ASSUME NEW ok \in BOOLEAN, NEW n \in 0..MaxViewers
  PROVE  [kind |-> "poll", ok |-> ok, viewers |-> n] \in Messages
  BY DEF Messages
LEMMA StatusMessage ==
  ASSUME NEW s \in {"ready", "sharing"}, NEW n \in 0..MaxViewers
  PROVE  [kind |-> "status", state |-> s, viewers |-> n] \in Messages
  BY DEF Messages

LEMMA Appended ==
  ASSUME NEW S, NEW q \in Seq(S), NEW m \in S
  PROVE  /\ Append(q, m) \in Seq(S)
         /\ m.kind # "poll" /\ NoAnswer(q) => NoAnswer(Append(q, m))
         /\ m.kind # "poll" /\ OneAnswer(q) => OneAnswer(Append(q, m))
         /\ m.kind = "poll" /\ NoAnswer(q) => OneAnswer(Append(q, m))
<1> DEFINE r == Append(q, m)
<1>1. /\ r \in Seq(S) /\ Len(q) \in Nat /\ Len(r) = Len(q) + 1
      /\ \A i \in 1..Len(q) : r[i] = q[i]
      /\ r[Len(q) + 1] = m
  OBVIOUS
<1> HIDE DEF r
<1>2. m.kind # "poll" /\ NoAnswer(q) => NoAnswer(r)
  BY <1>1 DEF NoAnswer
<1>3. ASSUME m.kind # "poll", OneAnswer(q) PROVE OneAnswer(r)
  <2>1. PICK i \in 1..Len(q) : \A j \in 1..Len(q) : q[j].kind = "poll" <=> j = i
    BY <1>3 DEF OneAnswer
  <2>2. i \in 1..Len(r) /\ \A j \in 1..Len(r) : r[j].kind = "poll" <=> j = i
    BY <1>1, <1>3, <2>1
  <2> QED BY <2>2 DEF OneAnswer
<1>4. ASSUME m.kind = "poll", NoAnswer(q) PROVE OneAnswer(r)
  <2>1. \A j \in 1..Len(r) : r[j].kind = "poll" <=> j = Len(q) + 1
    BY <1>1, <1>4 DEF NoAnswer
  <2>2. Len(q) + 1 \in 1..Len(r)
    BY <1>1
  <2> QED BY <2>1, <2>2 DEF OneAnswer
<1> QED BY <1>1, <1>2, <1>3, <1>4 DEF r

LEMMA Taken ==
  ASSUME NEW S, NEW q \in Seq(S), q # <<>>
  PROVE  /\ Head(q) \in S /\ Tail(q) \in Seq(S)
         /\ NoAnswer(q) => NoAnswer(Tail(q)) /\ Head(q).kind # "poll"
         /\ OneAnswer(q) /\ Head(q).kind # "poll" => OneAnswer(Tail(q))
         /\ OneAnswer(q) /\ Head(q).kind = "poll" => NoAnswer(Tail(q))
<1> DEFINE t == Tail(q)
<1>1. /\ t \in Seq(S) /\ Len(q) \in Nat /\ Len(q) > 0 /\ Len(t) = Len(q) - 1 /\ Len(t) \in Nat
      /\ \A i \in 1..Len(t) : t[i] = q[i + 1]
      /\ Head(q) = q[1] /\ q[1] \in S
  OBVIOUS
<1> HIDE DEF t
<1>2. NoAnswer(q) => NoAnswer(t) /\ Head(q).kind # "poll"
  BY <1>1 DEF NoAnswer
<1>3. ASSUME OneAnswer(q), q[1].kind # "poll" PROVE OneAnswer(t)
  <2>1. PICK i \in 1..Len(q) : \A j \in 1..Len(q) : q[j].kind = "poll" <=> j = i
    BY <1>3 DEF OneAnswer
  <2>2. i # 1
    BY <1>1, <1>3, <2>1
  <2>3. i - 1 \in 1..Len(t) /\ \A j \in 1..Len(t) : t[j].kind = "poll" <=> j = i - 1
    BY <1>1, <2>1, <2>2
  <2> QED BY <2>3 DEF OneAnswer
<1>4. ASSUME OneAnswer(q), q[1].kind = "poll" PROVE NoAnswer(t)
  <2>1. PICK i \in 1..Len(q) : \A j \in 1..Len(q) : q[j].kind = "poll" <=> j = i
    BY <1>4 DEF OneAnswer
  <2>2. i = 1
    BY <1>1, <1>4, <2>1
  <2>3. \A j \in 1..Len(t) : t[j].kind # "poll"
    BY <1>1, <2>1, <2>2
  <2> QED BY <2>3 DEF NoAnswer
<1> QED BY <1>1, <1>2, <1>3, <1>4 DEF t
CountsOK ==
  /\ lastViewers \in 0..MaxViewers /\ viewers \in 0..MaxViewers
  /\ spent \in [commands : 0..MaxCommands, moves : 0..MaxMoves]

LEMMA ZeroCounts == 0 \in 0..MaxCommands /\ 0 \in 0..MaxMoves /\ 0 \in 0..MaxViewers
  BY DesktopAssumption

LEMMA SpentType ==
  ASSUME CountsOK, UNCHANGED spent \/ Spend \/ Move
  PROVE  spent' \in [commands : 0..MaxCommands, moves : 0..MaxMoves]
<1>1. spent \in [commands : 0..MaxCommands, moves : 0..MaxMoves] /\ MaxCommands \in Nat /\ MaxMoves \in Nat
  BY DesktopAssumption DEF CountsOK
<1>2. CASE Spend
  <2>1. spent.commands + 1 \in 0..MaxCommands
    BY <1>1, <1>2 DEF Spend
  <2> QED BY <1>1, <1>2, <2>1 DEF Spend
<1>3. CASE Move
  <2>1. spent.moves + 1 \in 0..MaxMoves
    BY <1>1, <1>3 DEF Move
  <2> QED BY <1>1, <1>3, <2>1 DEF Move
<1> QED BY <1>1, <1>2, <1>3

LEMMA CountsNext == ASSUME CountsOK, PollOK, [Next]_vars PROVE CountsOK'
<1>1. UNCHANGED spent \/ Spend \/ Move
  <2>1. JobStep \/ TakeMessage => UNCHANGED spent
    BY DEF JobStep, StartBegins, Probe, Started, StopBegins, Stopped, Quits, Opened, TakeMessage
  <2>2. JobEnds \/ Tick \/ (\E p \in Pipes : Reader(p)) \/ PollAnswered \/ UNCHANGED vars => UNCHANGED spent
    BY DEF JobEnds, Tick, HandleRuntimeTick, Reader, PollAnswered, vars
  <2>3. Command \/ HostStatus \/ AppCrashes \/ AppStarts => Spend
    BY DEF Command, ExecuteHostAction, RestoreWebViewShellState, ApplyAdminShellSessionRequest, GenerateRoomToken,
       ApplySession, CopyViewerUrl, OnDestroy, HostStatus, AppCrashes, AppStarts
  <2>4. ServerMoves \/ ViewersMove => UNCHANGED spent \/ Move
    BY DEF ServerMoves, ViewersMove
  <2> QED BY <2>1, <2>2, <2>3, <2>4 DEF Next, UiStep
<1>2. lastViewers' \in 0..MaxViewers
  <2>1. lastViewers \in 0..MaxViewers
    BY DEF CountsOK
  <2>2. CASE TakeMessage
    <3>1. posted # <<>> /\ posted \in Seq(Messages)
      BY <2>2 DEF TakeMessage, PollOK
    <3>2. Head(posted).viewers \in 0..MaxViewers
      BY <3>1, Taken, MessageIs
    <3> QED BY <2>1, <2>2, <3>2 DEF TakeMessage, HandlePollResult, HandleHostStatus
  <2>3. CASE AppStarts
    BY <2>3, ZeroCounts DEF AppStarts, Launch
  <2>4. ASSUME ~TakeMessage, ~AppStarts PROVE UNCHANGED lastViewers
    <3>1. JobStep \/ JobEnds \/ ControllerStep => UNCHANGED lastViewers
      BY DEF JobStep, StartBegins, Probe, Started, StopBegins, Stopped, Quits, Opened, JobEnds, ControllerStep, appVars
    <3>2. Tick \/ (\E p \in Pipes : Reader(p)) \/ PollAnswered \/ UNCHANGED vars \/ ServerMoves \/ ViewersMove \/ AppCrashes \/ HostStatus
            => UNCHANGED lastViewers
      BY DEF Tick, HandleRuntimeTick, Reader, PollAnswered, vars, appVars, ServerMoves, ViewersMove, AppCrashes, HostStatus
    <3>3. Command => UNCHANGED lastViewers
      BY DEF Command, ExecuteHostAction, RestoreWebViewShellState, ApplyAdminShellSessionRequest, GenerateRoomToken,
         ApplySession, CopyViewerUrl, OnDestroy
    <3> QED BY <2>4, <3>1, <3>2, <3>3 DEF Next, UiStep
  <2> QED BY <2>1, <2>2, <2>3, <2>4
<1>3. viewers' \in 0..MaxViewers
  <2>1. viewers \in 0..MaxViewers
    BY DEF CountsOK
  <2>2. ViewersMove => viewers' \in 0..MaxViewers
    BY DEF ViewersMove
  <2>3. KeepViewers => viewers' \in {viewers, 0}
    BY DEF KeepViewers
  <2>4. JobEnds \/ Tick \/ (\E p \in Pipes : Reader(p)) \/ PollAnswered \/ UNCHANGED vars \/ AppCrashes \/ AppStarts => UNCHANGED viewers
    BY DEF JobEnds, Tick, Reader, PollAnswered, vars, AppCrashes, AppStarts
  <2>5. ViewersMove \/ KeepViewers \/ UNCHANGED viewers
    BY <2>4 DEF Next, UiStep
  <2> QED BY <2>1, <2>2, <2>3, <2>5, ZeroCounts
<1> QED BY <1>1, <1>2, <1>3, SpentType DEF CountsOK

LEMMA PollNext == ASSUME PollOK, CountsOK, session \in Sessions, [Next]_vars PROVE PollOK'
<1>1. posted \in Seq(Messages) /\ up \in BOOLEAN /\ polling \in BOOLEAN /\ poll \in Ports \cup {NoPoll} /\ viewers \in 0..MaxViewers
  BY DEF PollOK, CountsOK
<1>2. Config.port \in Ports /\ Config.port # NoPoll
  BY SessionAssumption DEF Config, Sessions, Configs, NoPoll
<1>3. CASE TakeMessage /\ UNCHANGED <<up, poll>>
  <2>1. up /\ posted # <<>> /\ posted' = Tail(posted)
    BY <1>3 DEF TakeMessage, Ready
  <2>2. posted' \in Seq(Messages)
    BY <1>1, <2>1, Taken
  <2>3. CASE Head(posted).kind = "poll"
    <3>1. polling' = FALSE
      BY <1>3, <2>3 DEF TakeMessage, HandlePollResult
    <3>2. ~NoAnswer(posted)
      BY <1>1, <2>1, <2>3, Taken
    <3>3. poll = NoPoll /\ OneAnswer(posted)
      BY <1>1, <2>1, <3>2 DEF PollOK
    <3>4. NoAnswer(posted')
      BY <1>1, <2>1, <2>3, <3>3, Taken
    <3> QED BY <1>1, <1>3, <2>2, <3>1, <3>3, <3>4 DEF PollOK
  <2>4. CASE Head(posted).kind # "poll"
    <3>1. UNCHANGED polling
      BY <1>3, <2>4 DEF TakeMessage, HandleHostStatus
    <3>2. (NoAnswer(posted) => NoAnswer(posted')) /\ (OneAnswer(posted) => OneAnswer(posted'))
      BY <1>1, <2>1, <2>4, Taken
    <3> QED BY <1>1, <1>3, <2>2, <3>1, <3>2 DEF PollOK
  <2> QED BY <2>3, <2>4
<1>4. CASE Tick
  <2>1. up /\ ~polling /\ polling' = TRUE /\ poll' = Config.port /\ UNCHANGED <<up, posted>>
    BY <1>4 DEF Tick, HandleRuntimeTick, Ready
  <2>2. NoAnswer(posted)
    BY <2>1 DEF PollOK
  <2>3. poll' \in Ports \cup {NoPoll} /\ poll' # NoPoll /\ NoAnswer(posted')
    BY <1>2, <2>1, <2>2
  <2>4. posted' \in Seq(Messages) /\ up' \in BOOLEAN /\ polling' \in BOOLEAN /\ polling'
    BY <1>1, <2>1
  <2> QED BY <2>3, <2>4, Zenon DEF PollOK
<1>5. CASE PollAnswered
  <2>1. poll # NoPoll /\ poll' = NoPoll /\ UNCHANGED <<up, polling>>
    BY <1>5 DEF PollAnswered
  <2>2. CASE ~up
    BY <1>1, <1>5, <2>1, <2>2 DEF PollAnswered, PollOK
  <2>3. CASE up
    <3>1. PICK m \in Messages : m.kind = "poll" /\ posted' = Append(posted, m)
      <4>1. PICK n \in 0..MaxViewers, ok \in BOOLEAN : posted' = Append(posted, [kind |-> "poll", ok |-> ok, viewers |-> n])
        BY <1>5, <2>3 DEF PollAnswered
      <4> QED BY <4>1, PollMessage
    <3>2. polling /\ NoAnswer(posted)
      BY <1>1, <2>1, <2>3 DEF PollOK
    <3>3. posted' \in Seq(Messages) /\ OneAnswer(posted')
      BY <1>1, <3>1, <3>2, Appended
    <3> QED BY <1>1, <2>1, <2>3, <3>2, <3>3 DEF PollOK
  <2> QED BY <1>1, <2>2, <2>3
<1>6. CASE HostStatus /\ UNCHANGED <<up, poll>>
  <2>1. PICK m \in Messages : m.kind # "poll" /\ posted' = Append(posted, m)
    <3>1. PICK s \in {"ready", "sharing"} : posted' = Append(posted, [kind |-> "status", state |-> s, viewers |-> viewers])
      BY <1>6 DEF HostStatus
    <3> QED BY <1>1, <3>1, StatusMessage
  <2>2. posted' \in Seq(Messages) /\ (NoAnswer(posted) => NoAnswer(posted')) /\ (OneAnswer(posted) => OneAnswer(posted'))
    BY <1>1, <2>1, Appended
  <2>3. UNCHANGED polling
    BY <1>6 DEF HostStatus
  <2> QED BY <1>1, <1>6, <2>2, <2>3 DEF PollOK
<1>7. CASE AppStarts
  <2>1. poll = NoPoll /\ up' = TRUE /\ posted' = <<>> /\ polling' = FALSE /\ UNCHANGED poll
    BY <1>7 DEF AppStarts, Launch
  <2>2. <<>> \in Seq(Messages) /\ NoAnswer(<<>>)
    BY DEF NoAnswer
  <2> QED BY <1>1, <2>1, <2>2 DEF PollOK
<1>8. CASE AppCrashes
  <2>1. up' = FALSE /\ poll' = NoPoll /\ UNCHANGED <<posted, polling>>
    BY <1>8 DEF AppCrashes, appVars
  <2> QED BY <1>1, <2>1 DEF PollOK
<1>9. CASE JobEnds
  <2>1. up /\ up' \in BOOLEAN /\ UNCHANGED <<poll, posted, polling>>
    BY <1>9 DEF JobEnds
  <2> QED BY <1>1, <2>1 DEF PollOK
<1>10. ASSUME ~(TakeMessage /\ UNCHANGED <<up, poll>>), ~Tick, ~PollAnswered, ~(HostStatus /\ UNCHANGED <<up, poll>>),
              ~AppStarts, ~AppCrashes, ~JobEnds
       PROVE  UNCHANGED <<up, poll, posted, polling>>
  <2>1. JobStep \/ ControllerStep => UNCHANGED <<posted, polling>>
    BY DEF JobStep, StartBegins, Probe, Started, StopBegins, Stopped, Quits, Opened, ControllerStep, appVars
  <2>2. Command => UNCHANGED <<posted, polling>>
    BY DEF Command, ExecuteHostAction, RestoreWebViewShellState, ApplyAdminShellSessionRequest, GenerateRoomToken,
       ApplySession, CopyViewerUrl, OnDestroy
  <2>3. (\E p \in Pipes : Reader(p)) \/ ServerMoves \/ ViewersMove \/ UNCHANGED vars => UNCHANGED <<up, poll, posted, polling>>
    BY DEF Reader, ServerMoves, ViewersMove, appVars, vars
  <2> QED BY <1>10, <2>1, <2>2, <2>3 DEF Next, UiStep
<1> QED BY <1>3, <1>4, <1>5, <1>6, <1>7, <1>8, <1>9, <1>10 DEF PollOK
(***************************************************************************)
(* The page state.                                                         *)
(***************************************************************************)
LEMMA PageNext ==
  ASSUME ControllerInvariant, JobOK, PollOK, PageOK, session \in Sessions, [Next]_vars
  PROVE  PageOK'
<1>1. ControllerTypeOK /\ hostPage \in HostPageStates /\ (hostPage = "stopped" => ~IsRunning)
  BY DEF ControllerInvariant, PageOK
<1>2. ControllerMoves \/ UNCHANGED ctlVars
  BY <1>1, QuietOutsideJobs, JobsMoveController DEF Quiet, ControllerMoves
<1>3. CASE Started
  <2>1. CASE hostPage' = "loading"
    BY <2>1 DEF PageOK, HostPageStates
  <2>2. CASE SpawnFails /\ UNCHANGED hostPage
    BY <1>1, <2>2 DEF SpawnFails, PageOK, IsRunning, Alive
  <2> QED BY <1>3, <2>1, <2>2 DEF Started
<1>4. ~Started => ~ \E p \in Ports : Spawn(p)
  <2> SUFFICES ASSUME ~Started, NEW p \in Ports, Spawn(p) PROVE FALSE
    OBVIOUS
  <2>1. call = "spawn" /\ call' = "none" /\ running' = TRUE
    BY DEF Spawn
  <2>2. ~running
    BY <2>1 DEF ControllerInvariant, StoppingOK
  <2>3. ~(CallStop \/ CallStart \/ Terminate \/ Join \/ Close \/ SpawnFails)
    BY <2>1, <2>2 DEF CallStop, CallStart, Terminate, Join, Close, SpawnFails
  <2>4. ~Quiet
    BY <2>1, <2>2 DEF Quiet, Terminate, Join, Close, ReaderEnds, ChildListens, ChildExits, OwnerMoves, Crashed, ctlVars
  <2>5. JobStep
    BY <1>1, <2>4, QuietOutsideJobs
  <2>6. ~((\E n \in Draws : StartBegins(n)) \/ Stopped \/ Opened)
    BY <2>1, <2>2 DEF StartBegins, Stopped, Opened, ctlVars
  <2>7. ~Probe /\ ~StopBegins /\ ~Quits
    BY <2>1, <2>2, <2>3 DEF Probe, StopBegins, Quits, ctlVars
  <2> QED BY <2>5, <2>6, <2>7 DEF JobStep
<1>5. ~Started => (IsRunning' => IsRunning)
  BY <1>2, <1>4, RunningStays
<1>6. ASSUME ~Started, UNCHANGED hostPage PROVE PageOK'
  BY <1>1, <1>5, <1>6 DEF PageOK
<1>7. CASE StopBegins
  <2>1. UNCHANGED hostPage \/ (hostPage' = "stopped" /\ ~IsRunning)
    BY <1>7 DEF StopBegins
  <2>2. ~Started
    BY <1>7 DEF StopBegins, Started, Doing
  <2> QED BY <1>5, <1>6, <2>1, <2>2 DEF PageOK, HostPageStates
<1>8. CASE Stopped
  <2>1. hostPage' = "stopped" /\ job.at = "stopping" /\ call = "none" /\ UNCHANGED ctlVars
    BY <1>8 DEF Stopped, Doing
  <2>2. ~running
    BY <2>1 DEF JobOK
  <2>3. ~IsRunning'
    BY <2>1, <2>2 DEF ctlVars, IsRunning
  <2> QED BY <2>1, <2>3 DEF PageOK, HostPageStates
<1>9. CASE TakeMessage
  <2>1. posted # <<>> /\ posted \in Seq(Messages) /\ UNCHANGED ctlVars
    BY <1>9 DEF TakeMessage, PollOK
  <2>2. Head(posted) \in Messages
    BY <2>1, Taken
  <2>3. UNCHANGED hostPage \/ (hostPage' \in {"ready", "sharing"})
    BY <1>9, <2>2, MessageIs DEF TakeMessage, HandlePollResult, HandleHostStatus
  <2>4. UNCHANGED ctlVars => (IsRunning' <=> IsRunning)
    BY DEF ctlVars, IsRunning, Alive
  <2> QED BY <1>1, <2>1, <2>3, <2>4 DEF PageOK, HostPageStates
<1>10. CASE AppStarts
  BY <1>10 DEF AppStarts, Launch, PageOK, HostPageStates
<1>11. ASSUME ~StopBegins, ~Started, ~Stopped, ~TakeMessage, ~AppStarts PROVE UNCHANGED hostPage
  <2>1. JobStep \/ JobEnds \/ ControllerStep => UNCHANGED hostPage
    BY <1>11 DEF JobStep, StartBegins, Probe, Quits, Opened, JobEnds, ControllerStep, appVars
  <2>2. Tick \/ (\E p \in Pipes : Reader(p)) \/ PollAnswered \/ UNCHANGED vars \/ ServerMoves \/ ViewersMove \/ AppCrashes \/ HostStatus
          => UNCHANGED hostPage
    BY DEF Tick, HandleRuntimeTick, Reader, PollAnswered, vars, appVars, ServerMoves, ViewersMove, AppCrashes, HostStatus
  <2>3. Command => UNCHANGED hostPage
    BY DEF Command, ExecuteHostAction, RestoreWebViewShellState, ApplyAdminShellSessionRequest, GenerateRoomToken,
       ApplySession, CopyViewerUrl, OnDestroy
  <2> QED BY <1>11, <2>1, <2>2, <2>3 DEF Next, UiStep
<1> QED BY <1>3, <1>6, <1>7, <1>8, <1>9, <1>10, <1>11

(***************************************************************************)
(* The inductive invariant and what follows from it.                       *)
(***************************************************************************)
DesktopInvariant == ControllerInvariant /\ JobOK /\ SessionOK /\ PageOK /\ PollOK /\ CountsOK

LEMMA DesktopInit == Init => DesktopInvariant
<1> SUFFICES ASSUME Init PROVE DesktopInvariant
  OBVIOUS
<1>1. ControllerInvariant
  BY ControllerInitial DEF Init
<1>2. job = Job(<<"start">>, {}, {}) /\ <<"start">> \in Lists /\ {} \in SUBSET Flags
  BY ListsOfOne DEF Init, Operations
<1>3. JobOK
  <2>1. job \in Jobs2 /\ job.at = "begin" /\ job.sets = {} /\ job.setsIfOk = {}
    BY <1>2, JobType
  <2> QED BY <2>1 DEF JobOK
<1>4. SessionOK
  BY NewSessionIs DEF Init, SessionOK
<1>5. PageOK
  BY DEF Init, PageOK, HostPageStates
<1>6. PollOK
  <2>1. <<>> \in Seq(Messages) /\ NoAnswer(<<>>)
    BY DEF NoAnswer
  <2> QED BY <2>1 DEF Init, PollOK
<1>7. CountsOK
  BY ZeroCounts DEF Init, CountsOK
<1> QED BY <1>1, <1>3, <1>4, <1>5, <1>6, <1>7 DEF DesktopInvariant

LEMMA DesktopStep == DesktopInvariant /\ [Next]_vars => DesktopInvariant'
  BY ControllerNext, JobNext, SessionNext, PageNext, PollNext, CountsNext DEF DesktopInvariant, SessionOK

\* The invariant above holds in every state of every behaviour.
THEOREM DesktopSafe == Spec => []DesktopInvariant
  BY DesktopInit, DesktopStep, PTL DEF Spec

\* No reader thread finds its pipe or the process handle closed, whatever Start,
\* Stop, the child and a crash do (ServerController.cpp:388-403).
THEOREM DesktopReadersSafe == Spec => []ReaderHandlesOpen
<1>1. DesktopInvariant => ReaderHandlesOpen
  BY ReadersUseOpenHandles DEF DesktopInvariant
<1> QED BY <1>1, DesktopSafe, PTL

\* The copied link is the session's, and "stopped" is shown of a server that is
\* stopped (MainWindow.cpp:1858, host_session_coordinator.cpp:39-70).
THEOREM DesktopShowsWhatIsSo == Spec => []ShownIsSo
<1>1. DesktopInvariant => ShownIsSo
  BY DEF DesktopInvariant, SessionOK, PageOK, ShownIsSo, CopiedLinkIsCurrent, StoppedMeansStopped, Config
<1> QED BY <1>1, DesktopSafe, PTL

\* m_polling says whether a poll is under way, for any number of polls, answers,
\* statuses and restarts (MainWindow.cpp:2821-2850).
THEOREM DesktopPollsOnce == Spec => []PollsAreSingle
<1>1. DesktopInvariant => DesktopTypeOK
  BY JobsAre DEF DesktopInvariant, DesktopTypeOK, ControllerInvariant, JobOK, SessionOK, PageOK, PollOK, CountsOK
<1>2. ASSUME DesktopInvariant, up
      PROVE  LET answers == Cardinality({i \in DOMAIN posted : posted[i].kind = "poll"})
             IN  answers + (IF poll # NoPoll THEN 1 ELSE 0) = IF polling THEN 1 ELSE 0
  <2> DEFINE found == {i \in DOMAIN posted : posted[i].kind = "poll"}
  <2>1. PollOK /\ DOMAIN posted = 1..Len(posted)
    BY <1>2 DEF DesktopInvariant, PollOK
  <2>2. NoAnswer(posted) => found = {}
    BY <2>1 DEF NoAnswer
  <2>3. OneAnswer(posted) => \E i : found = {i}
    BY <2>1 DEF OneAnswer
  <2>4. (found = {} => Cardinality(found) = 0) /\ (\A i : found = {i} => Cardinality(found) = 1)
    BY FS_EmptySet, FS_Singleton, Zenon
  <2> HIDE DEF found
  <2>5. \/ ~polling /\ poll = NoPoll /\ NoAnswer(posted)
        \/ polling /\ poll # NoPoll /\ NoAnswer(posted)
        \/ polling /\ poll = NoPoll /\ OneAnswer(posted)
    BY <1>2, <2>1 DEF PollOK
  <2>6. \/ ~polling /\ poll = NoPoll /\ Cardinality(found) = 0
        \/ polling /\ poll # NoPoll /\ Cardinality(found) = 0
        \/ polling /\ poll = NoPoll /\ Cardinality(found) = 1
    BY <2>2, <2>3, <2>4, <2>5, Zenon
  <2>7. Cardinality(found) + (IF poll # NoPoll THEN 1 ELSE 0) = IF polling THEN 1 ELSE 0
    BY <2>6
  <2> QED BY <2>7 DEF found
<1>3. DesktopInvariant => PollsAreSingle
  BY <1>1, <1>2 DEF PollsAreSingle
<1> QED BY <1>3, DesktopSafe, PTL
=============================================================================
