------------------------ MODULE ServerProcessProofs ------------------------
(***************************************************************************)
(* Proofs about two parts of the server process that share no state: the   *)
(* life of its threads, listener and operations (ServiceHost), for any     *)
(* workers, connections and number of starts; and the send path of one     *)
(* session (WsOutbox), which is safe and implements the channel, for any   *)
(* number of messages.                                                     *)
(***************************************************************************)
EXTENDS ServiceHost, WsOutbox, SequenceTheorems, TLAPS

(***************************************************************************)
(* The inductive invariant.  A run is "up" from the moment its Listener    *)
(* accepts until Stop closes the acceptor.                                 *)
(***************************************************************************)
Up == caller = "spawning" \/ (running /\ caller \in {"idle", "closing"})

\* No operation belongs to the run that is about to begin, or to a later one.
Begun(run) == IF caller = "building" THEN run < starts ELSE run <= starts
BegunAfter(run) == IF caller' = "building" THEN run < starts' ELSE run <= starts'
RunsBegun ==
  /\ \A op \in ops : Begun(op.run)
  /\ \A h \in ready : Begun(h.op.run)
  /\ \A t \in Working : Begun(handling[t].op.run)

\* An accept of the run that is up has not been aborted.
Aborted(h) == h.op = AcceptOp(listener) /\ h.result = "aborted"
NotAborted ==
  /\ \A h \in ready : ~Aborted(h)
  /\ \A t \in Working : ~Aborted(handling[t])

UpOK ==
  Up => /\ acceptor /\ ~stopped
        /\ Accepting /\ NotAborted

CallerPhases ==
  /\ caller \in {"building", "spawning"} => ~running /\ starts # 0
  /\ caller \in {"joining", "resetting"} => running
  /\ running \/ caller = "spawning" => listener = starts

\* SpawnThrows is the only way to leave threads behind.
ThreadPhases ==
  /\ caller = "building" => ~stopped
  /\ caller \in {"building", "resetting"} => \A t \in Threads : thread[t] = "none"
  /\ caller = "spawning" => \A t \in Threads : thread[t] # "exited"
  /\ running /\ caller \in {"idle", "closing"} => \A t \in Threads : thread[t] = "running"
  /\ ~running /\ caller \in {"idle", "closing"} =>
       SpawnFails \/ \A t \in Threads : thread[t] = "none"

ServiceInvariant ==
  ServiceTypeOK /\ RunsBegun /\ CallerPhases /\ ThreadPhases /\ UpOK
LEMMA ServiceInit == Init => ServiceInvariant
<1> SUFFICES ASSUME Init PROVE ServiceInvariant
  OBVIOUS
<1>1. 0 \in 0..MaxStarts
  BY MaxStartsAssumption
<1>2. ServiceTypeOK
  BY <1>1 DEF Init, ServiceTypeOK
<1>3. RunsBegun
  BY DEF Init, RunsBegun, Working
<1> QED BY <1>2, <1>3 DEF Init, ServiceInvariant, CallerPhases, ThreadPhases, UpOK, Up

(***************************************************************************)
(* Types.                                                                  *)
(***************************************************************************)
LEMMA OpTypes ==
  ASSUME NEW run \in Runs
  PROVE  /\ AcceptOp(run) \in Ops
         /\ \A c \in Conns : ReadOp(run, c) \in Ops
  BY DEF AcceptOp, ReadOp, Ops

LEMMA HandlerTypes ==
  ASSUME NEW op \in Ops, NEW result \in {"ok", "error", "aborted"}
  PROVE  Handler(op, result) \in Handlers
  BY DEF Handler, Handlers

LEMMA AbortType ==
  ASSUME ServiceTypeOK, AcceptAborted
  PROVE  ready' \subseteq Handlers
<1>1. \A op \in ops : Handler(op, "aborted") \in Handlers
  BY HandlerTypes DEF ServiceTypeOK
<1> QED BY <1>1 DEF AcceptAborted, ServiceTypeOK

LEMMA FinishType ==
  ASSUME ServiceTypeOK, NEW t \in Threads, Finish(t)
  PROVE  ops' \subseteq Ops /\ clients' \subseteq Conns
<1> DEFINE h == handling[t]
<1>1. h \in Handlers
  BY DEF Finish, ServiceTypeOK
<1>2. h.op \in Ops /\ h.op.run \in Runs
  BY <1>1 DEF Handlers, Ops
<1>3. Again(h) \subseteq Ops
  BY <1>2, OpTypes DEF Again
<1>4. \A c \in Conns : ReadOp(h.op.run, c) \in Ops
  BY <1>2, OpTypes
<1>5. CASE h.op.kind = "accept"
  <2>1. AcceptDone(h)
    BY <1>5 DEF Finish
  <2>2. h.result \in {"ok", "error", "aborted"}
    BY <1>1 DEF Handlers
  <2>3. CASE h.result = "aborted" \/ h.op.run # listener
    BY <2>1, <2>3 DEF AcceptDone, ServiceTypeOK
  <2>4. CASE h.result = "ok" /\ h.op.run = listener
    <3>1. Accepted(h)
      BY <2>1, <2>4 DEF AcceptDone
    <3> QED BY <3>1, <1>3, <1>4 DEF Accepted, ServiceTypeOK
  <2>5. CASE h.result = "error" /\ h.op.run = listener
    <3>1. ops' = ops \cup Again(h) /\ UNCHANGED clients
      BY <2>1, <2>5 DEF AcceptDone
    <3> QED BY <3>1, <1>3 DEF ServiceTypeOK
  <2> QED BY <2>2, <2>3, <2>4, <2>5
<1>6. CASE h.op.kind # "accept"
  BY <1>2, <1>6 DEF Finish, ReadDone, ServiceTypeOK
<1> QED BY <1>5, <1>6

LEMMA TypeStep ==
  ASSUME ServiceTypeOK, CallerPhases, [Next]_vars
  PROVE  ServiceTypeOK'
<1> USE DEF ServiceTypeOK
<1>1. CASE Start
  <2>1. starts' \in 0..MaxStarts
    BY <1>1, MaxStartsAssumption DEF Start
  <2> QED BY <1>1, <2>1 DEF Start
<1>2. CASE AddressInvalid \/ ListenFails \/ SpawnThrows \/ CallStop \/ StopNothing
  BY <1>2 DEF AddressInvalid, ListenFails, SpawnThrows, CallStop, StopNothing, contextVars
<1>3. CASE Listen
  <2>1. starts \in Runs
    <3>1. starts \in 0..MaxStarts /\ starts # 0
      BY <1>3 DEF Listen, CallerPhases
    <3> QED BY <3>1, MaxStartsAssumption DEF Runs
  <2>2. ops' \subseteq Ops
    BY <1>3, <2>1, OpTypes DEF Listen
  <2>3. ready' \subseteq Handlers
    BY <1>3, AbortType DEF Listen
  <2> QED BY <1>3, <2>2, <2>3 DEF Listen, CallerPhases
<1>4. ASSUME NEW t \in Threads, Spawn(t) PROVE ServiceTypeOK'
  BY <1>4 DEF Spawn, callerVars
<1>5. CASE Started
  BY <1>5 DEF Started, CallerPhases, contextVars
<1>6. CASE Close
  <2>1. ready' \subseteq Handlers
    BY <1>6, AbortType DEF Close, CloseAcceptor
  <2> QED BY <1>6, <2>1 DEF Close, CloseAcceptor
<1>7. CASE Join
  BY <1>7 DEF Join
<1>8. CASE Reset
  <2>1. 0 \in 0..MaxStarts
    BY MaxStartsAssumption
  <2> QED BY <1>8, <2>1 DEF Reset
<1>9. CASE CompletesAny
  <2>1. PICK op \in ops, result \in {"ok", "error"} : Completes(op, result)
    BY <1>9 DEF CompletesAny
  <2>2. Handler(op, result) \in Handlers
    BY HandlerTypes
  <2> QED BY <2>1, <2>2 DEF Completes, callerVars
<1>10. ASSUME NEW t \in Threads, NEW h \in ready, Take(t, h) PROVE ServiceTypeOK'
  BY <1>10 DEF Take, callerVars
<1>11. ASSUME NEW t \in Threads, Finish(t) PROVE ServiceTypeOK'
  BY <1>11, FinishType DEF Finish, callerVars
<1>12. ASSUME NEW t \in Threads, Exit(t) PROVE ServiceTypeOK'
  BY <1>12 DEF Exit, callerVars
<1>13. CASE UNCHANGED vars
  BY <1>13 DEF vars, callerVars, contextVars
<1> QED
  BY <1>1, <1>2, <1>3, <1>4, <1>5, <1>6, <1>7, <1>8, <1>9, <1>10, <1>11, <1>12, <1>13
     DEF Next, StartStep, StopStep, WorkerStep
(***************************************************************************)
(* The callers' phases and the threads.                                    *)
(***************************************************************************)
\* The run that is up has work, and the io_context is not stopped.
LEMMA NoExit ==
  ASSUME ServiceTypeOK, UpOK, Up
  PROVE  ~stopped /\ ~NothingLeft
  BY DEF UpOK, Accepting, NothingLeft, Working

LEMMA PhaseStep ==
  ASSUME ServiceInvariant, [Next]_vars
  PROVE  CallerPhases' /\ ThreadPhases'
<1> USE DEF ServiceInvariant, CallerPhases, ThreadPhases, Up
<1>1. CASE Start
  <2>1. starts' # 0
    BY <1>1 DEF Start, ServiceTypeOK
  <2>2. \A t \in Threads : thread'[t] = "none"
    BY <1>1 DEF Start, Joinable
  <2> QED BY <1>1, <2>1, <2>2 DEF Start
<1>2. CASE AddressInvalid \/ ListenFails \/ SpawnThrows \/ CallStop \/ StopNothing
  BY <1>2 DEF AddressInvalid, ListenFails, SpawnThrows, CallStop, StopNothing, contextVars
<1>3. CASE Listen
  BY <1>3 DEF Listen
<1>4. ASSUME NEW t \in Threads, Spawn(t) PROVE CallerPhases' /\ ThreadPhases'
  <2>1. \A u \in Threads : thread'[u] # "exited"
    BY <1>4 DEF Spawn, ServiceTypeOK
  <2> QED BY <1>4, <2>1 DEF Spawn, callerVars
<1>5. CASE Started
  <2>1. \A t \in Threads : thread[t] = "running"
    BY <1>5 DEF Started, Joinable, ServiceTypeOK
  <2> QED BY <1>5, <2>1 DEF Started, UpOK, contextVars
<1>6. CASE Close
  BY <1>6 DEF Close, CloseAcceptor
<1>7. CASE Join
  BY <1>7 DEF Join
<1>8. CASE Reset
  BY <1>8 DEF Reset
<1>9. CASE CompletesAny
  BY <1>9 DEF CompletesAny, Completes, callerVars
<1>10. ASSUME NEW t \in Threads, NEW h \in ready, Take(t, h) PROVE CallerPhases' /\ ThreadPhases'
  BY <1>10 DEF Take, callerVars
<1>11. ASSUME NEW t \in Threads, Finish(t) PROVE CallerPhases' /\ ThreadPhases'
  BY <1>11 DEF Finish, callerVars
<1>12. ASSUME NEW t \in Threads, Exit(t) PROVE CallerPhases' /\ ThreadPhases'
  <2>1. ~Up /\ thread[t] = "running"
    BY <1>12, NoExit DEF Exit
  <2>2. caller \notin {"building", "resetting", "spawning"}
    BY <2>1
  <2>3. ~running => caller \in {"idle", "closing"}
    BY <2>1, <2>2 DEF ServiceTypeOK
  <2> QED BY <1>12, <2>1, <2>2, <2>3 DEF Exit, callerVars
<1>13. CASE UNCHANGED vars
  BY <1>13 DEF vars, callerVars, contextVars
<1> QED
  BY <1>1, <1>2, <1>3, <1>4, <1>5, <1>6, <1>7, <1>8, <1>9, <1>10, <1>11, <1>12, <1>13
     DEF Next, StartStep, StopStep, WorkerStep
(***************************************************************************)
(* Nothing in the io_context belongs to a run that has not begun.          *)
(***************************************************************************)
LEMMA BegunKept ==
  ASSUME ServiceInvariant, [Next]_vars, NEW run \in Runs, Begun(run)
  PROVE  BegunAfter(run)
<1>1. run \in Nat /\ starts \in Nat
  BY MaxStartsAssumption DEF Runs, ServiceInvariant, ServiceTypeOK
<1>2. CASE Start
  <2>1. starts' = starts + 1 /\ caller = "idle" /\ caller' = "building"
    BY <1>2 DEF Start
  <2>2. run <= starts
    BY <2>1 DEF Begun
  <2>3. run < starts'
    BY <1>1, <2>1, <2>2
  <2> QED BY <2>1, <2>3 DEF BegunAfter
<1>3. CASE ~Start
  <2>1. starts' = starts /\ (caller' = "building" => caller = "building")
    BY <1>3 DEF Next, vars, callerVars, contextVars, CallStop, StartStep, StopStep, CompletesAny, Completes,
       WorkerStep, Take, Finish, Exit, AddressInvalid, Listen, ListenFails, SpawnThrows, Started,
       Spawn, StopNothing, Close, CloseAcceptor, Join, Reset
  <2> QED BY <1>1, <2>1 DEF Begun, BegunAfter
<1> QED BY <1>2, <1>3

\* What the context holds is of the type that BegunKept speaks about.
LEMMA RunTypes ==
  ASSUME ServiceTypeOK
  PROVE  /\ \A op \in ops : op.run \in Runs
         /\ \A h \in ready : h.op.run \in Runs
         /\ \A t \in Working : handling[t].op.run \in Runs
  BY DEF ServiceTypeOK, Handlers, Ops, Working

LEMMA RunsStep ==
  ASSUME ServiceInvariant, [Next]_vars
  PROVE  RunsBegun'
<1> USE DEF ServiceInvariant
<1>0. /\ \A op \in ops : BegunAfter(op.run)
      /\ \A h \in ready : BegunAfter(h.op.run)
      /\ \A t \in Working : BegunAfter(handling[t].op.run)
  <2>1. \A run \in Runs : Begun(run) => BegunAfter(run)
    BY BegunKept
  <2> QED BY <2>1, RunTypes DEF RunsBegun
<1>00. ASSUME /\ \A op \in ops' : BegunAfter(op.run)
              /\ \A h \in ready' : BegunAfter(h.op.run)
              /\ \A t \in Working' : BegunAfter(handling'[t].op.run)
       PROVE  RunsBegun'
  BY <1>00, Zenon DEF RunsBegun, BegunAfter, Begun
<1>1. CASE UNCHANGED <<ops, ready, handling>>
  BY <1>0, <1>00, <1>1 DEF Working
<1>2. ASSUME ready' = ready \cup {Handler(op, "aborted") : op \in ops \cap {AcceptOp(listener)}}
      PROVE  \A h \in ready' : BegunAfter(h.op.run)
  BY <1>0, <1>2 DEF Handler
<1>3. CASE Listen
  <2>1. starts \in Nat
    BY MaxStartsAssumption DEF ServiceTypeOK
  <2>2. BegunAfter(starts)
    BY <1>3, <2>1 DEF Listen, BegunAfter
  <2>3. AcceptOp(starts).run = starts
    BY DEF AcceptOp
  <2>4. \A op \in ops' : BegunAfter(op.run)
    BY <1>0, <1>3, <2>2, <2>3 DEF Listen
  <2>5. \A h \in ready' : BegunAfter(h.op.run)
    BY <1>2, <1>3 DEF Listen, AcceptAborted
  <2> QED BY <1>0, <1>00, <1>3, <2>4, <2>5 DEF Listen, Working
<1>4. CASE Close
  <2>1. \A h \in ready' : BegunAfter(h.op.run)
    BY <1>2, <1>4 DEF Close, CloseAcceptor, AcceptAborted
  <2> QED BY <1>0, <1>00, <1>4, <2>1 DEF Close, CloseAcceptor, Working
<1>5. CASE CompletesAny
  <2>1. PICK op \in ops, result \in {"ok", "error"} : Completes(op, result)
    BY <1>5 DEF CompletesAny
  <2>2. Handler(op, result).op = op
    BY DEF Handler
  <2> QED BY <1>0, <1>00, <2>1, <2>2 DEF Completes, Working
<1>6. ASSUME NEW t \in Threads, NEW h \in ready, Take(t, h) PROVE RunsBegun'
  <2>1. \A u \in Threads : handling'[u] = IF u = t THEN h ELSE handling[u]
    BY <1>6 DEF Take, ServiceTypeOK
  <2> QED BY <1>0, <1>00, <1>6, <2>1 DEF Take, Working
<1>7. ASSUME NEW t \in Threads, Finish(t) PROVE RunsBegun'
  <2> DEFINE h == handling[t]
  <2>1. t \in Working
    BY <1>7 DEF Finish, Working
  <2>2. BegunAfter(h.op.run)
    BY <1>0, <2>1
  <2>3. \A op \in ops' : op \in ops \/ op.run = h.op.run
    <3>1. \A op \in Again(h) : op.run = h.op.run
      BY DEF Again, AcceptOp
    <3>2. \A c : ReadOp(h.op.run, c).run = h.op.run
      BY DEF ReadOp
    <3>3. h.result \in {"ok", "error", "aborted"}
      BY <2>1 DEF Working, ServiceTypeOK, Handlers
    <3>4. CASE h.op.kind = "accept"
      <4>1. AcceptDone(h)
        BY <1>7, <3>4 DEF Finish
      <4>2. CASE h.result = "aborted" \/ h.op.run # listener
        BY <4>1, <4>2 DEF AcceptDone
      <4>3. CASE h.result = "ok" /\ h.op.run = listener
        BY <4>1, <4>3, <3>1, <3>2 DEF AcceptDone, Accepted
      <4>4. CASE h.result = "error" /\ h.op.run = listener
        BY <4>1, <4>4, <3>1 DEF AcceptDone
      <4> QED BY <3>3, <4>2, <4>3, <4>4
    <3>5. CASE h.op.kind # "accept"
      BY <1>7, <3>5 DEF Finish, ReadDone
    <3> QED BY <3>4, <3>5
  <2>4. \A op \in ops' : BegunAfter(op.run)
    BY <1>0, <2>2, <2>3
  <2>5. \A u \in Threads : handling'[u] = IF u = t THEN NoHandler ELSE handling[u]
    BY <1>7 DEF Finish, ServiceTypeOK
  <2> QED BY <1>0, <1>00, <1>7, <2>4, <2>5 DEF Finish, Working
<1> QED
  BY <1>1, <1>3, <1>4, <1>5, <1>6, <1>7
     DEF Next, vars, callerVars, contextVars, Start, CallStop, StartStep, StopStep, WorkerStep, Exit,
         AddressInvalid, ListenFails, SpawnThrows, Started, Spawn, StopNothing, Join, Reset

(***************************************************************************)
(* A run that is up goes on accepting.                                     *)
(***************************************************************************)
\* Steps that leave the accept of the run alone.
LEMMA UpUndisturbed ==
  ASSUME UpOK, Up' => Up, UNCHANGED <<listener, acceptor, ops, ready, handling>>,
         Up => UNCHANGED stopped
  PROVE  UpOK'
  BY DEF UpOK, Accepting, NotAborted, Aborted, Working

LEMMA ListenUp ==
  ASSUME ServiceInvariant, Listen
  PROVE  UpOK'
<1> USE DEF ServiceInvariant
<1>1. starts \in Nat /\ caller = "building" /\ listener' = starts
  BY MaxStartsAssumption DEF Listen, ServiceTypeOK
<1>2. ~Begun(starts)
  BY <1>1 DEF Begun
<1>3. \A h \in ready : h.op.run # starts
  BY <1>2 DEF RunsBegun
<1>4. \A t \in Working : handling[t].op.run # starts
  BY <1>2 DEF RunsBegun
<1>5. \A op \in ops : op.run # starts
  BY <1>2 DEF RunsBegun
<1>6. AcceptOp(starts).run = starts
  BY DEF AcceptOp
<1>7. \A h \in ready' : h.op.run # starts
  BY <1>3, <1>5 DEF Listen, AcceptAborted, Handler
<1>8. NotAborted'
  BY <1>1, <1>4, <1>6, <1>7 DEF NotAborted, Aborted, Working, Listen
<1>9. Accepting'
  BY <1>1 DEF Accepting, Listen
<1> QED BY <1>8, <1>9 DEF Listen, UpOK, ThreadPhases

LEMMA CompleteUp ==
  ASSUME UpOK, NEW op \in ops, NEW result \in {"ok", "error"}, Completes(op, result)
  PROVE  UpOK'
<1> SUFFICES ASSUME Up' PROVE UpOK'
  BY DEF UpOK
<1>1. Up /\ acceptor' /\ ~stopped'
  BY DEF Completes, callerVars, Up, UpOK
<1>2. Handler(op, result).op = op /\ Handler(op, result).result # "aborted"
  BY DEF Handler
<1>3. Accepting'
  <2>1. CASE op = AcceptOp(listener)
    BY <1>2, <2>1 DEF Completes, callerVars, Accepting
  <2>2. CASE op # AcceptOp(listener)
    BY <1>1, <2>2 DEF Completes, callerVars, Accepting, Working, UpOK
  <2> QED BY <2>1, <2>2
<1>4. NotAborted'
  BY <1>1, <1>2 DEF Completes, callerVars, NotAborted, Aborted, Working, UpOK
<1> QED BY <1>1, <1>3, <1>4 DEF UpOK

LEMMA TakeUp ==
  ASSUME ServiceTypeOK, UpOK, NEW t \in Threads, NEW h \in ready, Take(t, h)
  PROVE  UpOK'
<1> SUFFICES ASSUME Up' PROVE UpOK'
  BY DEF UpOK
<1>1. Up /\ acceptor' /\ ~stopped'
  BY DEF Take, callerVars, Up, UpOK
<1>2. \A u \in Threads : handling'[u] = IF u = t THEN h ELSE handling[u]
  BY DEF Take, ServiceTypeOK
<1>3. h # NoHandler
  BY NoHandlerAssumption DEF ServiceTypeOK
<1>4. Working' = Working \cup {t}
  BY <1>2, <1>3 DEF Working
<1>5. Accepting'
  <2>1. CASE h.op = AcceptOp(listener)
    BY <1>2, <1>4, <2>1 DEF Take, callerVars, Accepting
  <2>2. CASE h.op # AcceptOp(listener)
    <3>1. t \notin Working
      BY DEF Take, Working
    <3> QED BY <1>1, <1>2, <1>4, <2>2, <3>1 DEF Take, callerVars, Accepting, UpOK
  <2> QED BY <2>1, <2>2
<1>6. NotAborted'
  <2>1. NotAborted
    BY <1>1 DEF UpOK
  <2>2. \A g \in ready' : ~Aborted(g)'
    BY <2>1 DEF Take, callerVars, NotAborted, Aborted
  <2>3. \A u \in Working' : ~Aborted(handling[u])'
    BY <1>2, <1>4, <2>1 DEF Take, callerVars, NotAborted, Aborted
  <2> QED BY <2>2, <2>3 DEF NotAborted
<1> QED BY <1>1, <1>5, <1>6 DEF UpOK

LEMMA FinishUp ==
  ASSUME ServiceTypeOK, UpOK, NEW t \in Threads, Finish(t)
  PROVE  UpOK'
<1> DEFINE h == handling[t]
<1> SUFFICES ASSUME Up' PROVE UpOK'
  BY DEF UpOK
<1>1. Up /\ acceptor /\ acceptor' /\ ~stopped'
  BY DEF Finish, callerVars, Up, UpOK
<1>2. Working' = Working \ {t} /\ \A u \in Working' : handling'[u] = handling[u]
  BY DEF Finish, Working, ServiceTypeOK
<1>3. NotAborted'
  BY <1>1, <1>2 DEF Finish, callerVars, UpOK, NotAborted, Aborted
<1>4. t \in Working /\ h \in Handlers
  BY DEF Finish, Working, ServiceTypeOK
<1>5. ops \subseteq ops'
  BY <1>4 DEF Finish, AcceptDone, Accepted, ReadDone, Handlers
<1>6. h.op = AcceptOp(listener) => AcceptOp(listener) \in ops'
  <2> SUFFICES ASSUME h.op = AcceptOp(listener) PROVE AcceptOp(listener) \in ops'
    OBVIOUS
  <2>1. h.op.kind = "accept" /\ h.op.run = listener
    BY DEF AcceptOp
  <2>2. h.result \in {"ok", "error"}
    BY <1>1, <1>4 DEF UpOK, NotAborted, Aborted, Handlers
  <2>3. Again(h) = {AcceptOp(listener)}
    BY <1>1, <2>1 DEF Again
  <2>4. AcceptDone(h)
    BY <2>1 DEF Finish
  <2> QED BY <2>1, <2>2, <2>3, <2>4 DEF AcceptDone, Accepted
<1>7. Accepting'
  <2>1. Accepting /\ listener' = listener /\ ready' = ready
    BY <1>1 DEF UpOK, Finish, callerVars
  <2> QED BY <1>2, <1>5, <1>6, <2>1 DEF Accepting
<1> QED BY <1>1, <1>3, <1>7 DEF UpOK

LEMMA UpStep ==
  ASSUME ServiceInvariant, [Next]_vars
  PROVE  UpOK'
<1> USE DEF ServiceInvariant
<1>1. CASE Start \/ AddressInvalid \/ ListenFails \/ Close \/ Join \/ Reset
  BY <1>1 DEF Start, AddressInvalid, ListenFails, Close, CloseAcceptor, Join, Reset, CallerPhases, UpOK, Up
<1>2. CASE Listen
  BY <1>2, ListenUp
<1>3. CASE SpawnThrows \/ Started \/ CallStop \/ StopNothing
  BY <1>3, UpUndisturbed
     DEF SpawnThrows, Started, CallStop, StopNothing, contextVars, CallerPhases, Up
<1>4. ASSUME NEW t \in Threads, Spawn(t) PROVE UpOK'
  BY <1>4, UpUndisturbed DEF Spawn, callerVars, Up
<1>5. CASE CompletesAny
  BY <1>5, CompleteUp DEF CompletesAny
<1>6. ASSUME NEW t \in Threads, NEW h \in ready, Take(t, h) PROVE UpOK'
  BY <1>6, TakeUp
<1>7. ASSUME NEW t \in Threads, Finish(t) PROVE UpOK'
  BY <1>7, FinishUp
<1>8. ASSUME NEW t \in Threads, Exit(t) PROVE UpOK'
  <2>1. ~Up
    BY <1>8, NoExit DEF Exit
  <2> QED BY <1>8, <2>1 DEF Exit, callerVars, Up, UpOK
<1>9. CASE UNCHANGED vars
  BY <1>9, UpUndisturbed DEF vars, callerVars, contextVars, Up
<1> QED
  BY <1>1, <1>2, <1>3, <1>4, <1>5, <1>6, <1>7, <1>8, <1>9
     DEF Next, StartStep, StopStep, WorkerStep

(***************************************************************************)
(* The theorems.                                                           *)
(***************************************************************************)
LEMMA ServiceStep == ServiceInvariant /\ [Next]_vars => ServiceInvariant'
<1> SUFFICES ASSUME ServiceInvariant, [Next]_vars PROVE ServiceInvariant'
  OBVIOUS
<1>1. ServiceTypeOK'
  BY TypeStep DEF ServiceInvariant
<1> QED BY <1>1, RunsStep, PhaseStep, UpStep DEF ServiceInvariant

\* The invariant above holds in every state of every behaviour.
THEOREM ServiceSafe == Spec => []ServiceInvariant
  BY ServiceInit, ServiceStep, PTL DEF Spec

\* The state of the service has its type, and what runs is the last run started.
THEOREM ServiceTypeCorrect == Spec => []ServiceTypeOK
<1>1. ServiceInvariant => ServiceTypeOK
  BY DEF ServiceInvariant
<1> QED BY <1>1, ServiceSafe, PTL

\* Whatever the accepts of a running service end in and whatever runs before it
\* left in the io_context, an accept is under way or about to be asked for again
\* (listener.cpp:36-44).
THEOREM ServiceStaysReachable == Spec => []AlwaysAccepting
<1>1. ServiceInvariant => AlwaysAccepting
  BY DEF ServiceInvariant, AlwaysAccepting, UpOK, Up
<1> QED BY <1>1, ServiceSafe, PTL

\* The io_context of a running service never runs out of work, so that none of its
\* threads leaves run() (service_host.cpp:56-59).
THEOREM ServiceKeepsWorkers == Spec => []WorkersStay
<1>1. ServiceInvariant => WorkersStay
  BY DEF ServiceInvariant, WorkersStay, ThreadPhases
<1> QED BY <1>1, ServiceSafe, PTL

\* A client that connects to a running service finds an accept and a worker.
THEOREM ServiceIsReachable == Spec => []StaysReachable
<1>1. AlwaysAccepting /\ WorkersStay => StaysReachable
  BY DEF StaysReachable
<1> QED BY <1>1, ServiceStaysReachable, ServiceKeepsWorkers, PTL

\* The Stop of a running service joins all its threads (service_host.cpp:77-80).
THEOREM ServiceStopJoins == Spec => JoinedAfterStop
<1>1. ServiceInvariant /\ [Next]_vars => [running /\ ~running' => Joinable' = {}]_vars
  <2> SUFFICES ASSUME ServiceInvariant, Next, running, ~running'
               PROVE  Joinable' = {}
    BY DEF vars, callerVars
  <2>1. Reset
    BY DEF Next, Start, CallStop, StartStep, StopStep, CompletesAny, Completes, WorkerStep, Take,
       Finish, Exit, AddressInvalid, Listen, ListenFails, SpawnThrows, Started, Spawn, StopNothing,
       Close, CloseAcceptor, Join, callerVars
  <2>2. \A t \in Threads : thread[t] = "none"
    BY <2>1 DEF Reset, ServiceInvariant, ThreadPhases
  <2> QED BY <2>1, <2>2 DEF Reset, Joinable
<1> QED BY <1>1, ServiceSafe, PTL DEF Spec, JoinedAfterStop

\* If threads can be created, Stop and a failed Start leave none behind
\* (service_host.cpp:61, 77-80).
THEOREM ServiceJoinsThreads == ASSUME ~SpawnFails PROVE Spec => []StopJoinsThreads
<1>1. ServiceInvariant => StopJoinsThreads
  BY DEF ServiceInvariant, StopJoinsThreads, ThreadPhases, Joinable
<1> QED BY <1>1, ServiceSafe, PTL

(***************************************************************************)
(* The send path of a session.  Inv is inductive; the refinement follows   *)
(* from it.                                                                *)
(***************************************************************************)

(***************************************************************************)
(* Facts about sequences, in the form the steps below need.                *)
(***************************************************************************)
LEMMA SeqFacts ==
  ASSUME NEW T, NEW s \in Seq(T)
  PROVE  /\ Len(s) \in Nat /\ DOMAIN s = 1..Len(s)
         /\ s = <<>> <=> Len(s) = 0
         /\ \A i \in 1..Len(s) : s[i] \in T
         /\ s # <<>> => Head(s) = s[1]
  BY EmptySeq, LenProperties

LEMMA AppendFacts ==
  ASSUME NEW T, NEW s \in Seq(T), NEW e \in T
  PROVE  /\ Append(s, e) \in Seq(T)
         /\ Len(Append(s, e)) = Len(s) + 1
         /\ \A i \in 1..Len(s) : Append(s, e)[i] = s[i]
         /\ Append(s, e)[Len(s) + 1] = e
  BY AppendProperties

LEMMA TailFacts ==
  ASSUME NEW T, NEW s \in Seq(T), s # <<>>
  PROVE  /\ Tail(s) \in Seq(T)
         /\ Len(Tail(s)) = Len(s) - 1
         /\ \A i \in 1..Len(Tail(s)) : Tail(s)[i] = s[i + 1]
  BY HeadTailProperties

LEMMA UpdateFacts ==
  ASSUME NEW T, NEW s \in Seq(T), NEW e \in T, Len(s) = 1
  PROVE  [s EXCEPT ![1] = e] = <<e>>
<1>1. s = <<s[1]>>
  BY SeqFacts
<1> QED BY <1>1

LEMMA SingleFacts ==
  ASSUME NEW T, NEW e \in T
  PROVE  <<e>> \in Seq(T) /\ Len(<<e>>) = 1 /\ <<e>>[1] = e /\ <<e>> # <<>>
  OBVIOUS

LEMMA CompletedFacts ==
  ASSUME NEW T, writes \in Seq(T), Len(writes) = 1, Completed(1)
  PROVE  writes' = <<>>
  BY DEF Completed

(***************************************************************************)
(* What an outstanding write is under Inv, and what Inv needs of a step.   *)
(***************************************************************************)
LEMMA Lengths ==
  ASSUME Inv
  PROVE  /\ sent \in Nat /\ Len(posted) \in Nat /\ Len(outbox) \in Nat
         /\ Len(received) \in Nat /\ Len(writes) \in {0, 1}
         /\ posted = <<>> <=> Len(posted) = 0
         /\ outbox = <<>> <=> Len(outbox) = 0
         /\ writes = <<>> <=> Len(writes) = 0
<1>1. /\ posted \in Seq(Nat) /\ outbox \in Seq(Nat) /\ received \in Seq(Nat)
      /\ writes \in Seq(WriteOp) /\ sent \in Nat /\ Len(writes) <= 1
  BY DEF Inv, TypeOK, OneWriteAtATime
<1>2. Len(posted) \in Nat /\ (posted = <<>> <=> Len(posted) = 0)
  BY <1>1, SeqFacts
<1>3. Len(outbox) \in Nat /\ (outbox = <<>> <=> Len(outbox) = 0)
  BY <1>1, SeqFacts
<1>4. Len(received) \in Nat
  BY <1>1, SeqFacts
<1>5. Len(writes) \in Nat /\ (writes = <<>> <=> Len(writes) = 0)
  BY <1>1, SeqFacts
<1>6. Len(writes) \in {0, 1}
  <2>1. \A n \in Nat : n <= 1 => n \in {0, 1}
    OBVIOUS
  <2>2. Len(writes) <= 1
    BY <1>1
  <2> QED BY <1>5, <2>1, <2>2
<1> QED BY <1>1, <1>2, <1>3, <1>4, <1>5, <1>6

LEMMA OnlyWrite ==
  ASSUME Inv, NEW i \in DOMAIN writes
  PROVE  i = 1 /\ Len(writes) = 1 /\ writes # <<>> /\ outbox # <<>>
         /\ writes[1] \in WriteOp /\ writes[1].msg = outbox[1]
<1>1. writes \in Seq(WriteOp) /\ Len(writes) <= 1 /\ outbox \in Seq(Nat)
  BY DEF Inv, TypeOK, OneWriteAtATime
<1>2. DOMAIN writes = 1..Len(writes) /\ Len(writes) \in Nat
  BY <1>1, SeqFacts
<1>3. i = 1 /\ Len(writes) = 1
  BY <1>1, <1>2
<1>4. writes # <<>>
  BY <1>3, Lengths
<1>5. writes[1] \in WriteOp
  <2>1. \A j \in 1..Len(writes) : writes[j] \in WriteOp
    BY <1>1, SeqFacts
  <2> QED BY <1>3, <2>1
<1>6. outbox # <<>> /\ writes[1].msg = Head(outbox)
  BY <1>3 DEF Inv, BufferStays
<1>7. Head(outbox) = outbox[1]
  BY <1>1, <1>6, SeqFacts
<1> QED BY <1>3, <1>4, <1>5, <1>6, <1>7

\* A single write whose message is at the front of outbox_ is as it should be.
LEMMA SingleWriteOK ==
  ASSUME NEW op \in WriteOp, writes' = <<op>>, outbox' \in Seq(Nat), outbox' # <<>>,
         op.msg = outbox'[1], writing' = "busy"
  PROVE  /\ writes' \in Seq(WriteOp) /\ writes' # <<>> /\ writes'[1] = op
         /\ OneWriteAtATime' /\ BufferStays' /\ NothingStranded'
<1>1. writes' \in Seq(WriteOp) /\ Len(writes') = 1 /\ writes'[1] = op /\ writes' # <<>>
  BY SingleFacts
<1>2. DOMAIN writes' = 1..1
  BY <1>1, SeqFacts
<1>3. OneWriteAtATime'
  BY <1>1 DEF OneWriteAtATime
<1>4. BufferStays'
  BY <1>1, <1>2, SeqFacts DEF BufferStays
<1> QED BY <1>1, <1>3, <1>4 DEF NothingStranded

LEMMA NoWriteOK ==
  ASSUME writes' = <<>>, outbox' = <<>>, writing' = "idle"
  PROVE  writes' \in Seq(WriteOp) /\ OneWriteAtATime' /\ BufferStays' /\ NothingStranded'
  BY EmptySeq DEF OneWriteAtATime, BufferStays, NothingStranded

LEMMA StatusChange ==
  ASSUME Inv, NEW i \in DOMAIN writes, NEW status \in {"running", "written", "failed"},
         Status(i, status)
  PROVE  writes' = <<Write(writes[1].msg, status)>> /\ Write(writes[1].msg, status) \in WriteOp
<1>1. i = 1 /\ Len(writes) = 1 /\ writes[1] \in WriteOp /\ writes \in Seq(WriteOp)
  BY OnlyWrite DEF Inv, TypeOK
<1>2. [writes[1] EXCEPT !.status = status] = Write(writes[1].msg, status)
  BY <1>1 DEF WriteOp, Write
<1>3. writes' = [writes EXCEPT ![1] = [writes[1] EXCEPT !.status = status]]
  BY <1>1 DEF Status
<1>4. Write(writes[1].msg, status) \in WriteOp
  BY <1>1 DEF WriteOp, Write
<1> QED BY <1>1, <1>2, <1>3, <1>4, UpdateFacts

(***************************************************************************)
(* Inv is inductive.                                                       *)
(***************************************************************************)
LEMMA InitInv == OutboxInit => Inv
<1> SUFFICES ASSUME OutboxInit PROVE Inv
  OBVIOUS
<1>1. TypeOK
  BY EmptySeq DEF OutboxInit, TypeOK
<1>2. OneWriteAtATime /\ BufferStays /\ NothingStranded
  BY DEF OutboxInit, OneWriteAtATime, BufferStays, NothingStranded
<1>3. sent = 0 /\ Len(posted) = 0 /\ Len(outbox) = 0 /\ Len(received) = 0 /\ writes = <<>>
  BY DEF OutboxInit
<1>4. BeforeOutbox = 0
  BY <1>3 DEF BeforeOutbox
<1>5. QueueInOrder /\ Arrived
  BY <1>3, <1>4 DEF QueueInOrder, Arrived, HasEnded
<1> QED BY <1>1, <1>2, <1>5 DEF Inv, InOrder

LEMMA SendInv ==
  ASSUME Inv, Send
  PROVE  Inv'
<1>1. posted \in Seq(Nat) /\ sent \in Nat /\ sent + 1 \in Nat
  BY DEF Inv, TypeOK
<1>2. /\ posted' \in Seq(Nat) /\ Len(posted') = Len(posted) + 1
      /\ \A i \in 1..Len(posted) : posted'[i] = posted[i]
      /\ posted'[Len(posted) + 1] = sent + 1
  BY <1>1, AppendFacts DEF Send
<1>3. UNCHANGED <<outbox, writing, writes, received, link>> /\ sent' = sent + 1
  BY DEF Send
<1>4. TypeOK'
  BY <1>1, <1>2, <1>3 DEF Inv, TypeOK
<1>5. OneWriteAtATime' /\ BufferStays' /\ NothingStranded'
  BY <1>3 DEF Inv, OneWriteAtATime, BufferStays, NothingStranded
<1>6. BeforeOutbox' = BeforeOutbox /\ BeforeOutbox \in Int
      /\ BeforeOutbox + Len(outbox) + Len(posted) = sent
  BY <1>2, <1>3, Lengths DEF BeforeOutbox
<1>7. QueueInOrder'
  <2> DEFINE n == Len(posted)
  <2>1. n \in Nat /\ Len(outbox) \in Nat /\ Len(posted') = n + 1
    BY <1>2, Lengths
  <2>2. /\ BeforeOutbox >= 0
        /\ \A i \in 1..Len(outbox) : outbox[i] = BeforeOutbox + i
        /\ \A i \in 1..n : posted[i] = BeforeOutbox + Len(outbox) + i
    BY DEF Inv, InOrder, QueueInOrder
  <2>3. \A i \in 1..(n + 1) : posted'[i] = BeforeOutbox + Len(outbox) + i
    <3> SUFFICES ASSUME NEW i \in 1..(n + 1)
                 PROVE  posted'[i] = BeforeOutbox + Len(outbox) + i
      OBVIOUS
    <3>1. CASE i = n + 1
      BY <1>2, <1>6, <2>1, <3>1
    <3>2. CASE i # n + 1
      <4>1. i \in 1..n
        BY <2>1, <3>2
      <4> QED BY <1>2, <2>2, <4>1
    <3> QED BY <3>1, <3>2
  <2>4. outbox' = outbox
    BY <1>3
  <2> HIDE DEF n
  <2> QED BY <1>6, <2>1, <2>2, <2>3, <2>4 DEF QueueInOrder
<1>8. Arrived'
  BY <1>3, <1>6 DEF Inv, InOrder, Arrived, HasEnded
<1> QED BY <1>4, <1>5, <1>7, <1>8 DEF Inv, InOrder

LEMMA RunSendInv ==
  ASSUME Inv, RunSend
  PROVE  Inv'
<1> DEFINE m == posted[1]
<1>1. /\ posted' \in Seq(Nat) /\ Len(posted') = Len(posted) - 1
      /\ \A i \in 1..Len(posted') : posted'[i] = posted[i + 1]
      /\ m \in Nat /\ m = Head(posted) /\ Len(posted) >= 1
  BY Lengths, SeqFacts, TailFacts DEF Inv, TypeOK, RunSend
<1>2. /\ outbox' \in Seq(Nat) /\ Len(outbox') = Len(outbox) + 1
      /\ \A i \in 1..Len(outbox) : outbox'[i] = outbox[i]
      /\ outbox'[Len(outbox) + 1] = m
  BY <1>1, AppendFacts DEF Inv, TypeOK, RunSend, Queued
<1>3. UNCHANGED <<sent, received, link>>
  BY DEF RunSend
<1>4. BeforeOutbox' = BeforeOutbox /\ BeforeOutbox \in Int
  BY <1>1, <1>2, <1>3, Lengths DEF BeforeOutbox
<1>5. m = BeforeOutbox + Len(outbox) + 1
  BY <1>1, Lengths DEF Inv, InOrder, QueueInOrder
<1>6. QueueInOrder'
  <2>1. \A i \in 1..Len(outbox') : outbox'[i] = BeforeOutbox + i
    <3> DEFINE n == Len(outbox)
    <3>1. n \in Nat /\ Len(outbox') = n + 1 /\ BeforeOutbox \in Int
      BY <1>2, <1>4, Lengths
    <3>2. \A i \in 1..n : outbox[i] = BeforeOutbox + i
      BY DEF Inv, InOrder, QueueInOrder
    <3> SUFFICES ASSUME NEW i \in 1..(n + 1) PROVE outbox'[i] = BeforeOutbox + i
      BY <3>1
    <3>3. CASE i = n + 1
      BY <1>2, <1>5, <3>1, <3>3
    <3>4. CASE i # n + 1
      <4>1. i \in 1..n
        BY <3>1, <3>4
      <4> QED BY <1>2, <3>2, <4>1
    <3> QED BY <3>3, <3>4
  <2>2. \A i \in 1..Len(posted') : posted'[i] = BeforeOutbox + Len(outbox') + i
    BY <1>1, <1>2, <1>4, Lengths DEF Inv, InOrder, QueueInOrder
  <2> QED BY <1>4, <2>1, <2>2 DEF Inv, InOrder, QueueInOrder
<1>7. outbox' # <<>>
  BY <1>2, Lengths, SeqFacts
<1>8. CASE MayWrite
  <2>1. writes = <<>> /\ writing' = "busy" /\ outbox = <<>>
    BY <1>8 DEF MayWrite, Inv, NothingStranded, RunSend
  <2>2. outbox'[1] = m
    BY <1>2, <2>1, Lengths
  <2>3. writes' = Append(writes, Write(Head(outbox'), "running"))
    BY <1>8 DEF RunSend, DoWrite
  <2>4. writes' = <<Write(m, "running")>>
    BY <1>2, <1>7, <2>1, <2>2, <2>3, SeqFacts
  <2>5. Write(m, "running") \in WriteOp /\ Write(m, "running").msg = m
        /\ Write(m, "running").status = "running"
    BY <1>1 DEF Write, WriteOp
  <2>6. /\ writes' \in Seq(WriteOp) /\ writes' # <<>> /\ writes'[1] = Write(m, "running")
        /\ OneWriteAtATime' /\ BufferStays' /\ NothingStranded'
    BY <1>2, <1>7, <2>1, <2>2, <2>4, <2>5, SingleWriteOK
  <2>7. TypeOK'
    BY <1>1, <1>2, <1>3, <2>1, <2>6 DEF Inv, TypeOK
  <2>8. ~HasEnded /\ ~HasEnded' /\ writes'[1].status # "failed"
    BY <2>1, <2>5, <2>6 DEF HasEnded
  <2>9. Arrived'
    BY <1>3, <1>4, <2>8 DEF Inv, InOrder, Arrived
  <2> QED BY <1>6, <2>6, <2>7, <2>9 DEF Inv, InOrder
<1>9. CASE ~MayWrite
  <2>1. UNCHANGED <<writes, writing>> /\ writes # <<>> /\ outbox # <<>>
    BY <1>9 DEF MayWrite, Inv, TypeOK, NothingStranded, RunSend
  <2>2. TypeOK'
    BY <1>1, <1>2, <1>3, <2>1 DEF Inv, TypeOK
  <2>3. Head(outbox') = Head(outbox)
    BY <1>2, <1>7, <2>1, SeqFacts, Lengths DEF Inv, TypeOK
  <2>4. OneWriteAtATime' /\ BufferStays' /\ NothingStranded'
    BY <1>7, <2>1, <2>3 DEF Inv, OneWriteAtATime, BufferStays, NothingStranded
  <2>5. Arrived'
    BY <1>3, <1>4, <2>1 DEF Inv, InOrder, Arrived, HasEnded
  <2> QED BY <1>6, <2>2, <2>4, <2>5 DEF Inv, InOrder
<1> QED BY <1>8, <1>9

LEMMA WriteEndsInv ==
  ASSUME Inv, NEW i \in DOMAIN writes, WriteEnds(i)
  PROVE  /\ Inv'
         /\ received' = Append(received, Len(received) + 1)
         /\ Len(received) < sent
<1> DEFINE op == Write(writes[1].msg, "written")
<1>1. /\ i = 1 /\ writes # <<>> /\ outbox # <<>> /\ writes[1] \in WriteOp
      /\ writes[1].msg = outbox[1] /\ Len(outbox) >= 1
  BY OnlyWrite, Lengths
<1>2. writes' = <<op>> /\ op \in WriteOp /\ op.msg = outbox[1] /\ op.status = "written"
  BY <1>1, StatusChange DEF WriteEnds, Write
<1>3. UNCHANGED <<posted, outbox, writing, sent, link>> /\ link = "up" /\ ~HasEnded
  BY <1>1 DEF WriteEnds, HasEnded
<1>4. outbox[1] = BeforeOutbox + 1 /\ Len(received) = BeforeOutbox /\ BeforeOutbox < sent
      /\ BeforeOutbox \in Nat
  <2>1. BeforeOutbox \in Int /\ BeforeOutbox < sent
    BY <1>1, Lengths DEF BeforeOutbox
  <2>2. Len(received) = BeforeOutbox
    BY <1>3 DEF Inv, InOrder, Arrived
  <2>3. outbox[1] = BeforeOutbox + 1 /\ BeforeOutbox >= 0
    BY <1>1, Lengths DEF Inv, InOrder, QueueInOrder
  <2> QED BY <2>1, <2>2, <2>3
<1>5. received' = Append(received, Len(received) + 1) /\ received \in Seq(Nat)
      /\ Len(received) \in Nat
  BY <1>1, <1>4, Lengths DEF Inv, TypeOK, WriteEnds
<1>6. /\ received' \in Seq(Nat) /\ Len(received') = Len(received) + 1
      /\ \A k \in 1..Len(received) : received'[k] = received[k]
      /\ received'[Len(received) + 1] = Len(received) + 1
  BY <1>5, AppendFacts
<1>7. writing = "busy"
  BY <1>1 DEF Inv, NothingStranded
<1>8. /\ writes' \in Seq(WriteOp) /\ writes' # <<>> /\ writes'[1] = op
      /\ OneWriteAtATime' /\ BufferStays' /\ NothingStranded'
  BY <1>1, <1>2, <1>3, <1>7, SingleWriteOK DEF Inv, TypeOK
<1>9. TypeOK'
  BY <1>3, <1>6, <1>8 DEF Inv, TypeOK
<1>10. BeforeOutbox' = BeforeOutbox
  BY <1>3 DEF BeforeOutbox
<1>11. QueueInOrder'
  BY <1>3, <1>10 DEF Inv, InOrder, QueueInOrder
<1>12. HasEnded' /\ writes'[1].status # "failed"
  BY <1>2, <1>8 DEF HasEnded
<1>13. \A k \in 1..Len(received') : received'[k] = k
  BY <1>5, <1>6 DEF Inv, InOrder, Arrived
<1>14. Arrived'
  BY <1>4, <1>6, <1>10, <1>12, <1>13 DEF Arrived
<1> QED BY <1>4, <1>5, <1>8, <1>9, <1>11, <1>14 DEF Inv, InOrder

LEMMA WriteFailsInv ==
  ASSUME Inv, NEW i \in DOMAIN writes, WriteFails(i)
  PROVE  Inv'
<1> DEFINE op == Write(writes[1].msg, "failed")
<1>1. /\ i = 1 /\ writes # <<>> /\ outbox # <<>> /\ writes[1] \in WriteOp
      /\ writes[1].msg = outbox[1]
  BY OnlyWrite
<1>2. writes' = <<op>> /\ op \in WriteOp /\ op.msg = outbox[1] /\ op.status = "failed"
  BY <1>1, StatusChange DEF WriteFails, Write
<1>3. UNCHANGED <<posted, outbox, writing, sent, received, link>> /\ link = "down"
  BY DEF WriteFails
<1>4. writing = "busy"
  BY <1>1 DEF Inv, NothingStranded
<1>5. /\ writes' \in Seq(WriteOp) /\ writes' # <<>> /\ writes'[1] = op
      /\ OneWriteAtATime' /\ BufferStays' /\ NothingStranded'
  BY <1>1, <1>2, <1>3, <1>4, SingleWriteOK DEF Inv, TypeOK
<1>6. TypeOK'
  BY <1>3, <1>5 DEF Inv, TypeOK
<1>7. BeforeOutbox' = BeforeOutbox
  BY <1>3 DEF BeforeOutbox
<1>8. QueueInOrder' /\ Arrived'
  BY <1>3, <1>7 DEF Inv, InOrder, QueueInOrder, Arrived
<1> QED BY <1>5, <1>6, <1>8 DEF Inv, InOrder

LEMMA OnWriteInv ==
  ASSUME Inv, NEW i \in DOMAIN writes, OnWrite(i)
  PROVE  Inv'
<1>1. /\ i = 1 /\ Len(writes) = 1 /\ writes # <<>> /\ outbox # <<>> /\ HasEnded
      /\ Len(outbox) >= 1
  BY OnlyWrite, Lengths DEF OnWrite, HasEnded
<1>2. /\ outbox' = Tail(outbox) /\ outbox' \in Seq(Nat) /\ Len(outbox') = Len(outbox) - 1
      /\ \A k \in 1..Len(outbox') : outbox'[k] = outbox[k + 1]
  BY <1>1, TailFacts DEF Inv, TypeOK, OnWrite
<1>3. UNCHANGED <<posted, sent, received, link>>
  BY DEF OnWrite
<1>4. BeforeOutbox' = BeforeOutbox + 1 /\ BeforeOutbox \in Int
  BY <1>1, <1>2, <1>3, Lengths DEF BeforeOutbox
<1>5. QueueInOrder'
  <2>1. \A k \in 1..Len(outbox') : outbox'[k] = BeforeOutbox' + k
    BY <1>1, <1>2, <1>4, Lengths DEF Inv, InOrder, QueueInOrder
  <2>2. \A k \in 1..Len(posted') : posted'[k] = BeforeOutbox' + Len(outbox') + k
    BY <1>1, <1>2, <1>3, <1>4, Lengths DEF Inv, InOrder, QueueInOrder
  <2> QED BY <1>4, <2>1, <2>2 DEF Inv, InOrder, QueueInOrder
<1>6. link = "up" => Len(received) = BeforeOutbox'
  BY <1>1, <1>4 DEF Inv, InOrder, Arrived
<1>7. CASE Tail(outbox) # <<>>
  <2> DEFINE op == Write(Head(outbox'), "running")
  <2>1. Head(outbox') = outbox'[1] /\ Head(outbox') \in Nat
    BY <1>2, <1>7, SeqFacts
  <2>2. op \in WriteOp /\ op.msg = outbox'[1] /\ op.status = "running"
    BY <2>1 DEF Write, WriteOp
  <2>3. writes' = [writes EXCEPT ![1] = op] /\ writing' = writing
    BY <1>1, <1>2, <1>7 DEF OnWrite
  <2>4. writes' = <<op>> /\ writing' = "busy"
    BY <1>1, <2>2, <2>3, UpdateFacts DEF Inv, TypeOK, NothingStranded
  <2>5. /\ writes' \in Seq(WriteOp) /\ writes' # <<>> /\ writes'[1] = op
        /\ OneWriteAtATime' /\ BufferStays' /\ NothingStranded'
    BY <1>2, <1>7, <2>2, <2>4, SingleWriteOK
  <2>6. TypeOK'
    BY <1>2, <1>3, <2>4, <2>5 DEF Inv, TypeOK
  <2>7. ~HasEnded' /\ writes'[1].status # "failed"
    BY <2>2, <2>5 DEF HasEnded
  <2>8. Arrived'
    BY <1>3, <1>6, <2>7 DEF Inv, InOrder, Arrived
  <2> QED BY <1>5, <2>5, <2>6, <2>8 DEF Inv, InOrder
<1>8. CASE Tail(outbox) = <<>>
  <2>1. writes' = <<>> /\ writing' = "idle"
    BY <1>1, <1>8, CompletedFacts DEF Inv, TypeOK, OnWrite
  <2>2. writes' \in Seq(WriteOp) /\ OneWriteAtATime' /\ BufferStays' /\ NothingStranded'
    BY <1>2, <1>8, <2>1, NoWriteOK
  <2>3. TypeOK'
    BY <1>2, <1>3, <2>1, <2>2 DEF Inv, TypeOK
  <2>4. Arrived'
    BY <1>3, <1>6, <2>1 DEF Inv, InOrder, Arrived, HasEnded
  <2> QED BY <1>5, <2>2, <2>3, <2>4 DEF Inv, InOrder
<1> QED BY <1>7, <1>8

LEMMA OnWriteErrorInv ==
  ASSUME Inv, NEW i \in DOMAIN writes, OnWriteError(i)
  PROVE  Inv'
<1>1. i = 1 /\ Len(writes) = 1 /\ writes # <<>> /\ writes[1].status = "failed"
  BY OnlyWrite DEF OnWriteError
<1>2. writes' = <<>> /\ writing' = "idle" /\ outbox' = <<>>
  BY <1>1, CompletedFacts DEF Inv, TypeOK, OnWriteError
<1>3. UNCHANGED <<posted, sent, received, link>> /\ link = "down"
  BY <1>1 DEF OnWriteError, Inv, InOrder, Arrived
<1>4. writes' \in Seq(WriteOp) /\ OneWriteAtATime' /\ BufferStays' /\ NothingStranded'
  BY <1>2, NoWriteOK
<1>5. outbox' \in Seq(Nat) /\ Len(outbox') = 0
  BY <1>2, EmptySeq
<1>6. TypeOK'
  BY <1>2, <1>3, <1>4, <1>5 DEF Inv, TypeOK
<1>7. BeforeOutbox' = BeforeOutbox + Len(outbox) /\ BeforeOutbox \in Int
  BY <1>3, <1>5, Lengths DEF BeforeOutbox
<1>8. QueueInOrder'
  BY <1>3, <1>5, <1>7, Lengths DEF Inv, InOrder, QueueInOrder
<1>9. Arrived'
  BY <1>2, <1>3 DEF Inv, InOrder, Arrived
<1> QED BY <1>4, <1>6, <1>8, <1>9 DEF Inv, InOrder

LEMMA BreakInv ==
  ASSUME Inv, ConnectionBreaks
  PROVE  Inv'
<1>1. UNCHANGED <<posted, outbox, writing, writes, sent, received>> /\ link' = "down"
  BY DEF ConnectionBreaks
<1>2. TypeOK' /\ OneWriteAtATime' /\ BufferStays' /\ NothingStranded'
  BY <1>1 DEF Inv, TypeOK, OneWriteAtATime, BufferStays, NothingStranded
<1>3. BeforeOutbox' = BeforeOutbox
  BY <1>1 DEF BeforeOutbox
<1>4. QueueInOrder' /\ Arrived'
  BY <1>1, <1>3 DEF Inv, InOrder, QueueInOrder, Arrived
<1> QED BY <1>2, <1>4 DEF Inv, InOrder

LEMMA StutterInv ==
  ASSUME Inv, UNCHANGED outboxVars
  PROVE  Inv'
  BY DEF outboxVars, Inv, TypeOK, OneWriteAtATime, BufferStays, NothingStranded, InOrder,
         QueueInOrder, Arrived, BeforeOutbox, HasEnded

LEMMA StepInv == Inv /\ [OutboxNext]_outboxVars => Inv'
  BY SendInv, RunSendInv, WriteEndsInv, WriteFailsInv, OnWriteInv, OnWriteErrorInv,
     BreakInv, StutterInv DEF OutboxNext, Progress

\* No two writes at once, the buffer stays in place, nothing is stranded, and the
\* messages keep their order, however many messages are sent.
THEOREM OutboxSafe == OutboxSpec => []Inv
  BY InitInv, StepInv, PTL DEF OutboxSpec

\* The stream never has two outstanding writes (ws_session.cpp:64-99).
THEOREM WritesAreSerialized == OutboxSpec => []OneWriteAtATime
<1>1. Inv => OneWriteAtATime
  BY DEF Inv
<1> QED BY <1>1, OutboxSafe, PTL

\* The buffer of the outstanding write is never popped or cleared under it
\* (ws_session.cpp:76-99).
THEOREM BufferOutlivesWrite == OutboxSpec => []BufferStays
<1>1. Inv => BufferStays
  BY DEF Inv
<1> QED BY <1>1, OutboxSafe, PTL

\* A queued message always has a write that will come back for it
\* (ws_session.cpp:66-72, 92-98).
THEOREM QueueIsServed == OutboxSpec => []NothingStranded
<1>1. Inv => NothingStranded
  BY DEF Inv
<1> QED BY <1>1, OutboxSafe, PTL

(***************************************************************************)
(* The refinement.                                                         *)
(***************************************************************************)
LEMMA ChannelStep == Inv /\ [OutboxNext]_outboxVars => [Channel!ChannelNext]_Channel!channelVars
<1> SUFFICES ASSUME Inv, [OutboxNext]_outboxVars PROVE [Channel!ChannelNext]_Channel!channelVars
  OBVIOUS
<1> USE DEF Channel!ChannelNext, Channel!channelVars
<1>1. ASSUME Send PROVE Channel!Put
  BY <1>1 DEF Send, Channel!Put
<1>2. ASSUME NEW i \in DOMAIN writes, WriteEnds(i) PROVE Channel!Arrive
  <2>1. UNCHANGED <<sent, link>> /\ link = "up"
    BY <1>2 DEF WriteEnds
  <2> QED BY <1>2, <2>1, WriteEndsInv DEF Channel!Arrive
<1>3. ASSUME ConnectionBreaks PROVE Channel!Break
  BY <1>3 DEF ConnectionBreaks, Channel!Break
<1>4. ASSUME RunSend PROVE UNCHANGED Channel!channelVars
  BY <1>4 DEF RunSend
<1>5. ASSUME NEW i \in DOMAIN writes, WriteFails(i) \/ OnWrite(i) \/ OnWriteError(i)
      PROVE  UNCHANGED Channel!channelVars
  BY <1>5 DEF WriteFails, OnWrite, OnWriteError
<1> QED BY <1>1, <1>2, <1>3, <1>4, <1>5 DEF OutboxNext, Progress, outboxVars

\* The page receives what was sent, in that order and without gaps.
THEOREM OutboxImplementsChannel == OutboxSpec => Channel!ChannelSafety
<1>1. OutboxInit => Channel!ChannelInit
  BY DEF OutboxInit, Channel!ChannelInit
<1> QED BY <1>1, ChannelStep, OutboxSafe, PTL DEF OutboxSpec, Channel!ChannelSafety
=============================================================================
