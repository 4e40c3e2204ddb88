---------------------------- MODULE ServiceHost ----------------------------
(***************************************************************************)
(* The life of the service: ServiceHost, its Listener and the io_context   *)
(* they share (src/core/server/service_host.cpp, listener.cpp,             *)
(* http_session.cpp).                                                      *)
(*                                                                         *)
(* One caller starts and stops the service while the worker threads run    *)
(* handlers.  ops are the asynchronous operations that have not completed, *)
(* ready the handlers that no thread has taken yet; both live in the       *)
(* io_context, which outlives a stop.  A run of the service is known by    *)
(* the number of its start: hub, listener and router of a run die with it. *)
(***************************************************************************)
EXTENDS Naturals, FiniteSets

CONSTANTS
  Threads,      \* the worker threads of a run
  Conns,        \* connections that clients may open
  NoHandler,
  MaxStarts,    \* bound on the calls of Start
  SpawnFails    \* may the creation of a thread throw?

ASSUME ThreadsAssumption == IsFiniteSet(Threads) /\ Threads # {}
ASSUME MaxStartsAssumption == MaxStarts \in Nat
ASSUME SpawnFailsAssumption == SpawnFails \in BOOLEAN

VARIABLES
  caller,    \* where the caller is: "idle", in Start "building", "spawning",
             \* in Stop "closing", "joining", "resetting"
  running,   \* status.running
  starts,    \* how often Start was called (the run that is being started or runs)
  listener,  \* the run whose Listener exists, 0 if none does
  acceptor,  \* is its acceptor open?
  stopped,   \* the stopped flag of the io_context
  thread,    \* thread[t]: "none", "running" (in run()), "exited" (not joined)
  handling,  \* handling[t]: the handler that t runs
  ops, ready,
  clients    \* connections that were accepted (history)

contextVars == <<stopped, thread, handling, ops, ready, clients>>
callerVars  == <<caller, running, starts, listener, acceptor>>
vars        == <<callerVars, contextVars>>

\* The accept operation of a run, the read of a connection made in it.
AcceptOp(run) == [kind |-> "accept", run |-> run, conn |-> NoHandler]
ReadOp(run, c) == [kind |-> "read", run |-> run, conn |-> c]
Handler(op, result) == [op |-> op, result |-> result]

Runs == 1..MaxStarts
Ops == [kind : {"accept", "read"}, run : Runs, conn : Conns \cup {NoHandler}]
Handlers == [op : Ops, result : {"ok", "error", "aborted"}]
ASSUME NoHandlerAssumption == NoHandler \notin Handlers

Joinable == {t \in Threads : thread[t] # "none"}
Working == {t \in Threads : handling[t] # NoHandler}

----------------------------------------------------------------------------
(* The caller *)

\* Start: the io_context is ready to run again.  Bound: no start after one that
\* left threads behind.
Start ==
  /\ caller = "idle" /\ ~running /\ starts < MaxStarts /\ Joinable = {}
  /\ starts' = starts + 1
  /\ stopped' = FALSE
  /\ caller' = "building"
  /\ UNCHANGED <<running, listener, acceptor, thread, handling, ops, ready, clients>>

ListenWithoutRun ==                    \* seeded fault: Listener::Run is not called
  /\ caller = "building" /\ caller' = "spawning"
  /\ listener' = starts /\ acceptor' = TRUE
  /\ UNCHANGED <<running, starts, contextVars>>

\* Closing the acceptor completes the accept that is under way.
AcceptAborted ==
  ready' = ready \cup {Handler(op, "aborted") : op \in ops \cap {AcceptOp(listener)}}

\* The Listener is made and accepts before there are threads.  It replaces the one
\* that a start without threads left behind.
Listen ==
  /\ caller = "building" /\ caller' = "spawning"
  /\ listener' = starts /\ acceptor' = TRUE
  /\ AcceptAborted
  /\ ops' = (ops \ {AcceptOp(listener)}) \cup {AcceptOp(starts)}
  /\ UNCHANGED <<running, starts, stopped, thread, handling, clients>>

\* make_address fails: Start returns without a Stop.
AddressInvalid ==
  /\ caller = "building" /\ caller' = "idle"
  /\ UNCHANGED <<running, starts, listener, acceptor, contextVars>>

\* The port is taken: the constructor of the Listener throws.
ListenFails ==
  /\ caller = "building" /\ caller' = "closing"
  /\ UNCHANGED <<running, starts, listener, acceptor, contextVars>>

Spawn(t) ==
  /\ caller = "spawning" /\ thread[t] = "none"
  /\ thread' = [thread EXCEPT ![t] = "running"]
  /\ UNCHANGED <<callerVars, stopped, handling, ops, ready, clients>>

SpawnThrows ==
  /\ caller = "spawning" /\ SpawnFails /\ Joinable # Threads
  /\ caller' = "closing"
  /\ UNCHANGED <<running, starts, listener, acceptor, contextVars>>

Started ==
  /\ caller = "spawning" /\ Joinable = Threads
  /\ caller' = "idle" /\ running' = TRUE
  /\ UNCHANGED <<starts, listener, acceptor, contextVars>>

CallStop ==
  /\ caller = "idle" /\ running /\ caller' = "closing"
  /\ UNCHANGED <<running, starts, listener, acceptor, contextVars>>

\* Stop returns at once when nothing is said to run: so does the catch of Start.
StopNothing ==
  /\ caller = "closing" /\ ~running /\ caller' = "idle"
  /\ UNCHANGED <<running, starts, listener, acceptor, contextVars>>

\* Listener::Stop and ioc.stop().
CloseAcceptor ==
  /\ caller = "closing" /\ running /\ caller' = "joining"
  /\ acceptor' = FALSE
  /\ ops' = ops \ {AcceptOp(listener)}
  /\ AcceptAborted
  /\ UNCHANGED <<running, starts, thread, handling, clients>>
CloseOnly == CloseAcceptor /\ UNCHANGED <<listener, stopped>>         \* seeded fault: no ioc.stop()
Close == CloseAcceptor /\ stopped' = TRUE /\ UNCHANGED listener

JoinOne ==                             \* seeded fault: the first thread only
  /\ caller = "joining" /\ \E t \in Threads : thread[t] = "exited"
  /\ thread' = [t \in Threads |-> IF thread[t] = "exited" THEN "none" ELSE thread[t]]
  /\ caller' = "resetting"
  /\ UNCHANGED <<running, starts, listener, acceptor, stopped, handling, ops, ready, clients>>
Join ==
  /\ caller = "joining" /\ \A t \in Threads : thread[t] = "exited"
  /\ thread' = [t \in Threads |-> "none"]
  /\ caller' = "resetting"
  /\ UNCHANGED <<running, starts, listener, acceptor, stopped, handling, ops, ready, clients>>

\* What is left in ops and ready stays there.
Reset ==
  /\ caller = "resetting" /\ caller' = "idle"
  /\ listener' = 0 /\ running' = FALSE
  /\ stopped' = FALSE
  /\ UNCHANGED <<starts, acceptor, thread, handling, ops, ready, clients>>

----------------------------------------------------------------------------
(* The worker threads *)

\* An operation completes while some thread is in run().
Completes(op, result) ==
  /\ op \in ops /\ ~stopped /\ \E t \in Threads : thread[t] = "running"
  /\ ops' = ops \ {op} /\ ready' = ready \cup {Handler(op, result)}
  /\ UNCHANGED <<callerVars, stopped, thread, handling, clients>>

Take(t, h) ==
  /\ thread[t] = "running" /\ ~stopped /\ handling[t] = NoHandler
  /\ h \in ready /\ ready' = ready \ {h}
  /\ handling' = [handling EXCEPT ![t] = h]
  /\ UNCHANGED <<callerVars, stopped, thread, ops, clients>>

\* DoAccept again, while the acceptor is open.
Again(h) == IF acceptor THEN {AcceptOp(h.op.run)} ELSE {}

\* A session is made for the connection and reads.
Accepted(h) ==
  \E c \in Conns \ clients :
    /\ clients' = clients \cup {c}
    /\ ops' = ops \cup {ReadOp(h.op.run, c)} \cup Again(h)

\* Listener::DoAccept's handler.  An aborted accept does not touch the listener.
\* What a handler of a dead listener does is undefined; here it does nothing.
AcceptStops(h) ==                      \* seeded fault: any error ends the loop
  IF h.result # "ok" \/ h.op.run # listener THEN UNCHANGED <<ops, clients>>
  ELSE Accepted(h)
AcceptDone(h) ==
  CASE h.result = "aborted" \/ h.op.run # listener -> UNCHANGED <<ops, clients>>
    [] h.result = "ok" /\ h.op.run = listener -> Accepted(h)
    [] h.result = "error" /\ h.op.run = listener -> ops' = ops \cup Again(h) /\ UNCHANGED clients

\* A session reads on until its connection fails.
ReadDone(h) ==
  /\ ops' = IF h.result = "ok" THEN ops \cup {h.op} ELSE ops
  /\ UNCHANGED clients

Finish(t) ==
  /\ handling[t] # NoHandler
  /\ LET h == handling[t] IN IF h.op.kind = "accept" THEN AcceptDone(h) ELSE ReadDone(h)
  /\ handling' = [handling EXCEPT ![t] = NoHandler]
  /\ UNCHANGED <<callerVars, stopped, thread, ready>>

\* run() returns when the io_context is stopped; with nothing left to do it stops
\* itself.
NothingLeft == ops = {} /\ ready = {} /\ Working = {}
Exit(t) ==
  /\ thread[t] = "running" /\ handling[t] = NoHandler
  /\ stopped \/ NothingLeft
  /\ stopped' = TRUE
  /\ thread' = [thread EXCEPT ![t] = "exited"]
  /\ UNCHANGED <<callerVars, handling, ops, ready, clients>>

----------------------------------------------------------------------------
Init ==
  /\ caller = "idle" /\ running = FALSE /\ starts = 0
  /\ listener = 0 /\ acceptor = FALSE /\ stopped = FALSE
  /\ thread = [t \in Threads |-> "none"] /\ handling = [t \in Threads |-> NoHandler]
  /\ ops = {} /\ ready = {} /\ clients = {}

\* Bound: no more connections than Conns.
CompletesAny ==
  \E op \in ops :
    \/ op.kind = "read" /\ \E result \in {"ok", "error"} : Completes(op, result)
    \/ op.kind = "accept" /\ Completes(op, "error")
    \/ op.kind = "accept" /\ clients # Conns /\ Completes(op, "ok")

WorkerStep(t) == Finish(t) \/ Exit(t) \/ \E h \in ready : Take(t, h)
StartStep == AddressInvalid \/ Listen \/ ListenFails \/ SpawnThrows \/ Started \/ \E t \in Threads : Spawn(t)
StopStep == StopNothing \/ Close \/ Join \/ Reset

Next ==
  \/ Start \/ CallStop \/ StartStep \/ StopStep \/ CompletesAny
  \/ \E t \in Threads : WorkerStep(t)

\* The caller goes on with a call it has begun and the operating system runs every
\* thread.  Nobody has to connect, to send or to stop the service.
Spec ==
  /\ Init /\ [][Next]_vars
  /\ WF_vars(StartStep) /\ WF_vars(StopStep)
  /\ \A t \in Threads : WF_vars(WorkerStep(t))

----------------------------------------------------------------------------
\* What runs is the last run that was started.
ServiceTypeOK ==
  /\ caller \in {"idle", "building", "spawning", "closing", "joining", "resetting"}
  /\ running \in BOOLEAN /\ starts \in 0..MaxStarts /\ listener \in 0..MaxStarts
  /\ acceptor \in BOOLEAN /\ stopped \in BOOLEAN
  /\ thread \in [Threads -> {"none", "running", "exited"}]
  /\ handling \in [Threads -> Handlers \cup {NoHandler}]
  /\ ops \subseteq Ops /\ ready \subseteq Handlers /\ clients \subseteq Conns
  /\ running => listener = starts

Touches(h) == h # NoHandler /\ h.op.kind = "accept" /\ h.result # "aborted"

\* "Allow restarting after a prior Stop()" (service_host.cpp:38): a handler that
\* uses its Listener runs only while that Listener exists (listener.cpp:33-46 keeps
\* a raw pointer in it).
HandlersUseLiveListener ==
  \A t \in Threads : Touches(handling[t]) => handling[t].op.run = listener

\* The Stop of a running service leaves no thread that it has not joined
\* (service_host.cpp:77-80).
JoinedAfterStop == [][running /\ ~running' => Joinable' = {}]_vars

\* "Stop service, joins threads" (service_host.h:33), for every Stop, also the one
\* in the catch of Start: false where the creation of a thread fails.
StopJoinsThreads == caller = "idle" /\ ~running => Joinable = {}

Accepting ==
  \/ AcceptOp(listener) \in ops
  \/ \E h \in ready : h.op = AcceptOp(listener)
  \/ \E t \in Working : handling[t].op = AcceptOp(listener)

\* The running service can be reached: an accept is under way, its handler is
\* about to run, or it runs; whatever the accepts before it ended in
\* (listener.cpp:36-44).
AlwaysAccepting == running /\ caller = "idle" => Accepting

\* No worker of a running service has left run(): there was work before the
\* first thread began (service_host.cpp:56-59).
WorkersStay == running /\ caller = "idle" => \A t \in Threads : thread[t] = "running"

\* Both: a client that connects to a running service finds an accept and a worker.
StaysReachable == AlwaysAccepting /\ WorkersStay

\* Stop comes to its end, whatever connections are open (service_host.cpp:71-88).
StopReturns == caller \in {"closing", "joining"} ~> caller = "idle"
=============================================================================
