-------------------------- MODULE ServerController --------------------------
(* ServerController.cpp: the UI thread of the desktop host starts ViewMesh-    *)
(* Server as a child process and stops it, and two threads read the child's    *)
(* stdout and stderr. A call of Start or Stop is the sequence of its steps:    *)
(* the child, the readers and the rest of the machine move between them.       *)
EXTENDS HostSession, FiniteSets

Pipes == {"out", "err"}
NoChild == [state |-> "none"]
Children == {NoChild} \cup [state : {"live", "exited"}, port : Ports]
\* Who listens on a port: nobody, our child, a ViewMeshServer we hold no handle
\* of (of a crashed run, or too slow to die), or some other program.
Owners == {"free", "child", "server", "other"}

VARIABLES child,        \* the process m_pi names
          owner,        \* who listens on each port
          running,      \* m_running
          stopReaders,  \* m_stopReaders
          handles,      \* the pipe ends and the process handle that are open
          reader,       \* where each ReaderThreadProc is
          call          \* where the thread inside Start or Stop is
ctlVars == <<child, owner, running, stopReaders, handles, reader, call>>

Calls == {"none", "terminate", "joinToStop", "joinToStart", "closeToStop", "closeToStart", "spawn"}

ControllerTypeOK ==
  /\ child \in Children /\ owner \in [Ports -> Owners]
  /\ running \in BOOLEAN /\ stopReaders \in BOOLEAN
  /\ handles \subseteq Pipes \cup {"process"}
  /\ reader \in [Pipes -> {"none", "running", "done"}]
  /\ call \in Calls

ControllerInit ==
  /\ child = NoChild /\ owner = [p \in Ports |-> "free"]
  /\ running = FALSE /\ stopReaders = FALSE /\ handles = {}
  /\ reader = [p \in Pipes |-> "none"]
  /\ call = "none"

Alive == child.state = "live"
Bound == Alive /\ owner[child.port] = "child"
IsRunning == running /\ "process" \in handles /\ Alive

Freed == IF Bound THEN [owner EXCEPT ![child.port] = "free"] ELSE owner

-----------------------------------------------------------------------------
(* Start and Stop, on the UI thread. *)

CallStopQuietly ==                     \* seeded fault: the readers are not told
  /\ call = "none" /\ UNCHANGED stopReaders
  /\ IF "process" \in handles
     THEN call' = "terminate" /\ UNCHANGED running
     ELSE call' = "joinToStop" /\ running' = FALSE
  /\ UNCHANGED <<child, owner, handles, reader>>

\* Stop: a child that was never started needs Cleanup only.
CallStop ==
  /\ call = "none"
  /\ IF "process" \in handles
     THEN stopReaders' = TRUE /\ call' = "terminate" /\ UNCHANGED running
     ELSE call' = "joinToStop" /\ running' = FALSE /\ UNCHANGED stopReaders
  /\ UNCHANGED <<child, owner, handles, reader>>

\* TerminateProcess, and the wait for at most 1500 ms: Stop goes on whether or
\* not the child is gone. Cleanup's first assignment comes with it.
Terminate ==
  /\ call = "terminate"
  /\ \/ child' = [child EXCEPT !.state = "exited"] /\ owner' = Freed
     \/ UNCHANGED <<child, owner>>
  /\ running' = FALSE /\ call' = "joinToStop"
  /\ UNCHANGED <<stopReaders, handles, reader>>

\* Start refuses while the child runs (its caller goes on at once); otherwise
\* it cleans up what the last run left.
CallStart ==
  /\ call = "none" /\ ~IsRunning
  /\ running' = FALSE /\ call' = "joinToStart"
  /\ UNCHANGED <<child, owner, stopReaders, handles, reader>>

JoinOut ==                             \* seeded fault: the stderr reader is not joined
  /\ call \in {"joinToStop", "joinToStart"}
  /\ reader["out"] \in {"none", "done"}
  /\ reader' = [reader EXCEPT !["out"] = "none"]
  /\ call' = IF call = "joinToStop" THEN "closeToStop" ELSE "closeToStart"
  /\ UNCHANGED <<child, owner, running, stopReaders, handles>>

\* Cleanup joins both readers before it closes what they use.
Join ==
  /\ call \in {"joinToStop", "joinToStart"}
  /\ \A p \in Pipes : reader[p] \in {"none", "done"}
  /\ reader' = [p \in Pipes |-> "none"]
  /\ call' = IF call = "joinToStop" THEN "closeToStop" ELSE "closeToStart"
  /\ UNCHANGED <<child, owner, running, stopReaders, handles>>

\* A child that is still alive is out of reach from here on.
Close ==
  /\ call \in {"closeToStop", "closeToStart"}
  /\ handles' = {} /\ child' = NoChild
  /\ owner' = IF Bound THEN [owner EXCEPT ![child.port] = "server"] ELSE owner
  /\ call' = IF call = "closeToStop" THEN "none" ELSE "spawn"
  /\ UNCHANGED <<running, stopReaders, reader>>

\* The files are there and CreateProcess succeeds: the readers start.
Spawn(port) ==
  /\ call = "spawn"
  /\ child' = [state |-> "live", port |-> port]
  /\ running' = TRUE /\ stopReaders' = FALSE
  /\ handles' = Pipes \cup {"process"}
  /\ reader' = [p \in Pipes |-> "running"]
  /\ call' = "none"
  /\ UNCHANGED <<owner>>

\* A file is missing, or a pipe or the process cannot be created: the second
\* Cleanup closes the pipes that were.
SpawnFails == call = "spawn" /\ call' = "none" /\ UNCHANGED <<child, owner, running, stopReaders, handles, reader>>

\* CleanupStaleProcess terminates the ViewMeshServers that listen on the port;
\* it matched when there was one, and stopped when it is gone within 2 s.
StaleOn(port) == owner[port] = "server"
CleanupStaleProcess(port, stopped) ==
  /\ StaleOn(port)
  /\ owner' = IF stopped THEN [owner EXCEPT ![port] = "free"] ELSE owner

CanBindTcpPort(port) == owner[port] = "free"

-----------------------------------------------------------------------------
(* The threads of ReaderThreadProc. *)

\* An iteration of the loop that ends it: it was told to stop, the pipe is
\* broken, or the pipe is empty and the process has exited (whatever it wrote in
\* between). One that reads a line, or sleeps for more, changes nothing here.
ReaderEnds(p) ==
  /\ reader[p] = "running" /\ (stopReaders \/ ~Alive)
  /\ reader' = [reader EXCEPT ![p] = "done"]
  /\ UNCHANGED <<child, owner, running, stopReaders, handles, call>>

-----------------------------------------------------------------------------
(* The child and the machine. *)

\* The server binds its port, or ends when it cannot (server_cli).
ChildListens ==
  /\ Alive /\ ~Bound
  /\ IF owner[child.port] = "free"
     THEN owner' = [owner EXCEPT ![child.port] = "child"] /\ UNCHANGED child
     ELSE child' = [child EXCEPT !.state = "exited"] /\ UNCHANGED owner
  /\ UNCHANGED <<running, stopReaders, handles, reader, call>>

ChildExits ==
  /\ Alive /\ child' = [child EXCEPT !.state = "exited"] /\ owner' = Freed
  /\ UNCHANGED <<running, stopReaders, handles, reader, call>>

\* Another program takes a free port or gives it up; a server nobody holds ends.
PortTaken(port) ==
  /\ owner[port] = "free" /\ owner' = [owner EXCEPT ![port] = "other"]
  /\ UNCHANGED <<child, running, stopReaders, handles, reader, call>>
PortFreed(port) ==
  /\ owner[port] \in {"other", "server"} /\ owner' = [owner EXCEPT ![port] = "free"]
  /\ UNCHANGED <<child, running, stopReaders, handles, reader, call>>

CallStep == Terminate \/ Join \/ Close

-----------------------------------------------------------------------------
\* A reader that may still use its pipe and the process handle finds both open,
\* whatever Start, Stop and the child do: Cleanup joins before it closes.
ReaderHandlesOpen ==
  \A p \in Pipes : reader[p] = "running" => {p, "process"} \subseteq handles
=============================================================================
