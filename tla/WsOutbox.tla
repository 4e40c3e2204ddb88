------------------------------ MODULE WsOutbox ------------------------------
(***************************************************************************)
(* The send path of one WsSession (src/core/server/ws_session.cpp, Send,   *)
(* DoWrite and OnWrite).  Send may be called on any thread; it posts a     *)
(* handler to the strand of the session, which alone touches outbox_ and   *)
(* writing_.  The websocket stream allows one async_write at a time, whose *)
(* buffer has to stay in place until its completion handler runs; the      *)
(* handler runs on the strand too, some time after the write has ended.    *)
(***************************************************************************)
EXTENDS Naturals, Sequences

CONSTANT MaxMessages    \* bound on the number of Send calls

ASSUME MaxMessagesAssumption == MaxMessages \in Nat

VARIABLES
  posted,     \* the messages in the handlers posted to the strand
  outbox,     \* outbox_
  writing,    \* writing_: "busy" or "idle"
  writes,     \* the outstanding async_write operations: the message in the
              \* buffer, and "running", "written" or "failed"
  sent, received, link     \* the channel between the senders and the page

outboxVars == <<posted, outbox, writing, writes, sent, received, link>>

WriteOp == [msg : Nat, status : {"running", "written", "failed"}]
Write(msg, status) == [msg |-> msg, status |-> status]

\* DoWrite: the buffer is the front of outbox_.
DoWrite(queue) == writes' = Append(writes, Write(Head(queue), "running"))

\* Send, on any thread.
Send ==
  /\ sent < MaxMessages
  /\ sent' = sent + 1
  /\ posted' = Append(posted, sent + 1)
  /\ UNCHANGED <<outbox, writing, writes, received, link>>

\* Whether the posted handler starts a write.
MayWriteAnyTime == TRUE               \* seeded fault: nothing is asked
MayWriteNever == FALSE                \* seeded fault: left to a running write
MayWrite == outbox = <<>> /\ writing = "idle"

QueuedFirst(msg) == <<msg>> \o outbox     \* seeded fault: the last one goes first
Queued(msg) == Append(outbox, msg)

\* The handler posted by Send.
RunSend ==
  /\ posted # <<>>
  /\ posted' = Tail(posted)
  /\ outbox' = Queued(Head(posted))
  /\ IF MayWrite THEN writing' = "busy" /\ DoWrite(outbox')
     ELSE UNCHANGED <<writing, writes>>
  /\ UNCHANGED <<sent, received, link>>

Status(i, status) == writes' = [writes EXCEPT ![i].status = status]

\* The stream hands the message to the page.
WriteEnds(i) ==
  /\ writes[i].status = "running" /\ link = "up"
  /\ Status(i, "written")
  /\ received' = Append(received, writes[i].msg)
  /\ UNCHANGED <<posted, outbox, writing, sent, link>>

\* On a broken connection every write fails.
WriteFails(i) ==
  /\ writes[i].status = "running" /\ link = "down"
  /\ Status(i, "failed")
  /\ UNCHANGED <<posted, outbox, writing, sent, received, link>>

Completed(i) == writes' = SubSeq(writes, 1, i - 1) \o SubSeq(writes, i + 1, Len(writes))

\* Seeded fault: the next message waits for the next Send.
OnWriteOnce(i) ==
  /\ writes[i].status = "written"
  /\ outbox' = Tail(outbox)
  /\ Completed(i) /\ writing' = "idle"
  /\ UNCHANGED <<posted, sent, received, link>>

\* OnWrite without an error: the next message, if there is one, is written.
OnWrite(i) ==
  /\ writes[i].status = "written"
  /\ outbox' = Tail(outbox)
  /\ IF Tail(outbox) # <<>>
     THEN /\ writes' = [writes EXCEPT ![i] = Write(Head(Tail(outbox)), "running")]
          /\ UNCHANGED writing
     ELSE Completed(i) /\ writing' = "idle"
  /\ UNCHANGED <<posted, sent, received, link>>

\* OnWrite with an error: what is queued is thrown away.
OnWriteError(i) ==
  /\ writes[i].status = "failed"
  /\ writing' = "idle"
  /\ outbox' = <<>>
  /\ Completed(i)
  /\ UNCHANGED <<posted, sent, received, link>>

\* Seeded fault: the queue is cleared under the write that is running.
ConnectionBreaksEarly ==
  /\ link = "up" /\ link' = "down"
  /\ outbox' = <<>>
  /\ UNCHANGED <<posted, writing, writes, sent, received>>

ConnectionBreaks ==
  /\ link = "up" /\ link' = "down"
  /\ UNCHANGED <<posted, outbox, writing, writes, sent, received>>

OutboxInit ==
  /\ posted = <<>> /\ outbox = <<>> /\ writing = "idle" /\ writes = <<>>
  /\ sent = 0 /\ received = <<>> /\ link = "up"

\* What runs on the strand or in the stream, without a call from outside.
Progress ==
  \/ RunSend
  \/ \E i \in DOMAIN writes : WriteEnds(i) \/ WriteFails(i) \/ OnWrite(i) \/ OnWriteError(i)

OutboxNext == Send \/ Progress \/ ConnectionBreaks

\* The io_context runs what is ready, and a write on a connection ends.
OutboxSpec == OutboxInit /\ [][OutboxNext]_outboxVars /\ WF_outboxVars(Progress)

----------------------------------------------------------------------------
TypeOK ==
  /\ posted \in Seq(Nat) /\ outbox \in Seq(Nat) /\ writing \in {"idle", "busy"}
  /\ writes \in Seq(WriteOp)
  /\ sent \in Nat /\ received \in Seq(Nat) /\ link \in {"up", "down"}

\* The stream never has two writes at once ("WebSocket Send uses a serialized
\* queue to avoid concurrent write issues", docs/PROGRESS_WIP.md:14), although
\* writing_ is cleared in one handler and outbox_ tested in another.
OneWriteAtATime == Len(writes) <= 1

\* The buffer of an outstanding write is the element at the front of outbox_:
\* no handler that runs before its completion pops or clears that element.
BufferStays == \A i \in DOMAIN writes : outbox # <<>> /\ writes[i].msg = Head(outbox)

\* Nothing waits in outbox_ without a write that will come back for it, and
\* writing_ says so.
NothingStranded ==
  /\ outbox # <<>> <=> writes # <<>>
  /\ writing = "busy" <=> writes # <<>>

\* Where the messages are: 1..Len(received) at the page, then the ones in
\* outbox_, then the ones posted, without a gap; the message of a write that has
\* ended is both at the page and at the front of outbox_.  Once the connection
\* is broken, some were thrown away between the page and outbox_.
BeforeOutbox == sent - Len(posted) - Len(outbox)

HasEnded == writes # <<>> /\ writes[1].status = "written"

QueueInOrder ==
  /\ BeforeOutbox >= 0
  /\ \A i \in 1..Len(outbox) : outbox[i] = BeforeOutbox + i
  /\ \A i \in 1..Len(posted) : posted[i] = BeforeOutbox + Len(outbox) + i

Arrived ==
  /\ \A i \in 1..Len(received) : received[i] = i
  /\ link = "up" /\ HasEnded  => Len(received) = BeforeOutbox + 1
  /\ link = "up" /\ ~HasEnded => Len(received) = BeforeOutbox
  /\ writes # <<>> => (writes[1].status = "failed" => link = "down")

InOrder == QueueInOrder /\ Arrived

\* The inductive invariant.
Inv == TypeOK /\ OneWriteAtATime /\ BufferStays /\ NothingStranded /\ InOrder

\* The page receives what was sent, in that order, without gaps, and all of it
\* unless the connection breaks.
Channel == INSTANCE FifoChannel
ImplementsChannel == Channel!ChannelSpec
=============================================================================
