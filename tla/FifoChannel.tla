---------------------------- MODULE FifoChannel ----------------------------
(***************************************************************************)
(* What a sender of the signaling server is promised: messages arrive in   *)
(* the order they were sent, none twice, none left out, until the          *)
(* connection breaks; after that nothing arrives.  A message is the number *)
(* of the Send that sent it.                                               *)
(***************************************************************************)
EXTENDS Naturals, Sequences

VARIABLES
  sent,       \* how many messages were sent
  received,   \* the messages that arrived
  link        \* the connection: "up" or "down"

channelVars == <<sent, received, link>>

ChannelInit == sent = 0 /\ received = <<>> /\ link = "up"

Put == sent' = sent + 1 /\ UNCHANGED <<received, link>>

Arrive ==
  /\ link = "up" /\ Len(received) < sent
  /\ received' = Append(received, Len(received) + 1)
  /\ UNCHANGED <<sent, link>>

Break == link = "up" /\ link' = "down" /\ UNCHANGED <<sent, received>>

ChannelNext == Put \/ Arrive \/ Break
ChannelSafety == ChannelInit /\ [][ChannelNext]_channelVars
ChannelSpec == ChannelSafety /\ WF_channelVars(Arrive)
=============================================================================
