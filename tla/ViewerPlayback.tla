--------------------------- MODULE ViewerPlayback ---------------------------
(***************************************************************************)
(* One viewer page from the offer to the picture                           *)
(* (www/assets/app_viewer.js): the socket, the negotiation that onOffer    *)
(* continues after its awaits, the video element, and the state that the   *)
(* page shows.                                                             *)
(*                                                                         *)
(* The promises of video.play() settle together, so one play stands for    *)
(* all that are pending.  What the browser runs as a microtask at the end  *)
(* of an event handler is part of that handler's step: setting srcObject   *)
(* to null settles the pending promises before anything else runs.         *)
(***************************************************************************)
EXTENDS Naturals

CONSTANT MaxEvents    \* bound on offers, ends, interruptions and connection losses
ASSUME MaxEventsAssumption == MaxEvents \in Nat

VARIABLES
  socket,   \* "connecting", "open", "joined", "closed"
  state,    \* what the page shows (setState)
  pc,       \* "none", "new", "answered", "connected", "disconnected", "failed"
  job,      \* what onOffer waits for: "none", "remote" (description), "answer"
  video,    \* video.srcObject: "none", "attached", "flowing" (it has data)
  play,     \* video.play(): "none", "pending", "resolving" (its task is queued)
  hint,     \* is the play button shown?
  retry,    \* playRetryTimer
  events

vars == <<socket, state, pc, job, video, play, hint, retry, events>>

Spend == events < MaxEvents /\ events' = events + 1
Show(s) == state' = s

----------------------------------------------------------------------------
(* Playing *)

\* tryPlayVideo up to its await: the browser may refuse at once.
TryPlay ==
  \/ /\ play' = IF play = "none" THEN "pending" ELSE play
     /\ hint' = FALSE /\ UNCHANGED state
  \/ hint' = TRUE /\ Show("play_blocked") /\ UNCHANGED play

\* The AbortError branch: the state goes back and the timer is set anew.
InterruptedForGood ==                  \* seeded fault: no retry
  Show("stream_attached") /\ UNCHANGED retry
Interrupted == Show("stream_attached") /\ retry' = TRUE

DataArrives ==
  /\ video = "attached" /\ pc = "connected"
  /\ video' = "flowing"
  /\ UNCHANGED <<socket, state, pc, job, play, hint, retry, events>>

\* The element has data and plays: its task is queued, and then fires playing and
\* resolves the promises.
PlayStarts ==
  /\ play = "pending" /\ video = "flowing"
  /\ play' = "resolving"
  /\ UNCHANGED <<socket, state, pc, job, video, hint, retry, events>>

PlayResolves ==
  /\ play = "resolving" /\ play' = "none"
  /\ hint' = FALSE /\ Show("playing")
  /\ UNCHANGED <<socket, pc, job, video, retry, events>>

\* A pause by the browser rejects the promises.
PlayIsInterrupted ==
  /\ play = "pending" /\ play' = "none" /\ Spend
  /\ Interrupted
  /\ UNCHANGED <<socket, pc, job, video, hint>>

RetryFires ==
  /\ retry /\ retry' = FALSE
  /\ IF video # "none" THEN TryPlay ELSE UNCHANGED <<state, play, hint>>
  /\ UNCHANGED <<socket, pc, job, video, events>>

Click ==
  /\ hint
  /\ TryPlay
  /\ UNCHANGED <<socket, pc, job, video, retry, events>>

----------------------------------------------------------------------------
(* Negotiation *)

\* onOffer, ensurePc.  The host sends no second offer before the answer.
Offer ==
  /\ socket = "joined" /\ job = "none" /\ Spend
  /\ Show("negotiating") /\ job' = "remote"
  /\ pc' = IF pc = "none" THEN "new" ELSE pc
  /\ UNCHANGED <<socket, video, play, hint, retry>>

\* setRemoteDescription settles; the first one of a connection brings the track.
RemoteIsSet ==
  /\ job = "remote" /\ job' = "answer"
  /\ IF video = "none"
     THEN /\ video' = "attached"
          /\ \/ Show("stream_attached") /\ play' = "pending" /\ hint' = FALSE
             \/ Show("play_blocked") /\ hint' = TRUE /\ UNCHANGED play
     ELSE UNCHANGED <<state, video, play, hint>>
  /\ UNCHANGED <<socket, pc, retry, events>>

AnswerOnly ==                          \* seeded fault: no tryPlayVideo("post-answer")
  /\ job = "answer" /\ job' = "none"
  /\ pc' = IF pc = "new" THEN "answered" ELSE pc
  /\ UNCHANGED <<socket, state, video, play, hint, retry, events>>
AnswerIsSent ==
  /\ job = "answer" /\ job' = "none"
  /\ pc' = IF pc = "new" THEN "answered" ELSE pc
  /\ IF video # "none" /\ pc = "connected" THEN TryPlay ELSE UNCHANGED <<state, play, hint>>
  /\ UNCHANGED <<socket, video, retry, events>>

OfferFails ==
  /\ job # "none" /\ job' = "none" /\ Spend
  /\ Show("error")
  /\ UNCHANGED <<socket, pc, video, play, hint, retry>>

\* onconnectionstatechange
Connected ==
  /\ pc \in {"answered", "disconnected"} /\ pc' = "connected"
  /\ IF video # "none" THEN TryPlay ELSE Show("connected") /\ UNCHANGED <<play, hint>>
  /\ UNCHANGED <<socket, job, video, retry, events>>

ConnectionFails ==
  /\ pc \in {"answered", "disconnected"} /\ pc' = "failed"
  /\ Show("disconnected")
  /\ UNCHANGED <<socket, job, video, play, hint, retry, events>>

ConnectionDrops ==
  /\ pc = "connected" /\ pc' = "disconnected" /\ Spend
  /\ Show("disconnected")
  /\ UNCHANGED <<socket, job, video, play, hint, retry>>

----------------------------------------------------------------------------
(* Signaling *)

Opens ==
  /\ socket = "connecting" /\ socket' = "open" /\ Show("connecting")
  /\ UNCHANGED <<pc, job, video, play, hint, retry, events>>

Joined ==
  /\ socket = "open" /\ socket' = "joined" /\ Show("joined")
  /\ UNCHANGED <<pc, job, video, play, hint, retry, events>>

\* cleanupPc: a closed connection settles none of its promises any more, the
\* video element settles all of its own.
CleanupLeavesOffer ==                  \* seeded fault: the connection stays open
  /\ pc' = "none" /\ UNCHANGED job /\ video' = "none" /\ play' = "none" /\ hint' = FALSE
CleanupPc ==
  /\ pc' = "none" /\ job' = "none" /\ video' = "none" /\ play' = "none" /\ hint' = FALSE

\* session.ended: cleanupPc, setState("ended"), and then what the settled promises
\* of tryPlayVideo do.
Ended ==
  /\ socket = "joined" /\ Spend
  /\ CleanupPc
  /\ CASE play = "none" -> Show("ended") /\ retry' = FALSE
       [] play = "pending" -> Interrupted
       [] play = "resolving" -> Show("playing") /\ retry' = FALSE
  /\ UNCHANGED socket

Error ==
  /\ socket \in {"open", "joined"} /\ Spend
  /\ Show("error")
  /\ UNCHANGED <<socket, pc, job, video, play, hint, retry>>

Closes ==
  /\ socket # "closed" /\ socket' = "closed" /\ Show("closed")
  /\ UNCHANGED <<pc, job, video, play, hint, retry, events>>

----------------------------------------------------------------------------
Init ==
  /\ socket = "connecting" /\ state = "idle" /\ pc = "none" /\ job = "none"
  /\ video = "none" /\ play = "none" /\ hint = FALSE /\ retry = FALSE /\ events = 0

PlayStep == DataArrives \/ PlayStarts \/ PlayResolves \/ RetryFires
NegotiationStep == RemoteIsSet \/ AnswerIsSent \/ OfferFails
ConnectionStep == Connected \/ ConnectionFails
ServerMessage == Opens \/ Joined \/ Offer \/ Ended \/ Error \/ Closes

Next ==
  \/ PlayStep \/ PlayIsInterrupted \/ Click
  \/ NegotiationStep \/ ConnectionStep \/ ConnectionDrops \/ ServerMessage

\* The browser settles promises and fires timers, and a connection is made, is made
\* again, or fails.  The server and the user owe nothing.
Fairness ==
  /\ WF_vars(DataArrives) /\ WF_vars(PlayStarts) /\ WF_vars(PlayResolves) /\ WF_vars(RetryFires)
  /\ WF_vars(NegotiationStep) /\ WF_vars(ConnectionStep)

Spec == Init /\ [][Next]_vars /\ Fairness

----------------------------------------------------------------------------
\* Types, and: without a connection there is neither picture nor negotiation, so
\* nothing that was under way when the session ended comes back
\* (app_viewer.js:252-271, 315-321).
PlaybackTypeOK ==
  /\ socket \in {"connecting", "open", "joined", "closed"}
  /\ state \in {"idle", "connecting", "joined", "negotiating", "stream_attached", "connected",
                "playing", "play_blocked", "disconnected", "ended", "error", "closed"}
  /\ pc \in {"none", "new", "answered", "connected", "disconnected", "failed"}
  /\ job \in {"none", "remote", "answer"} /\ video \in {"none", "attached", "flowing"}
  /\ play \in {"none", "pending", "resolving"} /\ hint \in BOOLEAN /\ retry \in BOOLEAN
  /\ events \in 0..MaxEvents
  /\ pc = "none" => video = "none" /\ job = "none" /\ play = "none" /\ ~hint

\* Playback that the browser interrupts is taken up again: the page does not stay
\* with an attached stream that nobody plays (app_viewer.js:190-204).
InterruptedIsRetried ==
  state = "stream_attached" ~> state # "stream_attached" \/ video = "none" \/ pc # "connected"

\* A new offer on a connection that already shows the screen does not leave the
\* page in "negotiating" (app_viewer.js:349-352).
NegotiationEnds == state = "negotiating" ~> state # "negotiating" \/ pc = "failed"

\* "viewer handles session.ended (explicit end state + cleanup)"
\* (docs/PROGRESS_WIP.md:21): a step that throws the connection away shows the end.
CleanupShowsEnd == [][pc # "none" /\ pc' = "none" => state' = "ended"]_vars
=============================================================================
