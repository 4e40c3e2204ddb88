------------------------ MODULE ViewerPlaybackProofs ------------------------
(***************************************************************************)
(* Proofs about the viewer page, for any bound on what happens to it.      *)
(***************************************************************************)
EXTENDS ViewerPlayback, TLAPS

LEMMA PlaybackInit == Init => PlaybackTypeOK
<1> SUFFICES ASSUME Init PROVE PlaybackTypeOK
  OBVIOUS
<1>1. events \in 0..MaxEvents
  BY MaxEventsAssumption DEF Init
<1> QED BY <1>1 DEF Init, PlaybackTypeOK

LEMMA SpendStays == PlaybackTypeOK /\ Spend => events' \in 0..MaxEvents
  BY MaxEventsAssumption DEF Spend, PlaybackTypeOK

LEMMA PlaybackStep == PlaybackTypeOK /\ [Next]_vars => PlaybackTypeOK'
<1> SUFFICES ASSUME PlaybackTypeOK, [Next]_vars PROVE PlaybackTypeOK'
  OBVIOUS
<1> USE DEF PlaybackTypeOK, Show, TryPlay
<1>1. CASE PlayStep
  BY <1>1 DEF PlayStep, DataArrives, PlayStarts, PlayResolves, RetryFires
<1>2. CASE PlayIsInterrupted
  BY <1>2, SpendStays DEF PlayIsInterrupted, Interrupted
<1>3. CASE Click
  BY <1>3 DEF Click
\* a negotiation that goes on still has its connection
<1>4. CASE NegotiationStep
  BY <1>4, SpendStays DEF NegotiationStep, RemoteIsSet, AnswerIsSent, OfferFails
<1>5. CASE ConnectionStep \/ ConnectionDrops
  BY <1>5, SpendStays DEF ConnectionStep, Connected, ConnectionFails, ConnectionDrops
<1>6. CASE Opens \/ Joined \/ Closes
  BY <1>6 DEF Opens, Joined, Closes
<1>7. CASE Offer \/ Error
  BY <1>7, SpendStays DEF Offer, Error
\* cleanupPc takes everything that hangs from the connection
<1>8. CASE Ended
  BY <1>8, SpendStays DEF Ended, CleanupPc, Interrupted
<1>9. CASE UNCHANGED vars
  BY <1>9 DEF vars
<1> QED BY <1>1, <1>2, <1>3, <1>4, <1>5, <1>6, <1>7, <1>8, <1>9 DEF Next, ServerMessage

\* Without a connection the page shows no picture, negotiates nothing and offers
\* no play button, however the answers of the browser and the messages of the
\* server interleave (app_viewer.js:252-271, 315-321).
THEOREM PlaybackSafe == Spec => []PlaybackTypeOK
  BY PlaybackInit, PlaybackStep, PTL DEF Spec
=============================================================================
