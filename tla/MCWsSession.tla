---------------------------- MODULE MCWsSession ----------------------------
(***************************************************************************)
(* TLC instances of the server with clients that keep to their role and    *)
(* their room: two host pages and two viewer pages.                        *)
(***************************************************************************)
EXTENDS WsSession, TLC

CONSTANTS r1, h1, h2, p1, p2, v1, v2

AllInRoom == [s \in Sessions |-> r1]

RoomSymmetry ==
  Permutations({h1, h2}) \cup Permutations({p1, p2}) \cup Permutations({v1, v2})
=============================================================================
