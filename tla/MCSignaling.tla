---------------------------- MODULE MCSignaling ----------------------------
(***************************************************************************)
(* TLC instances of the pages and the server.                              *)
(***************************************************************************)
EXTENDS Signaling, TLC

CONSTANTS r1, h1, h2, h3, p1, v1

MCRooms       == {r1}
TwoHosts      == {h1, h2}
ThreeHosts    == {h1, h2, h3}
TwoAndOne     == {h1, h2, p1}
OneViewerId   == {v1}
AllInRoom     == [s \in Sessions |-> r1]
=============================================================================
