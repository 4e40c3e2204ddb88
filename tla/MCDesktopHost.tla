---------------------------- MODULE MCDesktopHost ----------------------------
(* Two ports, the default one and one the admin page asks for; a request that   *)
(* moves the port, and one for the default port with blanks around its token   *)
(* and no room.                                                                *)
EXTENDS DesktopHost

MCRequests ==
  { [bind |-> "any", port |-> "p2", room |-> Text("n1"), token |-> Text("n1")],
    [bind |-> "", port |-> "bad", room |-> Empty, token |-> [name |-> "n1", padded |-> TRUE]] }
MCDraws == {<<"n1", "n1">>}
=============================================================================
