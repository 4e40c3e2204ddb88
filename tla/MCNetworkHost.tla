--------------------------- MODULE MCNetworkHost ---------------------------
(* A Wi-Fi adapter on the LAN, the virtual one that a hotspot brings up and a  *)
(* tunnel; a firewall with a rule for another network's profile only, and one  *)
(* with a rule for the active profile. The bind field takes 0.0.0.0, "*", the  *)
(* loopback address and that of the Wi-Fi adapter.                             *)
EXTENDS NetworkHost

Adapter(ip, kind, description, gateway) ==
  [ip |-> ip, kind |-> kind, friendly |-> {}, description |-> description, private |-> TRUE, apipa |-> FALSE,
   gateway |-> gateway, ipv4Enabled |-> TRUE]
MCAdapters ==
  <<Adapter(3, "wifi", {}, TRUE), Adapter(5, "wifi", {"direct", "virtual"}, FALSE), Adapter(2, "tunnel", {}, FALSE)>>
MCBinds == {AnyBind, Star, Loopback, 3}
Rule(app, profiles) == [app |-> app, ports |-> {}, profiles |-> profiles]
MCFirewalls ==
  { [enabled |-> {"private", "public"}, active |-> {"private"}, rules |-> {Rule(Exe, {"public"})}],
    [enabled |-> {"private", "public"}, active |-> {"private"}, rules |-> {Rule(Exe, {"private"})}] }
=============================================================================
