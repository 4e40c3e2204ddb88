-------------------------- MODULE EndpointSelection --------------------------
(* Which of the machine's addresses is the one to share: the ranking of the    *)
(* network service (endpoint_selection.cpp, used by the server's --advertise   *)
(* auto and by the window's refresh) and the window's own ranking of the       *)
(* adapters it shows (MainWindow.cpp). An address is a number, compared as the *)
(* window compares them; 0 is no address, and Loopback 127.0.0.1.              *)
EXTENDS Integers, Sequences, FiniteSets, SequencesExt

NoIp == 0
Loopback == -1

\* What a name can say of its adapter, as the code looks for it.
Words == {"direct", "hotspot", "virtual", "vpn", "bluetooth"}
Kinds == {"wired", "wifi", "tunnel"}
IsAdapter(a) ==
  /\ a.ip \in Nat \ {0} /\ a.kind \in Kinds /\ a.friendly \subseteq Words /\ a.description \subseteq Words
  /\ {a.private, a.apipa, a.gateway, a.ipv4Enabled} \subseteq BOOLEAN

If(test, points) == IF test THEN points ELSE 0

\* The members of a finite set one after the other: each has its place by how
\* many come before it. The members of a list at some of its places.
InOrder(S, Before(_, _)) ==
  [k \in 1..Cardinality(S) |-> CHOOSE x \in S : Cardinality({y \in S : Before(y, x)}) = k - 1]
Kept(list, places) == LET s == InOrder(places, <) IN [k \in DOMAIN s |-> list[s[k]]]

-----------------------------------------------------------------------------
(* The network service. *)

\* The active adapters in the machine's order; the tunnels are passed over.
ProbeNetworkInterfaces(up) == Kept(up, {i \in DOMAIN up : up[i].kind # "tunnel"})

GuessMode(a) ==
  LET words == a.friendly \cup a.description
  IN  IF "direct" \in words THEN "wifi-direct"
      ELSE IF "hotspot" \in words THEN "hotspot" ELSE IF a.kind = "wifi" THEN "wifi" ELSE "lan"

\* Every adapter that is probed is up and running.
ScoreEndpointProbeCandidate(a) ==
  LET words == a.friendly \cup a.description
  IN  If(a.private, 200) + If(~a.private, 20) + If(a.kind = "wifi", 40) + If(a.gateway, 20) + If(a.ipv4Enabled, 10) + 140
      + If("direct" \in words, 60) + If("hotspot" \in words, 50)
      - If("virtual" \in words, 120) - If(words \cap {"bluetooth", "vpn"} # {}, 80) - If(a.apipa, 200)

\* The first of the best: no later one with the same score takes its place.
SelectPreferredNetworkInfo(candidates) ==
  LET score(i) == ScoreEndpointProbeCandidate(candidates[i])
      best == CHOOSE i \in 1..Len(candidates) :
                /\ \A j \in 1..Len(candidates) : score(j) <= score(i)
                /\ \A j \in 1..(i - 1) : score(j) < score(i)
  IN  [hostIp |-> candidates[best].ip, mode |-> GuessMode(candidates[best])]
GetCurrentNetworkInfo(up) ==
  LET candidates == ProbeNetworkInterfaces(up)
  IN  IF candidates = <<>> THEN [hostIp |-> NoIp, mode |-> "none"] ELSE SelectPreferredNetworkInfo(candidates)

\* The server's own choice, with an address of the command line or "auto" (NoIp).
ResolveEndpointSelection(advertise, up) ==
  IF advertise # NoIp THEN advertise
  ELSE IF GetCurrentNetworkInfo(up).hostIp # NoIp THEN GetCurrentNetworkInfo(up).hostIp ELSE Loopback

-----------------------------------------------------------------------------
(* The window. *)

\* The first private address, else the first address, tunnels included.
DetectBestIPv4(up) ==
  LET private == Kept(up, {i \in DOMAIN up : up[i].private})
  IN  IF private # <<>> THEN Head(private).ip ELSE IF up # <<>> THEN Head(up).ip ELSE NoIp

LooksVirtualAdapterName(a) == a.friendly \cap {"virtual", "vpn"} # {}
GuessAdapterType(a) ==
  IF a.kind = "wifi" THEN "Wi-Fi" ELSE IF "hotspot" \in a.friendly THEN "Hotspot / Hosted"
  ELSE IF "virtual" \in a.friendly THEN "Virtual / Overlay" ELSE "Ethernet / Other"

WindowScore(a) ==
  If(a.private, 200) + If(~a.private, 20) + If(a.kind = "wifi", 40) + If(a.gateway, 20) - If(LooksVirtualAdapterName(a), 120)

\* By score, then by address, then by name (here the machine's order); of an
\* address the first entry is kept. The first of all is the recommended one.
Better(a, b) == WindowScore(a) > WindowScore(b) \/ (WindowScore(a) = WindowScore(b) /\ a.ip < b.ip)
Ahead(up, i, j) == Better(up[i], up[j]) \/ (~Better(up[j], up[i]) /\ i < j)
Shown(up) == {i \in DOMAIN up : up[i].kind # "tunnel" /\ ~up[i].apipa}
Unique(up) == {i \in Shown(up) : \A j \in Shown(up) \ {i} : up[j].ip = up[i].ip => Ahead(up, i, j)}
Sorted(up, places) == InOrder(places, LAMBDA i, j : Ahead(up, i, j))
CollectActiveIpv4Candidates(up) ==
  LET sorted == Sorted(up, Unique(up))
  IN  [k \in DOMAIN sorted |->
         [ip |-> up[sorted[k]].ip, type |-> GuessAdapterType(up[sorted[k]]), recommended |-> k = 1]]
=============================================================================
