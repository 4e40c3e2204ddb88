----------------------------- MODULE SelfCheck ------------------------------
(* What the window concludes from one look at the machine: the plan over the   *)
(* adapters that answered (remote_probe_orchestrator.cpp), the verdict on the  *)
(* viewers' path (network_diagnostics_policy.cpp), the self-check report with  *)
(* its counters and first actions (share_artifact_service.cpp), the state of   *)
(* the handoff and the overall state (runtime_controller.cpp). Texts are left  *)
(* out, except which one is chosen.                                            *)
EXTENDS Integers, Sequences, FiniteSets, SequencesExt, EndpointSelection

\* A report of the machine: health says what the probes found, session what the
\* window knows. probes: the candidates in the order they were probed.
Healths ==
  [running : BOOLEAN, portReady : BOOLEAN, localHealth : BOOLEAN, lanBind : BOOLEAN, reachable : BOOLEAN,
   active : Nat, recommended : BOOLEAN, firewall : BOOLEAN, embedded : BOOLEAN]

-----------------------------------------------------------------------------
(* The plan over the adapters. *)

FirstOf(probes, Test(_)) ==
  LET fits == {i \in DOMAIN probes : Test(probes[i])} IN IF fits = {} THEN NoIp ELSE probes[Min(fits)].ip
FindSelected(probes) == FirstOf(probes, LAMBDA p : p.selected)
FindFirstReady(probes, requireRecommended, requireAlternate) ==
  FirstOf(probes, LAMBDA p : p.ready /\ (requireRecommended => p.recommended) /\ (requireAlternate => ~p.selected))

\* alternate: alternateReady; suggested: suggestedIp.
BuildRemoteProbePlan(probes) ==
  LET selected    == FindSelected(probes)
      answered    == selected # NoIp /\ \E i \in DOMAIN probes : probes[i].ip = selected /\ probes[i].selected /\ probes[i].ready
      recommended == FindFirstReady(probes, TRUE, FALSE)
      alternate   == FindFirstReady(probes, FALSE, TRUE)
      any         == FindFirstReady(probes, FALSE, FALSE)
      Plan(label, also, suggested) == [label |-> label, alternate |-> also, suggested |-> suggested]
  IN  CASE probes = <<>> -> Plan("none", FALSE, NoIp)
        [] probes # <<>> /\ answered -> Plan("selected", alternate # NoIp, NoIp)
        [] probes # <<>> /\ ~answered /\ recommended # NoIp /\ recommended # selected ->
             Plan("recommended", TRUE, recommended)
        [] ~answered /\ recommended = NoIp /\ selected # NoIp /\ alternate # NoIp -> Plan("alternate", TRUE, alternate)
        [] ~answered /\ recommended = NoIp /\ selected = NoIp /\ any # NoIp -> Plan("any", TRUE, any)
        [] OTHER -> Plan("nobody", FALSE, NoIp)

-----------------------------------------------------------------------------
(* The firewall: a rule [app, ports, profiles], enabled, inbound and allowing, *)
(* app the program it names or "", ports the ports it names. Rules that block  *)
(* are passed over.                                                            *)

\* A rule that names no profile is for all of them.
ProfileMatches(rule, active) == rule.profiles = {} \/ rule.profiles \cap active # {}
ProbeFirewallReadiness(firewall, exe, port) ==
  LET matching == {r \in firewall.rules : ProfileMatches(r, firewall.active)}
  IN  \/ firewall.enabled \cap firewall.active = {}
      \/ \E r \in matching : r.app = exe
      \/ \E r \in matching : port \in r.ports

-----------------------------------------------------------------------------
(* The verdict on the viewers' path and the report. *)

FirewallReady(health) == health.running /\ health.firewall
\* The first thing that is wrong decides what the viewers' path is called.
BuildNetworkDiagnosticsViewModel(session, health) ==
  CASE ~health.running   -> "Server stopped"
    [] health.running /\ ~health.portReady -> "Port blocked"
    [] health.running /\ health.portReady /\ ~health.lanBind -> "Loopback-only bind"
    [] health.running /\ health.portReady /\ health.lanBind /\ session.hostIp = NoIp -> "Host IPv4 missing"
    [] health.running /\ health.portReady /\ health.lanBind /\ session.hostIp # NoIp ->
         IF health.active > 1 /\ ~health.recommended THEN "Adapter selection mismatch"
         ELSE IF ~health.reachable THEN IF FirewallReady(health) THEN "LAN self-probe failed" ELSE "LAN path blocked"
         ELSE IF ~FirewallReady(health) THEN "Likely blocked by firewall policy" ELSE "Viewer path looks ready"
RemoteViewerReady(session, health) == BuildNetworkDiagnosticsViewModel(session, health) = "Viewer path looks ready"

IsHostStateServerRunning(state) == state # "stopped"
IsHostStateSharing(state) == state = "sharing"
IsHostStateReadyOrLoading(state) == state \in {"ready", "loading", "sharing"}

Item(id, ok, severity, category) == [id |-> id, ok |-> ok, severity |-> severity, category |-> category]
Checks(session, health) ==
  <<Item("server-reachability", health.running \/ IsHostStateServerRunning(session.hostState), "P0", "sharing"),
    Item("listen-port", health.portReady, "P0", "network"),
    Item("server-health-endpoint", health.localHealth, "P0", "sharing"),
    Item("lan-bind-address", health.lanBind, "P0", "network"),
    Item("lan-entry-endpoint", health.reachable, "P1", "network"),
    Item("firewall-inbound-path", FirewallReady(health), IF FirewallReady(health) THEN "P2" ELSE "P1", "network"),
    Item("remote-viewer-reachability", RemoteViewerReady(session, health),
         IF RemoteViewerReady(session, health) THEN "P2" ELSE "P1", "network"),
    Item("adapter-selection", health.active <= 1 \/ health.recommended, IF health.active > 1 THEN "P1" ELSE "P2", "network"),
    Item("embedded-host-runtime", health.embedded, "P1", "sharing"),
    Item("host-sharing-state", IsHostStateSharing(session.hostState), "P1", "sharing"),
    Item("host-network", session.hostIp # NoIp, "P0", "network")>>
\* The link is never empty (without an address it names 127.0.0.1); the wireless
\* checks are advice, P2 whatever they find.
Wireless(session) ==
  <<Item("viewer-entry-url", TRUE, "P1", "sharing"),
    Item("wifi-adapter", session.wifi, "P2", "network"),
    Item("hotspot-control", session.hotspotSupported \/ session.hotspotRunning, "P2", "network"),
    Item("live-bundle-refresh", TRUE, "P2", "sharing")>>

Hint(shown, title, severity, category) == IF shown THEN <<[title |-> title, severity |-> severity, category |-> category]>> ELSE <<>>
FailureHints(session, health) ==
  LET serverReady == health.running \/ IsHostStateServerRunning(session.hostState)
  IN  Hint(~serverReady, "Server not running", "P0", "sharing")
      \o Hint(~health.portReady /\ ~health.running, "Listen port unavailable", "P0", "network")
      \o Hint(health.running /\ ~health.localHealth, "Local health check failed", "P0", "sharing")
      \o Hint(~health.lanBind, "Server bind is not LAN-reachable", "P0", "network")
      \o Hint(health.running /\ session.hostIp # NoIp /\ ~health.reachable, "Selected LAN address is not reachable", "P1", "network")
      \o Hint(session.hostIp = NoIp, "Host IPv4 missing", "P0", "network")
      \o Hint(~FirewallReady(health) /\ health.running, "Inbound firewall path needs attention", "P1", "network")
      \o Hint(~RemoteViewerReady(session, health) /\ health.running, "Remote viewer path is not fully ready",
              IF health.reachable THEN "P1" ELSE "P0", "network")
      \o Hint(serverReady /\ ~IsHostStateSharing(session.hostState) /\ health.embedded, "Host page not sharing yet", "P1", "sharing")
      \o Hint(~health.embedded, "Embedded host unavailable", "P1", "sharing")
      \o Hint(health.active > 1 /\ ~health.recommended, "Multiple adapters are active", "P1", "network")
      \o Hint(~session.hotspotRunning /\ session.viewers = 0, "Viewer may be on the wrong network", "P1", "network")
      \o Hint(~session.wifi, "No Wi-Fi adapter detected", "P2", "network")
      \o Hint(~session.hotspotSupported /\ ~session.hotspotRunning /\ ~session.wifiDirect, "No local wireless fallback detected", "P2", "network")

\* The counters count the failed checks, not the hints.
BuildSelfCheckReport(session, health) ==
  LET items == Checks(session, health) \o Wireless(session)
      Count(severity) == Cardinality({i \in DOMAIN items : ~items[i].ok /\ items[i].severity = severity})
  IN  [items |-> items, failures |-> FailureHints(session, health),
       p0 |-> Count("P0"), p1 |-> Count("P1"), p2 |-> Count("P2"),
       networkCount |-> Cardinality({i \in DOMAIN items : ~items[i].ok /\ items[i].category = "network"}),
       sharingCount |-> Cardinality({i \in DOMAIN items : ~items[i].ok /\ items[i].category = "sharing"})]

BuildMainDiagnosticSummaryText(report) ==
  IF report.p0 > 0 THEN "fix P0 items" ELSE IF report.p1 > 0 THEN "usable" ELSE "no blocker detected"

\* The three hints an operator should act on first: by severity, then category;
\* those of one kind keep their order here, the code has them by their title.
SelfCheckSeveritySortKey(hint) == CASE hint.severity = "P0" -> 0 [] hint.severity = "P1" -> 1 [] OTHER -> 2
BuildOperatorFirstActions(report) ==
  LET Earlier(a, b) ==
        \/ SelfCheckSeveritySortKey(a) < SelfCheckSeveritySortKey(b)
        \/ SelfCheckSeveritySortKey(a) = SelfCheckSeveritySortKey(b) /\ a.category = "network" /\ b.category # "network"
      sorted == SortSeq(report.failures, Earlier)
  IN  SubSeq(sorted, 1, IF Len(sorted) < 3 THEN Len(sorted) ELSE 3)

-----------------------------------------------------------------------------
(* The handoff and the overall state. *)

BuildHandoffSummary(session, health) ==
  IF session.viewers > 0 \/ session.delivered THEN "delivered"
  ELSE IF ~session.started THEN "not-started"
  ELSE IF health.running /\ health.localHealth /\ health.reachable THEN "ready-for-handoff" ELSE "needs-fix"

ComputeDashboardOverallState(session, health) ==
  IF IsHostStateSharing(session.hostState) THEN "Sharing"
  ELSE IF /\ BuildSelfCheckReport(session, health).p0 = 0 /\ health.running
          /\ IsHostStateReadyOrLoading(session.hostState) THEN "Ready"
  ELSE IF health.running /\ (~health.localHealth \/ ~health.reachable) THEN "Error" ELSE "Not Ready"
=============================================================================
