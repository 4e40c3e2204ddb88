SPECIFICATION Spec
CONSTANTS
  Adapters <- MCAdapters
  HotspotAdapter = 2
  HostedSupported = TRUE
  Firewalls <- MCFirewalls
  Binds <- MCBinds
  MaxProbes = 2
  MaxMoves = 2
  MaxCommands = 2
INVARIANTS
  ReportIsTrue
  ArtifactsAgree
PROPERTIES
  PageCatchesUp
  OpenPageCatchesUp
