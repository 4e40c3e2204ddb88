SPECIFICATION Spec
CONSTANTS
  HealthSamples = 2
  ViewerSamples = 2
  ExitSamples = 2
  Cooldown = 1
  MaxStarts = 2
  MaxMoves = 3
  MaxViewers = 2
  Probes = 2
INVARIANTS NoServerLost StopIsOffered
PROPERTIES ChangesAreDebounced ShellSettles
CHECK_DEADLOCK FALSE
