SPECIFICATION Spec
CONSTANTS
  Pages = {"network"}
  MaxMoves = 3
INVARIANTS
  WindowSafe
PROPERTIES
  RetriesLoadThePage
  WindowConverges
CHECK_DEADLOCK FALSE
