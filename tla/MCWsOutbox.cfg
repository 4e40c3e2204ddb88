SPECIFICATION OutboxSpec
CONSTANT MaxMessages = 5
INVARIANTS
  Inv
PROPERTY ImplementsChannel
CHECK_DEADLOCK FALSE
