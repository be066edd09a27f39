SPECIFICATION Spec
CONSTANTS
  Requests = 2
  MaxChunks = 2
  Shapes <- CalmShapes
INVARIANTS EofAtTheEnd
CHECK_DEADLOCK FALSE
