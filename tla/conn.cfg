SPECIFICATION FairSpec
CONSTANTS
  Requests = 2
  MaxChunks = 2
  Shapes <- AllShapes
INVARIANTS TypeOK BodyOwn AnswersMatch BodyWhole InStep KeepsConnection
PROPERTIES Settles
CHECK_DEADLOCK FALSE
