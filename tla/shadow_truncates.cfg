SPECIFICATION Spec
CONSTANTS
  Reqs = {r1}
  MaxBody = 2
  MaxAttempts = 2
  Inputs <- ShadowInputs
INVARIANTS
  ShadowReturnsOriginal
