SPECIFICATION FairSpec
CONSTANTS
  Calls = {c1, c2}
  Addresses = {"a1", "a2"}
  Users <- TwoNames
  Account <- OneAccount
  Shapes <- SomeShapes
  Setups <- SomeSetups
  Bucket = 2
  Expiry = 3
  Patience = 1
  TTL = 2
  MaxTime = 2
INVARIANTS
  TypeOK
  AttributionFresh
  EnforcedAttribution
PROPERTIES
  Resolves
CHECK_DEADLOCK FALSE
