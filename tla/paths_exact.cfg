SPECIFICATION Spec
CONSTANTS
  Segments = {"api", "v1x0", "v1.0", ".*", "{id}"}
  Placeholders = {"{id}"}
  Meta = {"v1.0", ".*", "{id}"}
  Reading <- AsRegexp
  MaxSegments = 2
  MaxAlternatives = 2
INVARIANT PathRules
CHECK_DEADLOCK FALSE
