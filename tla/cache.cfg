SPECIFICATION FairSpec
CONSTANTS
  Segments = {"chat", "new"}
  Placeholders = {}
  Meta = {}
  Reading <- AsRegexp
  Rows <- SixRows
  Calls = {c1}
  Queries <- HttpQuery
  MaxFaults = 1
  MaxEdits = 1
INVARIANTS
  TypeOK
  CacheOfOneLoad
  CacheWhole
  RecordsCatalogued
PROPERTIES
  CacheConverges
