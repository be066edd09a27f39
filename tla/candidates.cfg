SPECIFICATION FairSpec
CONSTANTS
  Domains = {api, chat, cdn}
  Denied = {cdn}
  MaxHits = 3
  ContentTypes <- SomeTypes
INVARIANTS
  TypeOK
  NeverOvercounts
  LossIsLogged
PROPERTIES
  LeavesMemory
