SPECIFICATION FairSpec
CONSTANTS
  Cell <- MCCell
  Payloads <- MCPayloads
  MaxQueueDepth = 2
  RedisMayRefuse = TRUE
  MaxCalls = 3
INVARIANTS
  TypeOK
  JobsAccounted
  RecordsWhole
  PersistedIsStored
PROPERTIES
  ImplementsOrderedIngest
  EveryJobEnds
CHECK_DEADLOCK FALSE
