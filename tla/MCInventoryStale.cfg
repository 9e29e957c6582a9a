SPECIFICATION Spec
CONSTANTS
  Metadata <- MCMetadata
  Files <- MCFiles
  MaxWrites = 2
INVARIANTS
  FollowsRecords
CHECK_DEADLOCK FALSE
