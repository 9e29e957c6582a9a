SPECIFICATION Spec
CONSTANTS
  Metadata <- MCMetadata
  Files <- MCFiles
  MaxWrites = 4
INVARIANTS
  FreshWhenTouched
  FruAsProgrammed
CHECK_DEADLOCK FALSE
