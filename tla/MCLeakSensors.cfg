SPECIFICATION FairSpec
CONSTANTS
  Sensor = {"leakage1", "leakage2"}
  Unexportable = {"leakage2"}
  Update <- MCUpdate
  MaxWrites = 2
INVARIANTS
  LeakTypeOK
  MirrorsWhenAnnounced
  EventsFollowState
PROPERTIES
  LeakIsReported
CHECK_DEADLOCK FALSE
