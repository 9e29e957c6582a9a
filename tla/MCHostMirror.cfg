SPECIFICATION EventsFairSpec
CONSTANTS
  MaxQueueSize = 2
  SetterWrites = {}
  HostRecords <- MCHostRecords
  MaxRequests = 0
  MaxPosted = 3
  MaxBoots = 3
  LeakSensors = 2
  ConnectionsMayFail = TRUE
  MaxHostWrites = 3
INVARIANTS
  EventsTypeOK
  SubscribersKnow
PROPERTIES
  AnnouncedIsTold
CHECK_DEADLOCK FALSE
