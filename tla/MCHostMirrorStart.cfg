SPECIFICATION SysSpec
CONSTANTS
  MaxQueueSize = 2
  SetterWrites <- MCSetterWrites
  HostRecords <- MCHostRecords
  MaxRequests = 1
  MaxPosted = 2
  MaxBoots = 1
  LeakSensors = 1
  ConnectionsMayFail = FALSE
  MaxHostWrites = 2
INVARIANTS
  MirrorsWhenQuiet
CHECK_DEADLOCK FALSE
