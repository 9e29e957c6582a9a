SPECIFICATION SysFairSpec
CONSTANTS
  MaxQueueSize = 2
  SetterWrites <- MCSetterWrites
  HostRecords = {}
  MaxRequests = 2
  MaxPosted = 2
  MaxBoots = 2
  LeakSensors = 0
  ConnectionsMayFail = TRUE
  MaxHostWrites = 0
INVARIANTS
  OneLiveCommand
PROPERTIES
  ReleasedWhenOver
  OutcomeReleases
CHECK_DEADLOCK FALSE
