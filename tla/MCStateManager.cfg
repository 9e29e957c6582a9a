SPECIFICATION FairSpec
CONSTANTS
  MaxQueueSize = 2
  SetterWrites <- MCSetterWrites
  HostRecords <- MCHostRecords
  MaxRequests = 4
  MaxPosted = 1
  MaxBoots = 2
INVARIANTS
  TypeOK
  SlotConsistent
  NothingForgotten
  PublishedInOrder
  SignalledIsCurrent
PROPERTIES
  ReleasedByOwnOutcome
  EveryRequestLeaves
  ImplementsDispatch
