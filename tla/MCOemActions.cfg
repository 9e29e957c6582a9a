SPECIFICATION OemSpec
CONSTANTS
  SensorOf <- MCSensorOf
  LeakNames <- MCLeakNames
  UpperCase <- MCUpperCase
  Envelope <- MCEnvelope
  Requests <- MCRequests
  MaxQueueDepth = 1
INVARIANTS
  AnswersTell
PROPERTIES
  NearestSeverityOfTheLast
  OnlyAFullQueueRefuses
CHECK_DEADLOCK FALSE
