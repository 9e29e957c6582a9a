SPECIFICATION RoutesSpec
CONSTANTS
  Firmware = {"bmc"}
  LeakSensor = {"leak1"}
  Root <- MCRoot
INVARIANTS
  ExportedIsListed
  SubTreeIsByName
  AnswersAgree
  LinksResolve
