SPECIFICATION RebootSpec
CONSTANTS
  Devices = {"d1", "d2", "d3"}
  Ids = {"t1"}
  Foreign <- AnyForeign
  MaxForeign = 1
CHECK_DEADLOCK FALSE
INVARIANTS
  TypeOK
PROPERTIES
  KeepsAlertPromise
  TrafficDies
