SPECIFICATION Spec
CONSTANTS
  Devices = {"d1", "d2"}
  Ids = {"t1"}
  Foreign <- NoForeign
  MaxForeign = 0
CHECK_DEADLOCK FALSE
PROPERTIES
  AckReachesAlarm
