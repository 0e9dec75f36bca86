SPECIFICATION FairSpec
CONSTANTS
  Devices = {"d1", "d2"}
  Ids = {"t1", "t2"}
  Foreign <- CalmForeign
  MaxForeign = 1
CHECK_DEADLOCK FALSE
INVARIANTS
  AckedMeansHeard
PROPERTIES
  FallsSilent
