SPECIFICATION Spec
CONSTANTS
  Half <- MCHalf
  MinDelay = 1
  AckDelay = 3
  AgeCap <- MCAgeCap
INVARIANTS
  TypeOK
PROPERTIES
  RequestsSpaced
  RearmsWithinHalf
  MotionCountsOnce
