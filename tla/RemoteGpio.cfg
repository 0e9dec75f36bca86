SPECIFICATION Spec
CONSTANTS
  Pins = {1, 2}
  Chans = {"a", "b"}
  Values = {0, 1, 2}
  Cycles = {0, 1, 3}
  Messages <- MCMessages
  IntHalf = 7
  MaxSilence = 10
INVARIANTS
  TypeOK
  SilentMeansDefault
  SoundIsSafe
PROPERTIES
  NoEarlyReset
