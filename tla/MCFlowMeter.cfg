SPECIFICATION Spec
CONSTANTS
  MillisMod = 8
  ByteMod = 4
  Window = 2
  MlNum = 4
  MlDen = 3
  Gaps <- MCGaps
  MaxPulses = 7
INVARIANTS
  NeverOvercounts
  PulsesUsedOnce
  LossBounded
