SPECIFICATION Spec
CONSTANTS
  Digits <- MCSome
  MaxLevel = 4
INVARIANTS
  ShortestWay
  RelayedDown
CHECK_DEADLOCK FALSE
