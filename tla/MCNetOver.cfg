SPECIFICATION Spec
CONSTANTS
  a = a
  b = b
  PlainSize = 16
  TailSize = 24
  MainBuffer = 154
  FramePayload = 24
  FrameHeader = 10
  IntMod = 65536
  FifoSize = 3
  Senders <- MCOne
  Messages <- MCShort
  IdBase <- MCAlike
  MaxCopies = 1
INVARIANTS
  CacheHolds
CHECK_DEADLOCK FALSE
