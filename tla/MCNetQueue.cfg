SPECIFICATION LiveSpec
CONSTANTS
  a = a
  b = b
  PlainSize = 16
  TailSize = 2
  MainBuffer = 154
  FramePayload = 24
  FrameHeader = 10
  IntMod = 65536
  FifoSize = 3
  Senders <- MCTwo
  Messages <- MCLong
  IdBase <- MCApart
  MaxCopies = 1
INVARIANTS
  OverrunCause
PROPERTIES
  RadioDrained
  QueueOfMessages
CHECK_DEADLOCK FALSE
