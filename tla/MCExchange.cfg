SPECIFICATION Spec
CONSTANTS
  EtherWait = 7
  RadioWait = 3
  LineTime = 1
  InfoTime = 2
  NoneTime = 1
  SendTime = 1
  AnswerTime = 3
  ClockMod = 24
  Starts <- MCStarts
  MaxTime = 26
  MaxAsks = 3
INVARIANTS
  WaitsNest
  WaitsBounded
CHECK_DEADLOCK FALSE
