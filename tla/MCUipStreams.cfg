SPECIFICATION Spec
CONSTANTS
  A = A
  B = B
  C = C
  None = None
  Clients <- MCClients
  Conns = 2
  Packets = 3
  PoolSize = 5
  Lines = 50
VIEW StreamView
INVARIANTS
  StreamKept
  StopHasCause
PROPERTIES
  LinesReachSketch
  Restarted
CHECK_DEADLOCK FALSE
