SPECIFICATION Spec
CONSTANTS
  Conn = {c1}
  Worker = {w1}
  MaxConnections = 1
  MaxFrames = 3
  MaxSenders = 1
  Command = {"get", "ping"}
  ReadTimeout = TRUE
  WriteTimeout = TRUE
  MaxPanics = 0
  Shutdown = Shutdown
  NoConn = NoConn
INVARIANTS
  InOrder
  OneInDoubt
  RefusalEnds
CHECK_DEADLOCK FALSE
