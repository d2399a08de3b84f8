SPECIFICATION FairSpec
CONSTANTS
  Conn = {c1, c2}
  Worker = {w1, w2}
  MaxConnections = 1
  MaxFrames = 1
  MaxSenders = 1
  Command = {"put"}
  ReadTimeout = TRUE
  WriteTimeout = TRUE
  MaxPanics = 1
  Shutdown = Shutdown
  NoConn = NoConn
INVARIANTS
  
  ActiveExact
  GracefulShutdown
PROPERTIES
  ShutdownReturns
  AllClosed
CHECK_DEADLOCK FALSE
