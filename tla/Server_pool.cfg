SPECIFICATION Spec
CONSTANTS
  Conn = {c1, c2, c3, c4}
  Worker = {w1}
  MaxConnections = 1
  MaxFrames = 0
  MaxSenders = 0
  Command = {"put"}
  ReadTimeout = TRUE
  WriteTimeout = TRUE
  MaxPanics = 0
  Shutdown = Shutdown
  NoConn = NoConn
SYMMETRY Symmetry
INVARIANTS
  ServerTypeOK
  HeldBounded
CHECK_DEADLOCK FALSE
