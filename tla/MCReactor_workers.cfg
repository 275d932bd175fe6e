SPECIFICATION Spec
CONSTANTS
  Conn = {c1, c2}
  Fd = {f1, f2}
  Worker = {w1, w2}
  NoConn = NoConn
  NoFd = NoFd
  ServerSocket = ServerSocket
  WakeupPipe = WakeupPipe
  c1 = c1
  c2 = c2
  f1 = f1
  f2 = f2
  w1 = w1
  w2 = w2
  ReqParts = 1
  RespParts = 2
  PipeCapacity = 1
  DrainSize = 1
  MaxEvents = 2
  IdleTimeout = 1
  LossyWakeup = FALSE
  Kqueue = TRUE
VIEW LiveView
SYMMETRY Symmetry
INVARIANTS
  TypeOK
  ExclusiveOwnership
  HandOffsAreCurrent
  ProcessingConnectionsExact
  NoLostWakeup
  OneFilter
