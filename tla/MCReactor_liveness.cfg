SPECIFICATION FairSpec
CONSTANTS
  Conn = {c1, c2}
  Fd = {f1}
  Worker = {w1}
  NoConn = NoConn
  NoFd = NoFd
  ServerSocket = ServerSocket
  WakeupPipe = WakeupPipe
  c1 = c1
  c2 = c2
  f1 = f1
  w1 = w1
  ReqParts = 1
  RespParts = 1
  PipeCapacity = 1
  DrainSize = 1
  MaxEvents = 8
  IdleTimeout = 0
  LossyWakeup = TRUE
  Kqueue = FALSE
INVARIANTS
  OnePollInterval
  EventsAreFresh
PROPERTIES
  RefinesLifecycle
  ConnectionsEnd
  ResponsesLeave
