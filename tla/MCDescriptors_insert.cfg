SPECIFICATION Spec
CONSTANTS
  Conn = {c1, c2}
  Worker = {w1, w2}
  NoConn = NoConn
  c1 = c1
  c2 = c2
  w1 = w1
  w2 = w2
  Fd = {0, 1, 2, 3, 4, 5, 6, 7}
  MayStop = FALSE
CHECK_DEADLOCK FALSE
INVARIANTS
  RawFdIsOurs
