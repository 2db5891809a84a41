SPECIFICATION Spec
CONSTANTS
  Conns = {c1, c2, c3}
  Patient = {c1, c2, c3}
  Fds = {3, 4}
  Workers = {w1, w2}
  Main = Main
  NoConn = NoConn
  NoEvent = NoEvent
  MaxSegs = 1
INVARIANTS
  TypeOK
  OwnConnection
PROPERTY
  EveryClientFinished
CHECK_DEADLOCK FALSE
