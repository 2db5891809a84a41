SPECIFICATION Spec
CONSTANTS
  Conns = {c1, c2}
  Patient = {c2}
  Fds = {3}
  Workers = {w1, w2}
  Main = Main
  NoConn = NoConn
  NoEvent = NoEvent
  MaxSegs = 2
INVARIANTS
  NoEventLost
  BacklogWatched
PROPERTIES
  WorkerReturns
  GoneClientNoticed
CHECK_DEADLOCK FALSE
