SPECIFICATION Spec
CONSTANTS
  Procs = {p1}
  Names = {1, 2, 3}
  Cookies = {1, 2, 3, 4}
  Pws = {x}
  MinCap = 2
  Faults = {"write", "short", "fsync"}
  Retries = FALSE
  Moves = FALSE
  Torn = Torn
  MaxRecords = 3
INVARIANTS
  TypeOK
  IndexesExact
CHECK_DEADLOCK FALSE
