SPECIFICATION Spec
CONSTANTS
  Procs = {p1}
  Names = {1, 2, 3}
  Cookies = {1, 2, 3}
  Pws = {x}
  MinCap = 2
  Faults = {"fsync"}
  Retries = TRUE
  Moves = FALSE
  Torn = Torn
  MaxRecords = 3
INVARIANT
  FailureIgnored
CHECK_DEADLOCK FALSE
