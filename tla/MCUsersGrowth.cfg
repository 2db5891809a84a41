SPECIFICATION Spec
CONSTANTS
  Procs = {p1}
  Names = {1, 2, 3}
  Cookies = {1, 2, 3}
  Pws = {x}
  MinCap = 2
  Faults = {}
  Retries = FALSE
  Moves = TRUE
  Torn = Torn
  MaxRecords = 3
INVARIANT
  NewUserIndexed
CHECK_DEADLOCK FALSE
