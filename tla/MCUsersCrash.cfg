SPECIFICATION Spec
CONSTANTS
  Procs = {p1}
  Names = {1, 2}
  Cookies = {1, 2, 3}
  Pws = {x, y}
  MinCap = 2
  Faults = {"write", "fsync"}
  Retries = FALSE
  Moves = FALSE
  Torn = Torn
  MaxRecords = 3
INVARIANTS
  FileAgrees
  AckedSurvive
CHECK_DEADLOCK FALSE
