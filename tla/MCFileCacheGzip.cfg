SPECIFICATION Spec
CONSTANTS
  Threads = {t1, t2}
  NoThread = NoThread
  Names = {n1}
  Versions = {1, 2, 3}
  Large = {3}
  Mtime <- MCMtime
  GzModes = {TRUE, FALSE}
  Null = Null
  Garbage = Garbage
INVARIANTS
  ViewIntact
  FreshView
CHECK_DEADLOCK FALSE
