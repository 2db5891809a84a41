SPECIFICATION Spec
CONSTANTS
  Threads = {t1, t2, t3}
  NoThread = NoThread
  Names = {n1}
  Versions = {1, 2, 3}
  Large = {3}
  Mtime <- MCMtime
  GzModes = {FALSE}
  Null = Null
  Garbage = Garbage
INVARIANTS
  TypeOK
  LocksMatch
  ViewIntact
  FreshView
CHECK_DEADLOCK FALSE
