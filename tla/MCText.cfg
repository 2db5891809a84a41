SPECIFICATION Spec
CONSTANTS
  Size = 16
  MaxBody = 4
  NUL = NUL
  Garbage = Garbage
  Wild = Wild
  Null = Null
  KeyWords = 2
  NULL = NULL
INVARIANTS
  Base64Exact
  SortOrder
  RequestsRead
  StaleHarmless
  BodiesAccounted
  FormsRead
  HeaderListsSearched
  PathsInside
  MimesRead
  FramesUnderstood
  PasswordsTold
  SafetyMeasured
  FailuresNeverMatch
CHECK_DEADLOCK FALSE
