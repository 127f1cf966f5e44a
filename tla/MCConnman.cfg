SPECIFICATION Spec
CHECK_DEADLOCK FALSE
CONSTANTS
  c1 = c1
  c2 = c2
  Client <- MCClient
  Strays <- MCStrays
  Id <- MCId
  NoId = 8
  IdSpan = 8
  MaxConns = 2
  MaxCalls = 2
INVARIANTS
  Paired
  AnswersMatch
PROPERTIES
  CallsReturn
