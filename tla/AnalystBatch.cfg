SPECIFICATION Spec
CONSTANTS
  Backtick = Backtick
  Letter = Letter
  q1 = q1
  i1 = i1
  s1 = s1
  Turns = {q1, q2}
  Streamed = {q1, q2}
  Ids = {i1, i2}
  Scopes = {s1, s2}
  Requests <- MCRequests
  Pieces <- MCPieces
  SessionTtl = 0
  MaxSessions = 1
  MaxRounds = 2
  MaxCalls = 2
  MaxText = 7
  MaxTime = 1
  None = None
CHECK_DEADLOCK FALSE
INVARIANTS
  BatchSurvives
