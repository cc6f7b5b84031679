SPECIFICATION FairSpec
CONSTANTS
  Brands = {b1}
  Targets = {t1, t2}
  Values = {v1, v2}
  t1 = t1
  v1 = v1
  Asked <- MCAsked
  Callers = {c1}
  Ttl = 1
  MaxTime = 2
  MaxCells = 2
  MaxBuilds = 2
  MaxRestarts = 1
  Null = Null
CHECK_DEADLOCK FALSE
INVARIANTS
  NothingInvented
  ClaimHonest
PROPERTIES
  NeverBackwards
  WorkEnds
