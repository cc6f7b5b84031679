SPECIFICATION FairSpec
CONSTANTS
  Calls = {c1, c2}
  strong = strong
  fallback = fallback
  Cands <- MCTwo
  Budgets = {0, 2}
CHECK_DEADLOCK FALSE
INVARIANTS
  RouterSafe
PROPERTIES
  RefusedRests
  CallsEnd
