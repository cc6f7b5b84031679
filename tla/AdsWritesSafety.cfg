CONSTANTS
  k1 = k1
  p1 = p1
  p2 = p2
  Calls = {c1, c2}
  Keys = {k1}
  Payloads = {p1, p2}
  NoKey = NoKey
  NoCall = NoCall
  Attempts = 2
  Window = 1
  MaxTime = 0
  Asks <- MCAsks
  Configs <- MCConfigs
SPECIFICATION FairSpec
INVARIANTS
  OnlyAdmittedEffects
  LogsTellTheTruth
PROPERTIES
  CallsEnd
