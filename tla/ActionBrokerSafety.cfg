CONSTANTS
  Callers = {c1, c2}
  Requests = {r1, r2}
  Keys = {k1, k2}
  Rules <- MCRules
  Blocking <- MCBlocking
  TokenTTL = 1
  Window = 2
  MaxHold = 1
  MaxTime = 2
  NoCaller = NoCaller
  NoRequest = NoRequest
  NoKey = NoKey
  Configs <- MCConfigs
SPECIFICATION Spec
SYMMETRY MCSymmetry
INVARIANTS
  DispatchSafe
  OutcomeRecorded
  WindowApart
PROPERTIES
  BrokerKeepsLease
