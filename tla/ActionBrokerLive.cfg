CONSTANTS
  Callers = {c1, c2}
  Requests = {r1, r2}
  Keys = {k1}
  Rules <- MCRules
  Blocking <- MCBlocking
  TokenTTL = 0
  Window = 2
  MaxHold = 1
  MaxTime = 1
  Configs <- MCOutages
  NoCaller = NoCaller
  NoRequest = NoRequest
  NoKey = NoKey
SPECIFICATION FairSpec
PROPERTIES
  CallsReturn
