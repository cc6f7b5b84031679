CONSTANTS
  k1 = k1
  p1 = p1
  p2 = p2
  Calls = {c1, c2, c3}
  Keys = {k1}
  Payloads = {p1, p2}
  NoKey = NoKey
  NoCall = NoCall
  Attempts = 1
  Window = 1
  MaxTime = 2
  Asks <- MCContending
  Configs <- MCOn
SPECIFICATION Spec
SYMMETRY MCSymmetry
INVARIANTS
  KeysHonoured
