CONSTANTS
  Threads = {t1, t2}
  Slot = 2
  CapR = 6
  RateR = 1
  CapT = 2
  RateT = 1
  MaxTime = 3
  Hints <- MCHints
SPECIFICATION LimiterSpec
SYMMETRY MCSymmetry
INVARIANTS
  RatesKept
  DebtBounded
  WaitSuffices
