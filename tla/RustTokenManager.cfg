SPECIFICATION FairSpec
CONSTANTS
  Callers = {c1, c2}
  RatioPct = 80
  MinRemaining = 1
  MaxTTL = 3
  MaxTime = 2
  MaxTokens = 2
  Lifetimes = {1, 4}
INVARIANT LockFreeInv
PROPERTY EveryCallEnds
