SPECIFICATION FairSpec
CONSTANTS
  Callers = {c1, c2}
  Nobody = Nobody
  RatioPct = 80
  MinRemaining = 1
  MaxTTL = 3
  MaxTime = 3
  MaxTokens = 2
  Lifetimes = {1, 4}
INVARIANT IInv
PROPERTIES
  ImplementsTokenCache
  EveryCallEnds
