SPECIFICATION FairSpec
CONSTANTS
  Calls = {c1, c2}
  Models = {m1, m2}
  NoModel = NoModel
  MaxAttempts = 3
  InitialBackoff = 1
  MaxBackoff = 1
  RetryUpstream = FALSE
  Waits = {1, 2}
INVARIANTS
  IInv
  BilledOnce
PROPERTIES
  HonoursRetryAfter
  EveryCallEnds
