SPECIFICATION FairSpec
CONSTANTS
  Callers = {c1, c2}
  Nobody = Nobody
  MaxTokens = 3
  MaxAttempts = 2
INVARIANTS
  ResendIsNewer
  NothingRetiredIsSent
PROPERTIES
  LiveTokenIsKept
  EveryCallEnds
