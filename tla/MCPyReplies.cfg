SPECIFICATION Spec
CONSTANTS
  Replies <- SomeReplies
  TokenReplies <- SomeTokenReplies
  MaxAttempts = 3
  InitialBackoff = 1
  MaxBackoff = 2
  RetryUpstream = TRUE
  Waits = {0, 1, 3}
INVARIANTS
  BlockingIsBounded
  KindsSuffice
  ErrorsAreWellTold
PROPERTIES
  UnfamiliarIsNotRetried
  HeaderIsHonoured
