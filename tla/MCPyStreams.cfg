SPECIFICATION FairSpec
CONSTANTS
  Answers <- SomeAnswers
  MaxAttempts = 3
  InitialBackoff = 1
  MaxBackoff = 2
  RetryUpstream = FALSE
  Waits = {0, 1, 3}
INVARIANTS
  IInv
  CompleteIsTheAnswer
  StreamBilledOnce
  MetaTellsTheWait
PROPERTY OpeningEnds
