SPECIFICATION Spec
CONSTANTS
  Calls = {c1, c2}
  Models = {m1}
  NoModel = NoModel
  MaxAttempts = 3
  InitialBackoff = 1
  MaxBackoff = 2
  RetryUpstream = FALSE
  Waits = {0, 1, 3}
PROPERTY WaitSurvivesOlderAnswers
