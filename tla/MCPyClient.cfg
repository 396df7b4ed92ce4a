SPECIFICATION Spec
CONSTANTS
  Callers = {c1, c2}
  Requests <- SomeRequests
  Settings <- SomeSettings
  Environments <- SomeEnvironments
  Modality <- SomeModality
  Unreported = {"writer"}
  Serves <- SomeServes
  Grants <- SomeGrants
  Limit <- SomeLimit
SYMMETRY Symmetric
INVARIANTS
  IInv
  BudgetsKeptApart
PROPERTIES
  ModesAreUnambiguous
  GuardRailIsHarmless
  DenialIsExplained
