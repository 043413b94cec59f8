SPECIFICATION Spec
CONSTANTS
  Requests = {q1}
  ModelIds = {m1}
  RunIds = {1}
  CustomRuns = {9}
  MaxVersions = 1
  Setups <- AllSetups
  None = None
INVARIANTS OneFilePerType
CHECK_DEADLOCK FALSE
