SPECIFICATION Spec
CONSTANTS
  Requests = {q1, q2}
  ModelIds = {m1, m2}
  RunIds = {1}
  CustomRuns = {1}
  MaxVersions = 2
  Setups <- AllSetups
  None = None
INVARIANTS RunTraced VersionNotOlder RunWellPosed
PROPERTIES RecordedStays
SYMMETRY Symmetry
CHECK_DEADLOCK FALSE
