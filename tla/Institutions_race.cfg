SPECIFICATION Spec
CONSTANTS
  Names = {n1, n2}
  DbNames = {"college"}
  DbName <- OneDbName
  InstIds = {i1, i2}
  Types = {"pdp", "genai"}
  FlagTypes = {}
  GivenIds = {x}
  Levels = 1
  Requests = {q1, q2}
  None = None
SYMMETRY Symmetry
INVARIANTS
  MadeIsComplete
  HalfMadeExplained
  BucketsTraced
  TypeFollowsRules
