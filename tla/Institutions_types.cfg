SPECIFICATION Spec
CONSTANTS
  Names = {n1}
  DbNames = {"college"}
  DbName <- OneDbName
  InstIds = {i1}
  Types = {"pdp", "edvise", "legacy", "genai"}
  FlagTypes = {"edvise", "legacy", "genai"}
  GivenIds = {x}
  Levels = 1
  Requests = {q1, q2}
  None = None
INVARIANT ExactlyOneType
