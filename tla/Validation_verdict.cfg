SPECIFICATION Spec
CONSTANTS
  Keywords = {"course", "semester", "student", "cohort", "ar", "deidentified"}
  TypeSets <- UpToTwoTypes
INVARIANTS VerdictIsRight ConvertersApplied
CHECK_DEADLOCK FALSE
