SPECIFICATION Spec
CONSTANTS
  Runs = {run1}
  Kinds = {"csv", "png"}
  Requests = {q1, q2}
  MaxMoves = 1
  None = None
SYMMETRY Symmetry
INVARIANTS CompletedHasOutput JobFlagFromOutput RowHasBlob
