SPECIFICATION FairSpec
CONSTANTS
  Runs = {run1}
  Kinds = {"csv"}
  Requests = {q1, q2}
  MaxMoves = 2
  None = None
PROPERTIES JobCompletes RowsFollowBucket
