SPECIFICATION FairSpec
CONSTANTS
  Files = {f1}
  RowIds = {i1, i2}
  BatchIds = {b1, b2}
  Names = {n1, n2}
  Requests = {q1, q2}
  SyncApplies = TRUE
  None = None
INVARIANTS BatchInv BatchNamesUnique MissingBlobExplained
PROPERTIES RowsLeaveWithBatch SyncsListed DeletionCompletes
