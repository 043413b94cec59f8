SPECIFICATION LifecycleSpec
CONSTANTS
  Files = {f1}
  Requests = {r1, r2}
  Uploads = {good}
  GoodUploads = {good}
  RowIds = {i1, i2}
  SyncApplies = TRUE
  None = None
  BatchIds = {b1}
  Names = {n1}
  BatchRequests = {q1}
SYMMETRY Symmetry
INVARIANTS UniqueRow ListedBacked OrphanTraced
