SPECIFICATION FairSpec
CONSTANTS
  Files = {course}
  Requests = {r1, r2}
  Uploads = {good1, good2, bad}
  GoodUploads = {good1, good2}
  RowIds = {u1, u2}
  SyncApplies = TRUE
  None = None
INVARIANTS
  IngestInv
  UniqueRow
  RowBacked
  SingleUploadFaithful
  ReportHonest
  OrphanExplained
  SyncBacked
PROPERTIES
  ValidatedRecorded
  RequestsAnswered
  OrphanStays
  CatalogSpec
