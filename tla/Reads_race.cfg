SPECIFICATION Spec
CONSTANTS
  Requests = {1, 2}
  Emails = {"e1", "e2"}
  Insts = {"a"}
  Issuers <- InitialAndFirst
  FirstAccounts <- TwoAccounts
  Roles = {"DATAKINDER", "DATA_OWNER", "VIEWER"}
  Loads <- TwoThreads
  FirstBatches <- TwoBatches
  BatchFiles <- AnyFiles
  Home = "a"
  Students = {"s"}
  Generated = {"out"}
  MaxVersions = 2
  None = None
INVARIANTS PromotionsRecorded EdaAnswerHonest TableCacheSound
CHECK_DEADLOCK FALSE
