SPECIFICATION Spec
CONSTANTS
  Null = Null
  Contents <- MCContents
  UploadFiles <- MCUploadFiles
  BATCH_MIN_ROWS = 2
  BATCH_MAX_ROWS = 3
  BATCH_MAX_FILE_SIZE_BYTES = 10
  BATCH_REVIEW_PAGE_SIZE = 2
  Searches = {"", "amount is not positive"}
  MaxSelections = 3
  ListedFiles <- MCListedFiles
  FirstQuery <- MCFirstQuery
  Queries <- MCQueries
  BATCH_HISTORY_PAGE_SIZE = 2
  MaxChanges = 2
  MaxFailures = 2
INVARIANTS
  ParsedAsWritten
  UploadTruthful
  
  BatchListConsistent
PROPERTIES
  BatchPagesSettle
CHECK_DEADLOCK FALSE
