SPECIFICATION Spec
CONSTANTS
  fetched = fetched
  locked = locked
  w1 = w1
  w2 = w2
  Scans = {locked}
  Locked = {locked}
  Modes = {"direct_upload"}
  Workers = {w1}
  Concurrency = 1
  RetainInfected = TRUE
  LifetimeCoversJobs = TRUE
  MaxFaults = 0
  Aggregations = {"ALL_MUST_PASS"}
  Outcomes <- OneScanner
INVARIANTS
  EncryptedSkipsScanners
CHECK_DEADLOCK FALSE
