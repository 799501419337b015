SPECIFICATION FairSpec
CONSTANTS
  fetched = fetched
  locked = locked
  w1 = w1
  w2 = w2
  Scans = {fetched}
  Locked = {}
  Modes = {"ansible_fetch", "direct_upload"}
  Workers = {w1, w2}
  Concurrency = 1
  RetainInfected = TRUE
  LifetimeCoversJobs = TRUE
  MaxFaults = 2
  Aggregations = {"ALL_MUST_PASS"}
  Outcomes <- OneScanner
PROPERTIES
  EveryScanIsAnswered
  OrphanReclaimed
CHECK_DEADLOCK FALSE
