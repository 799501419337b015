SPECIFICATION FairSpec
CONSTANTS
  fetched = fetched
  locked = locked
  w1 = w1
  w2 = w2
  Scans = {fetched}
  Locked = {}
  Modes = {"ansible_fetch"}
  Workers = {w1}
  Concurrency = 1
  RetainInfected = TRUE
  LifetimeCoversJobs = TRUE
  MaxFaults = 0
  Aggregations = {"ALL_MUST_PASS"}
  Outcomes <- OneScanner
PROPERTIES
  StagingReclaimed
CHECK_DEADLOCK FALSE
