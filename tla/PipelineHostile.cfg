SPECIFICATION Spec
CONSTANTS
  fetched = fetched
  locked = locked
  w1 = w1
  w2 = w2
  Scans = {fetched}
  Locked = {}
  Modes = {"ansible_fetch", "direct_upload"}
  Workers = {w1, w2}
  Concurrency = 1
  RetainInfected = FALSE
  LifetimeCoversJobs = FALSE
  MaxFaults = 1
  Aggregations = {"ALL_MUST_PASS"}
  Outcomes <- OneScanner
SYMMETRY WorkerSymmetry
INVARIANTS
  TypeOK
  OneRunnerPerScan
  AllowedNeedsEvidence
  DeletedNeedsDetection
CHECK_DEADLOCK FALSE
