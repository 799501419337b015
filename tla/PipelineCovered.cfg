SPECIFICATION Spec
CONSTANTS
  fetched = fetched
  locked = locked
  w1 = w1
  w2 = w2
  Scans = {fetched, locked}
  Locked = {locked}
  Modes = {"ansible_fetch"}
  Workers = {w1}
  Concurrency = 2
  RetainInfected = TRUE
  LifetimeCoversJobs = TRUE
  MaxFaults = 1
  Aggregations = {"ALL_MUST_PASS", "FIRST_SUCCESS"}
  Outcomes <- TwoScanners
INVARIANTS
  EncryptedSkipsScanners
  CleanupOkMeansGone
  EvidenceExists
  EvidenceIsShown
PROPERTIES
  SourceDeletedOnVerdict
  DenialIsFinal
  EvidenceKept
  ImplementsGate
CHECK_DEADLOCK FALSE
