SPECIFICATION Spec
CONSTANTS
  Reported = {"CLEAN", "INFECTED", "ERROR"}
  MaxScanners = 5
INVARIANTS
  AllowedIsExplicitlyClean
  StricterPoliciesAllowLess
  OrderIsIrrelevant
PROPERTIES
  DetectionSticks
CHECK_DEADLOCK FALSE
