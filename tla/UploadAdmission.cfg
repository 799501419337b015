SPECIFICATION Spec
CONSTANTS
  standard = standard
  strict = strict
  engine = engine
  a1 = a1
  a2 = a2
  r1 = r1
  r2 = r2
  Profiles = {standard, strict}
  Standard = standard
  Scanners = {engine}
  Clients = {app}
  app = app
  Admins = {a1, a2}
  Uploads = {r1}
  Rescans = {r2}
  RetainInfected = FALSE
  NoProfile = NoProfile
  MaxChanges = 2
SYMMETRY AdminSymmetry
INVARIANTS
  TypeOK
  OneDefault
  DefaultSurvivesEdits
  PinHolds
  AcceptedByAScanner
  TmpOnlyAfterFailure
PROPERTIES
  RetiredKeysStayOut
CHECK_DEADLOCK FALSE
