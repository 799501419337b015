SPECIFICATION FairSpec
CONSTANTS
  script = script
  clean = clean
  virus = virus
  locked = locked
  Clients = {script}
  Contents = {clean, virus, locked}
  Locked = {locked}
  Detected = {virus}
  NoFile = NoFile
  MaxEdits = 3
INVARIANTS
  TypeOK
  AcceptedWasJudged
  DeletesOnlyDetected
PROPERTIES
  AnswersOnlyHarden
  ImplementsGate
  EveryScriptEnds
CHECK_DEADLOCK FALSE
