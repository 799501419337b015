SPECIFICATION Spec
CONSTANTS
  p1 = p1
  p2 = p2
  Processes = {p1, p2}
  Span = 2
  Budgets = {0, 1, 2}
  MaxTime = 4
  MaxFresh = 1
SYMMETRY ProcessSymmetry
INVARIANTS
  TypeOK
  WindowBounded
  RefusalsAreEarned
CHECK_DEADLOCK FALSE
