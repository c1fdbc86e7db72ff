SPECIFICATION Spec
CONSTANTS
  r1 = r1
  r2 = r2
  r3 = r3
  Request = {r1, r2, r3}
  Nothing = Nothing
SYMMETRY RequestSymmetry
INVARIANTS
  TransactionStaysVisible
  ResponseIsCurrent
  OnlyUpdatesDropped
CHECK_DEADLOCK FALSE
