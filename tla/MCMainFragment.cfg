SPECIFICATION Spec
CONSTANTS
  r1 = r1
  r2 = r2
  r3 = r3
  Request = {r1, r2, r3}
  NoRequest = NoRequest
  MaxInstance = 3
SYMMETRY RequestSymmetry
INVARIANTS
  VisibleListsDisplayed
  FirstActivityNeverCrashes
  GeofenceTapSuffices
CHECK_DEADLOCK FALSE
