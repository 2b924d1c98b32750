CONSTANTS
  h1 = h1
  h2 = h2
  h3 = h3
  Handlers = {h1, h2, h3}
  Prices = {1, 2}
  W = 2
  Gate = 2
  MaxRequests = 4
  MaxResets = 1
SPECIFICATION Spec
SYMMETRY Symmetry
INVARIANTS
  TypeOK
  WindowHolds
  EmptiedByCrowd
  AloneIsAverage
  FailureHasACause
CHECK_DEADLOCK FALSE
