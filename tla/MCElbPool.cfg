CONSTANTS
  N = 2
  Requests = {r1, r2}
  MaxChanges = 1
SPECIFICATION FairSpec
INVARIANTS
  TypeOK
  PickedWasHealthy
  RefusedSawEachDown
  RoundRobinIsEven
PROPERTY FlagsConverge
CHECK_DEADLOCK FALSE
