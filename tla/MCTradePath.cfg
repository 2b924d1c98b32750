CONSTANTS
  good = good
  canary = canary
  refused = refused
  c1 = c1
  c2 = c2
  None = None
  Trades <- MCTrades
  MaxPoll = 2
  MaxUpsets = 1
  Refused = {refused}
  Routes <- MCRoutes
  Calls = {c1, c2}
  MaxRoutes = 4
  MaxFaults = 1
SPECIFICATION Spec
CHECK_DEADLOCK FALSE
SYMMETRY Symmetry
INVARIANTS
  TypeOK
  CommittedIsRecordedOrGivenUp
  OkMeansRecorded
  NotifierFindsTrade
  DuplicateRowsNeedRejoin
  CollateralStaysInBatch
