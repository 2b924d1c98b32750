CONSTANTS
  L = 2
  r2 = r2
  Requests = {r1, r2}
  LbOf <- OneEach
SPECIFICATION FairSpec
INVARIANTS
  TypeOK
  EachInOnePlace
  DrainedMeansFlushed
PROPERTIES
  SignalledEnds
  LoggedIsFlushed
CHECK_DEADLOCK FALSE
