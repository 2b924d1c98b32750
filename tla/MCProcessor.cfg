CONSTANTS
  Trades = {t1, t2, t3}
  MaxPoll = 2
  MaxUpsets = 2
SPECIFICATION FairSpec
INVARIANTS
  TypeOK
  CommitCoversAccounted
  OncePerJoin
PROPERTIES
  CommitNeverRetreats
  ImplementsDelivery
  EveryRecordSettles
CHECK_DEADLOCK FALSE
