CONSTANTS
  Trades = {t1, t2}
  MaxPoll = 2
  MaxUpsets = 1
SPECIFICATION FairSpec
PROPERTY ShutdownExits
CHECK_DEADLOCK FALSE
