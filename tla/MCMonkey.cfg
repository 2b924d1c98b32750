CONSTANTS
  Customers = {"c1", "c2"}
  Strangers = {"q.bert"}
  MaxCalls = 2
SPECIFICATION FairSpec
INVARIANTS
  ErrorsAreSwitchedOn
  DeathHasACause
PROPERTY OneshotEnds
CHECK_DEADLOCK FALSE
