CONSTANTS
  random = random
  canary = canary
  refused = refused
  c1 = c1
  c2 = c2
  Trades <- MCTrades
  Refused = {refused}
  Routes <- MCRoutes
  Calls = {c1, c2}
  MaxRoutes = 2
  MaxFaults = 1
SPECIFICATION Spec
INVARIANT NotifyErrorOnlyWarns
CHECK_DEADLOCK FALSE
