CONSTANTS
  Box = "admin"
  Customers = {"ann", "bob"}
  RegionOf <- MCRegionOf
  Tokens = 1
  MaxRequests = 1
  MaxFaults = 0
SPECIFICATION Spec
INVARIANT ReadOutFreesBox
CHECK_DEADLOCK FALSE
