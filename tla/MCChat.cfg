CONSTANTS
  Box = "admin"
  Customers = {"ann", "bob"}
  RegionOf <- MCRegionOf
  Tokens = 1
  MaxRequests = 3
  MaxFaults = 1
SPECIFICATION Spec
INVARIANTS
  ErrorHasACause
PROPERTIES
  EveryRequestEnds
CHECK_DEADLOCK FALSE
