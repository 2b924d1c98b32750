CONSTANTS
  Arrivals = {r1, r2}
SPECIFICATION MetricsSpec
INVARIANTS
  MetricsTypeOK
  EachCountedOnce
  TargetsNeverAhead
SYMMETRY Symmetry
