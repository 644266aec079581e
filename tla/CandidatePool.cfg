CONSTANTS
  Last = 4
  Workers = 2
  MaxCalls = 2
  Fuzzed = {3}
SPECIFICATION PoolSpec
INVARIANTS
  ReportIsComplete
  OneRequestAfterStop
  CapNearlyKept
PROPERTIES
  PoolEnds
CHECK_DEADLOCK FALSE
