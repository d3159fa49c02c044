CONSTANTS
  Whole <- Unit
  MinSel = 1
  Defaults <- MCDefaults
  Clients = {one, two}
  Workloads <- AnalyzedBetween
SPECIFICATION CacheSpec
CHECK_DEADLOCK FALSE
INVARIANTS
  HitsAreFresh
