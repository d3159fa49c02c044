CONSTANTS
  Whole <- Unit
  MinSel = 1
  Defaults <- MCDefaults
  Clients = {one, two}
  Workloads <- SessionWorkloads
SPECIFICATION CacheSpec
CHECK_DEADLOCK FALSE
INVARIANTS
  CacheInv
  UsableUntilReplaced
  HitsAreFresh
  SpellingIrrelevant
  FractionsCompose
  ComparisonsPartition
  JoinsBounded
  EstimatesMonotone
