CONSTANTS
  Calibration <- MCCalibration
  RecursiveIterations = 3
  Memos <- SharedAggregateMemo
  Requirements <- LocalRequirements
  FirstModes <- Pruned
  SecondModes <- Exhaustive
SPECIFICATION PairSpec
CHECK_DEADLOCK FALSE
INVARIANTS
  SamePlan
