CONSTANTS
  Calibration <- MCCalibration
  RecursiveIterations = 3
  RowsOf <- MCRowsOf
  Memos <- HalfPartitionedMemo
  Requirements <- PlacedRequirements
  Modes <- AllModes
SPECIFICATION PlannerSpec
CHECK_DEADLOCK FALSE
INVARIANTS
  JoinsColocated
