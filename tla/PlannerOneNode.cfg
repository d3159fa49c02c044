CONSTANTS
  Calibration <- MCCalibration
  RecursiveIterations = 3
  RowsOf <- MCRowsOf
  Memos <- UnionOfJoinMemo
  Requirements <- LocalRequirements
  Modes <- AllModes
SPECIFICATION PlannerSpec
CHECK_DEADLOCK FALSE
INVARIANTS
  NothingMovesOnOneNode
