CONSTANTS
  Calibration <- MCCalibration
  RecursiveIterations = 3
  RowsOf <- MCRowsOf
  Memos <- WindowOverRenamedMemo
  Requirements <- LocalRequirements
  Modes <- AllModes
SPECIFICATION PlannerSpec
CHECK_DEADLOCK FALSE
INVARIANTS
  RowsInOrder
