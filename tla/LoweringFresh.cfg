\* A query whose scans must be fresh, and whose result must be.
CONSTANTS
  Calibration <- MCCalibration
  RecursiveIterations = 3
  Narrowing = 2
  MaxReorderLeaves = 4
  MaxJoinCount = 8
  Queries <- FreshUnions
SPECIFICATION LowerSpec
CHECK_DEADLOCK FALSE
INVARIANT FreshEitherWay
