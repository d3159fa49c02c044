\* Whole calls of lower(), in pairs.
CONSTANTS
  Calibration <- MCCalibration
  RecursiveIterations = 3
  Narrowing = 2
  MaxReorderLeaves = 4
  MaxJoinCount = 8
  Queries <- LoweredQueries
SPECIFICATION LowerSpec
CHECK_DEADLOCK FALSE
INVARIANTS
  PlanIsTheQuery
  ReorderingChainsNeverDearer
  SharingChangesNothing
  ForbiddingLosesNothing
PROPERTY
  LowersEvery
