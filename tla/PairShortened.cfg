CONSTANTS
  Calibration <- MCCalibration
  RecursiveIterations = 3
  Memos <- EveryMemo
  Requirements <- LocalRequirements
  FirstModes <- Shortened
  SecondModes <- Exhaustive
SPECIFICATION PairSpec
CHECK_DEADLOCK FALSE
INVARIANTS
  FirstNeverBetter
  ShorteningFindsAPlan
  PruningKeepsThePlan
