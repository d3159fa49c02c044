\* Whole lowerings of every query shape, on one node and on a cluster.
CONSTANTS
  Calibration <- MCCalibration
  RecursiveIterations = 3
  RowsOf <- MCRowsOf
  Memos <- PlannedMemos
  Requirements <- PlannedRequirements
  Modes <- AllModes
SPECIFICATION PlannerSpec
CHECK_DEADLOCK FALSE
INVARIANTS
  TypeOK
  OpenGoalsUnsettled
  ChildGoalsSettled
  CostsReproducible
  WinnersServeTheirGoal
  SuccessBuildsAPlan
  FreshnessHonoured
  UnmovedCostsAtMost
  RowsInOrder
  PipelinesScheduled
  BuildSidesPriced
PROPERTIES
  WinnersOnlyAppended
  KeepsAnswerTable
  Answers
