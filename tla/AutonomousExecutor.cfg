SPECIFICATION FairSpec
CONSTANTS
  Steps <- ThreeSteps
  Graphs <- SomeGraphs
  MaxIterations = 3
  MayRecover = TRUE
  MayClose = TRUE
INVARIANTS TypeOK FinishedPlanIsQuiet
PROPERTIES ExecutesPlan PlanEnds
