SPECIFICATION FairPlanSpec
CONSTANTS
  a = a  b = b  c = c  ghost = ghost
  Nodes = {a, b, c}
  Workflows <- EveryWorkflow
  Permits = 2
  MayCancel = TRUE
  SelfCancelling = {a}
INVARIANTS TypeOK ReturnsQuiet PlanStatusTellsSteps ExecutesWhenMet
PROPERTIES ExecutesGraph RunEnds
