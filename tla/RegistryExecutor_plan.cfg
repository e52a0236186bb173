SPECIFICATION FairSpec
CONSTANTS
  nmap = nmap  nikto = nikto  nuclei = nuclei
  Steps <- ThreeSteps
  Plans <- SomePlans
  LaterPlans <- SecondPlans
  Tools = {nmap, nikto, nuclei}
  Tool <- TwoScanners
  Args <- SameArgs
  Alternatives <- Scanners
  MaxIterations = 4
  MaxToolCalls = 4
  BlockAfter = 3
  NoProgressAfter = 3
  Rounds = 2
  MayClose = TRUE
  Corrects = {2}
INVARIANTS TypeOK ReportIsTrue
PROPERTIES ExecutesPlan PlanEnds
