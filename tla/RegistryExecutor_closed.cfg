SPECIFICATION Spec
CONSTANTS
  nmap = nmap  nikto = nikto  nuclei = nuclei
  Steps <- ThreeSteps
  Plans <- ChainPlans
  LaterPlans = {}
  Tools = {nmap, nikto, nuclei}
  Tool <- TwoScanners
  Args <- SameArgs
  Alternatives <- Scanners
  MaxIterations = 3
  MaxToolCalls = 3
  BlockAfter = 3
  NoProgressAfter = 3
  Rounds = 1
  MayClose = FALSE
  Corrects = {}
INVARIANTS FailsClosed
