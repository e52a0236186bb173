SPECIFICATION FairSpec
CONSTANTS
  Jobs = {j1, j2, j3}
  MaxQueue = 2
  MaxWorkers = 1
INVARIANTS TypeOK PermitsAccounted
PROPERTIES ImplementsBoundedPool SubmitSettles
