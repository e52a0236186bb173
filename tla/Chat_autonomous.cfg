SPECIFICATION ChatSpec
CONSTANTS
  dig = dig  nmap = nmap  p1 = p1  p2 = p2
  Commands = {dig, nmap}
  MaxWaves = 4
  PlateauAfter = 2
  MaxRequests = 2
  MaxDiscoveries = 1
  Targets = 3
  OfflineAfter = 3
  OnlineAfter = 2
  Providers = {p1, p2}
  CooldownSteps <- ThreeSteps
  MaxCooldown = 3
  MaxAgents = 3
  Limit = 4
  Period = 2
  SaveEvery = 2
  MaxGates = 2
  Tools = {dig, nmap}
  RecordsPerSave = 1
  MaxTrackers = 2
  MaxFailures = 2
  Loggers = {l1}
  Window = 2
  Sharing = FALSE
  MaxEvents = 2
CHECK_DEADLOCK FALSE
INVARIANTS NoHeuristicFallback
