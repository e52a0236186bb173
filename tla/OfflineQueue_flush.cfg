SPECIFICATION Spec
CONSTANTS
  a = a  b = b  c = c  w1 = w1  w2 = w2
  Cmds = {a, b}
  Workers = {w1, w2}
  None = None
  Deps <- ChainDeps
  MaxAttempts <- TwoAttempts
  BatchSize = 2
  OverFetch = 2
  CycleFactor = 1
  MinCycles = 1
  Kinds = {"flush"}
  RetryLimit = 2
  ReclaimCap = 2
INVARIANT CompletedMeansExecuted
