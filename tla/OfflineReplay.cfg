SPECIFICATION SoloSpec
CONSTANTS
  a = a  b = b  c = c  d = d  w1 = w1
  Cmds = {a, b, c, d}
  Workers = {w1}
  None = None
  Deps <- TwoWait
  MaxAttempts <- TwoAttempts
  BatchSize = 2
  OverFetch = 1
  CycleFactor = 2
  MinCycles = 2
  Kinds = {"flush", "replay"}
  RetryLimit = 2
  ReclaimCap = 2
INVARIANT DrainLeavesNothing
