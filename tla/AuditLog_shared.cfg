SPECIFICATION Spec
CONSTANTS
  Loggers = {l1, l2}
  Window = 2
  Sharing = TRUE
  MaxEvents = 4
INVARIANT ChainIntact
