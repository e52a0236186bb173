SPECIFICATION Spec
CONSTANTS
  Loggers = {l1}
  Window = 2
  Sharing = FALSE
  MaxEvents = 4
INVARIANT VerifiesTheFile
