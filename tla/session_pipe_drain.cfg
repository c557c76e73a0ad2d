SPECIFICATION FairSpec
CONSTANTS
  MaxOut = 1
  Escapes = FALSE
  Elevates = FALSE
PROPERTIES
  ExitEndsSession
CHECK_DEADLOCK FALSE
