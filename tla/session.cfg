SPECIFICATION FairSpec
CONSTANTS
  MaxOut = 2
  Escapes = TRUE
  Elevates = TRUE
INVARIANTS
  ResizeNeverOnClosedMaster
  ExitTruthful
  OutputBeforeExit
  EscalationComplete
  PtyReleased
PROPERTIES
  KeepsContract
  ClosedSessionEnds
  PtyExitEndsSession
  ShutdownReachesSession
CHECK_DEADLOCK FALSE
