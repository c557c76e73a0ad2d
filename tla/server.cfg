SPECIFICATION FairSpec
CONSTANTS
  Conns = {c1, c2}
  Chans = {d1}
  DrainTimeout = 2
  ShutdownGrace = 2
INVARIANTS
  NoAddDuringWait
  CleanReturn
  HangupIsolated
PROPERTIES
  ServeReturns
  DisconnectUnwinds
CHECK_DEADLOCK FALSE
