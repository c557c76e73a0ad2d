SPECIFICATION Spec
CONSTANTS
  Conns = {c1}
  Chans = {d1}
  DrainTimeout = 2
  ShutdownGrace = 2
INVARIANTS
  ExitAfterKill
CHECK_DEADLOCK FALSE
