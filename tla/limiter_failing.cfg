SPECIFICATION FairSpec
CONSTANTS
  c1 = c1
  c2 = c2
  c3 = c3
  c4 = c4
  Conns = {c1, c2, c3, c4}
  RemoteAddr <- OneHost
  Entry = {e1, e2, e3}
  None = None
  Outcomes = {FALSE}
  MaxAuthTries = 1
  MaxDelay = 2
  IdleExpiry = 2
  Prompt = TRUE
PROPERTIES
  FailuresKept
  LoggedAttemptIncludesOwn
  GateSpec
  CallbackReturns
