SPECIFICATION FairSpec
CONSTANTS
  c1 = c1
  c2 = c2
  c3 = c3
  c4 = c4
  Conns = {c1, c3}
  RemoteAddr <- TwoHosts
  Entry = {e1, e2}
  None = None
  Outcomes = {TRUE, FALSE}
  MaxAuthTries = 1
  MaxDelay = 2
  IdleExpiry = 2
  Prompt = FALSE
PROPERTIES
  CallbackReturns
CHECK_DEADLOCK FALSE
