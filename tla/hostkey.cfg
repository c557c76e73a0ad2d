SPECIFICATION Spec
CONSTANTS
  k1 = k1
  k2 = k2
  k3 = k3
  Keys = {k1, k2, k3}
  Procs = {p1}
  InitialFiles <- AllFiles
  MayDelete = TRUE
INVARIANTS
  ServedKeyOnFile
  PubIsServedKey
PROPERTIES
  NeverRegenerated
