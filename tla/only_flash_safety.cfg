CONSTANTS
  None = None
  Key = {k1, k2}
  Val = {v1, v2}
  Client = {c1, c2}
  Main = Main
  BWorker = BWorker
  CacheMode = "ONLY_FLASH"
  RecsPerFile = 2
  MaxRequests = 5
SYMMETRY Symmetry
SPECIFICATION Spec
PROPERTIES OnlySetsChangeValues KeepsContract
CHECK_DEADLOCK FALSE
