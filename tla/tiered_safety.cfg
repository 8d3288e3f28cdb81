CONSTANTS
  None = None
  Key = {k1, k2}
  Val = {v1, v2}
  Client = {c1, c2}
  Main = Main
  BWorker = BWorker
  CacheMode = "MEM_LRU"
  RecsPerFile = 1
  MaxRequests = 3
SYMMETRY Symmetry
SPECIFICATION Spec
INVARIANTS TypeOK SemMatchesQueue OneHolder IndexSound
PROPERTIES OnlySetsChangeValues KeepsContract
CHECK_DEADLOCK FALSE
