CONSTANTS
  None = None
  Key = {k1}
  Val = {v1}
  Client = {c1}
  Main = Main
  BWorker = BWorker
  CacheMode = "MEM_LRU"
  RecsPerFile = 1
  MaxRequests = 1
SPECIFICATION Spec
INVARIANTS EvictAllComplete
CHECK_DEADLOCK FALSE
