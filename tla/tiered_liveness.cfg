CONSTANTS
  None = None
  Key = {k1, k2}
  Val = {v1}
  Client = {c1, c2}
  Main = Main
  BWorker = BWorker
  CacheMode = "MEM_LRU"
  RecsPerFile = 1
  MaxRequests = 3
SPECIFICATION FairSpec
PROPERTIES Answered EvictedIsFlushed
CHECK_DEADLOCK FALSE
