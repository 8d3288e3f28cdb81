CONSTANTS
  None = None
  Key = {k1}
  Val = {v1}
  Client = {c1, c2}
  Main = Main
  BWorker = BWorker
  CacheMode = "MEM_LRU"
  RecsPerFile = 1
  MaxRequests = 2
SPECIFICATION FairSpec
PROPERTIES GetAnswered
CHECK_DEADLOCK FALSE
