SPECIFICATION FairSpec
CONSTANTS
  Keys = {k1}
  None = None
  RecordSizes = {4}
  MaxRecord = 4
  BufSize = 3
  FileSize = 5
  CacheSize = 7
  FloatUnit = 2
  MaxFiles = 3
  StartSizes = {0, 8}
CHECK_DEADLOCK FALSE
INVARIANTS TypeOK NeverUndercounts CapacityKept IndexedFileListed
PROPERTIES WriterEnds
