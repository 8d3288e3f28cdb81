CONSTANTS
  None = None
  BufSize = 2
  MaxSize = 6
  RecSize = {1, 3}
SPECIFICATION FairSpec
INVARIANTS TypeOK DiskInOrder SerializeFits ReadsOwnBytes BufferedUntilEof
PROPERTIES CloseReturns
CHECK_DEADLOCK FALSE
