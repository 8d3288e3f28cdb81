CONSTANTS
  None = None
  BufSize = 2
  MaxSize = 5
  RecSize = {1, 3}
SPECIFICATION Spec
INVARIANTS EofWritesAll
CHECK_DEADLOCK FALSE
