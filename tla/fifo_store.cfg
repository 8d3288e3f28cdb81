SPECIFICATION Spec
CONSTANTS
  Key <- MCKey
  Recovered <- MCRecovered
  Val = {1, 2}
  Client = {c1, c2}
  Main = Main
  None = None
  BufLen = 10
  MaxMemory = 1300
  IntRange = 1400
  MaxRequests = 3
SYMMETRY Symmetry
CHECK_DEADLOCK FALSE
INVARIANTS TypeOK TableCounted UsedMemoryExplained
PROPERTY GetReturnsLastSet
