SPECIFICATION Spec
CONSTANTS
  Keys = {k1, k2}
  Vals = {v1, v2}
  None = None
  Empty = Empty
  Junk = Junk
  RecsPerFile = 2
  MaxFiles = 3
  MaxSets = 3
SYMMETRY Symmetry
CHECK_DEADLOCK FALSE
INVARIANTS TypeOK CreatesNewFiles IndexLeadsHome NothingForgotten ServesWritten
PROPERTIES FilesOnlyGrow
