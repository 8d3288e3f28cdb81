CONSTANTS
  None = None
  Key = {k1, k2, k3}
  MaxUses = 6
SPECIFICATION Spec
INVARIANTS RecencyOrder DanglesUntilErased
PROPERTIES EvictsLeastRecent
CHECK_DEADLOCK FALSE
