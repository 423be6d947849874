SPECIFICATION SlabSpec
CONSTANTS
  Classes <- TwoClasses
  N = 4
  MaxSlabs = 2
INVARIANTS
  NoWaste
CHECK_DEADLOCK FALSE
