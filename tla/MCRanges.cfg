SPECIFICATION Spec
CONSTANTS
  MaxAddress = 7
  MaxPushes = 2
  Alignment = 4
INVARIANTS SortedAndComplete Difference LoopSubtracts
CHECK_DEADLOCK FALSE
