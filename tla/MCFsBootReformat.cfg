SPECIFICATION Spec
CONSTANTS
  LastEntry = 2
  MaxFaults = 0
  MaxBoots = 1
INVARIANT NothingToLose
CHECK_DEADLOCK FALSE
