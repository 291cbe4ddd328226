SPECIFICATION Spec
CONSTANTS
  Modes <- MCModes
  MaxIter = 2
  MaxTime = 2
  MaxLoops = 3
  Statuses <- MCStatuses
INVARIANT StopsOnError
CHECK_DEADLOCK FALSE
