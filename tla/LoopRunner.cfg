SPECIFICATION Spec
CONSTANTS
  Modes <- MCModes
  MaxIter = 2
  MaxTime = 2
  MaxLoops = 3
  Statuses <- MCStatuses
INVARIANTS
  NoModeErrors
  EndReason
PROPERTIES
  IterationsEnd
\* an endless loop is cut at MaxLoops
CHECK_DEADLOCK FALSE
