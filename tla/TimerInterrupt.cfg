SPECIFICATION Spec
CONSTANTS
  MaxTime = 2
  TargetStatuses <- MCTargetStatuses
INVARIANT InterruptedIsKilled
