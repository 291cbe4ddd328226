SPECIFICATION Spec
CONSTANTS
  MaxTime = 2
  TargetStatuses <- MCTargetStatuses
INVARIANTS
  TypeOK
  PassIsEarned
  
  NoOrphan
  NotEarly
PROPERTIES
  TimeoutEnds
  HangIsTimedOut
