SPECIFICATION Spec
CONSTANTS
  MaxTime = 2
  TargetStatuses <- MCTargetStatuses
PROPERTY TimeoutKills
