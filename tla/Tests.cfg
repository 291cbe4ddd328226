SPECIFICATION Spec
CONSTANTS
  ntasks = 3
  niters = 2
INVARIANTS
  TypeOK
  NoSpuriousFailure
  FaultDetected
  FirstFailure
  OneToken
  NoLostUpdate
  OwnerOutlives
PROPERTY ComesToAnEnd
CHECK_DEADLOCK FALSE
