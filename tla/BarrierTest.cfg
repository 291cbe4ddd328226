SPECIFICATION Spec
CONSTANTS
  ntasks = 3
  niters = 4
INVARIANTS
  TypeOK
  CountInStep
  OneIncrements
  PassMeansAll
PROPERTIES
  Passes

