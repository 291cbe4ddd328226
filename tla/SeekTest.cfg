SPECIFICATION Spec
CONSTANTS
  ntasks = 3
  niters = 2
INVARIANTS
  FileInOrder
  OwnRecord
  PassMeansAll
PROPERTIES
  Passes
