SPECIFICATION Spec
CONSTANTS
  nt = 3
  MaxIters = 1
  Blocks = {b1, b2, b3}
  NULL = NULL
  Kinds = {"realloc", "memalign"}
SYMMETRY BlockSymmetry
INVARIANTS
  TypeOK
  HeapSound
  OthersOnly
CHECK_DEADLOCK FALSE
