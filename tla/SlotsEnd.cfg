SPECIFICATION Spec
CONSTANTS
  nt = 2
  MaxIters = 3
  Blocks = {b1, b2}
  NULL = NULL
  Kinds = {"malloc", "realloc", "memalign"}
PROPERTY AllEnd
CHECK_DEADLOCK FALSE
