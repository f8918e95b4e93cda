SPECIFICATION Spec
CONSTANTS
  a = a
  b = b
  c = c
  NoError = NoError
  Nodes = {a, b, c}
  Chains <- SkippedOneshot
INVARIANTS
  NobodyStranded
CHECK_DEADLOCK FALSE
