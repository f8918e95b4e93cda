SPECIFICATION Spec
CONSTANTS
  c1 = c1
  c2 = c2
  c3 = c3
  Free = Free
  Callers = {c1}
  Blockers = {}
  RouteSets <- OneRoute
INVARIANTS
  ExclusiveVM
