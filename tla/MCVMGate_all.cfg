SPECIFICATION FairSpec
CONSTANTS
  c1 = c1
  c2 = c2
  c3 = c3
  Free = Free
  Callers = {c1, c2, c3}
  Blockers = {c1}
  RouteSets <- SomeRoutes
INVARIANTS
  ChainExclusiveVM
  NodesAdmitted
  NobodyStuck
PROPERTIES
  CallbackRuns
  ResumeReturns
  ImplementsAccess
