SPECIFICATION FairSpec
CONSTANTS
  a = a
  b = b
  c = c
  NoError = NoError
  Nodes = {a, b, c}
  Chains <- AllChains
INVARIANTS
  NoEarlyStart
  NoOrphan
  RunError
  ActiveCount
  InitThenExec
PROPERTIES
  ImplementsContract
  ShutdownReturns
  DrainedLeaves
CHECK_DEADLOCK FALSE
