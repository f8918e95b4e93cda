SPECIFICATION Spec
CONSTANTS
  a = a
  b = b
  Dir = Dir
  Logs = {a, b}
  Configs <- Compressing
  MaxChunks = 3
  MaxStarts = 2
  MaxFaults = 0
INVARIANTS
  ReopenLossless
CHECK_DEADLOCK FALSE
