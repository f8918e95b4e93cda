SPECIFICATION FairSpec
CONSTANTS
  a = a
  b = b
  Dir = Dir
  Logs = {a, b}
  Configs <- AllConfigs
  MaxChunks = 3
  MaxStarts = 2
  MaxFaults = 1
INVARIANTS
  Kept
  ArchiveOrder
  WakeupKept
PROPERTIES
  RetentionKept
  CrossingSeen
CHECK_DEADLOCK FALSE
