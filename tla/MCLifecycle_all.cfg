SPECIFICATION FairSpec
CONSTANTS
  Configs <- AllConfigs
  MaxStarts = 4
INVARIANTS
  RestartsBounded
  NoStray
  TargetLive
PROPERTIES
  ShutdownEnds
  CrashNoticed
  FlagFollows
  ImplementsContract
CHECK_DEADLOCK FALSE
