SPECIFICATION FairSpec
CONSTANTS
  f1 = f1
  Jobs <- AllJobs
  Firers = {f1}
  Period = 2
  MinInterval = 2
  InitialDelay = 1
  MaxTime = 4
  MaxRetries = 1
INVARIANTS
  SlotHeld
  TickContained
  LateRefused
PROPERTIES
  Spaced
  ShutdownEnds
  ImplementsSchedule
CHECK_DEADLOCK FALSE
