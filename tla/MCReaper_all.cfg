SPECIFICATION FairSpec
CONSTANTS
  h1 = h1
  h2 = h2
  o1 = o1
  g1 = g1
  p1 = p1
  p2 = p2
  p3 = p3
  None = None
  Handles = {h1, h2}
  Probes = {o1}
  Orphans = {}
  Pids = {p1, p2, p3}
  PidMaps <- Distinct
  Codes = {0, 1}
  MaxOutput = 1
INVARIANTS
  NothingForgotten
PROPERTIES
  DoneFollowsExit
  NoZombieStays
  ImplementsProcess
CHECK_DEADLOCK FALSE
