SPECIFICATION FairSpec
CONSTANTS
  m1 = m1
  m2 = m2
  Managers <- OneManager
  ServerMode = FALSE
  MaxRunners = 3
  MaxPicks = 1
  MaxBeats = 1
  MaxRequests = 1
  MaxCrashes = 1
PROPERTIES FirstLaunchServed TimerServed
CHECK_DEADLOCK FALSE
