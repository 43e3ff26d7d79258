SPECIFICATION Spec
CONSTANTS
  m1 = m1
  m2 = m2
  Managers <- OneManager
  ServerMode = TRUE
  MaxRunners = 3
  MaxPicks = 1
  MaxBeats = 2
  MaxRequests = 1
  MaxCrashes = 1
PROPERTIES DelayedRetryLaunches
CHECK_DEADLOCK FALSE
