SPECIFICATION Spec
CONSTANTS
  m1 = m1
  m2 = m2
  Managers <- TwoManagers
  ServerMode = TRUE
  MaxRunners = 2
  MaxPicks = 1
  MaxBeats = 1
  MaxRequests = 1
  MaxCrashes = 1
SYMMETRY ManagerSymmetry
INVARIANTS AtMostOneWorker OwnerIsAssigned ParkedIsReleased
PROPERTIES ImplementsExclusiveRun
CHECK_DEADLOCK FALSE
