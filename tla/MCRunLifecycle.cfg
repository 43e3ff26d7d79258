SPECIFICATION Spec
CONSTANTS
  m1 = m1
  m2 = m2
  Managers <- OneManager
  ServerMode = FALSE
  MaxRunners = 3
  MaxPicks = 1
  MaxBeats = 2
  MaxRequests = 2
  MaxCrashes = 1
INVARIANTS IInv RunningIsAttended
PROPERTIES TerminalForever LiveLeaseRespected WaitSurvivesReconciliation
CHECK_DEADLOCK FALSE
