SPECIFICATION FairSpec
CONSTANTS
  Devices = {d1, d2}
  Files = {f1, f2, f3}
  MaxAttempts = 2
  MaxVersions = 3
  MaxFaults = 1
INVARIANTS HInv HashNeverLies CommittedOnce LostOnlyInRace LagIsExplained
PROPERTIES CommitsOnTop Settles
CHECK_DEADLOCK FALSE
