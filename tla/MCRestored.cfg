SPECIFICATION Spec
CONSTANTS
  Devices = {d1, d2}
  Files = {f1, f2}
  MaxAttempts = 2
  MaxVersions = 3
  MaxFaults = 0
INVARIANTS RestoredIsPushed
CHECK_DEADLOCK FALSE
