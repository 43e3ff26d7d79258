SPECIFICATION Spec
CONSTANTS
  Devices = {d1, d2}
  Files = {f1, f2, f3}
  MaxAttempts = 2
  MaxVersions = 3
  MaxFaults = 0
INVARIANTS LocalEditIsKept
CHECK_DEADLOCK FALSE
