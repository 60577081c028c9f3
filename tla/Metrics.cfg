CONSTANTS
  h1 = h1
  h2 = h2
  Hosts = {h1, h2}
  None = None
  Minute = 2
  Hour = 4
  Grace = 1
  Retention = 5
  Limits = {1, 2}
  MaxLate = 1
  MaxTime = 10
  MaxSamples = 6
  MaxChanges = 2
SYMMETRY HostSymmetry
SPECIFICATION Spec
INVARIANTS EverySampleOnce HoursComplete LeastRecentGoFirst GhostsAreCleared
CHECK_DEADLOCK FALSE
