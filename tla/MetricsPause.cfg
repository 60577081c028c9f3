CONSTANTS
  h1 = h1
  h2 = h2
  Hosts = {h1, h2}
  None = None
  Minute = 2
  Hour = 4
  Grace = 1
  Retention = 6
  Limits = {1, 2}
  MaxLate = 2
  MaxTime = 12
  MaxSamples = 3
  MaxChanges = 0
SYMMETRY HostSymmetry
SPECIFICATION Spec
INVARIANT HoursComplete
CHECK_DEADLOCK FALSE
