CONSTANTS
  Hosts = {h1}
  Workers = {w1, w2}
  Pingers = {p1}
  Operators = {o1}
  FailThreshold = 2
  RecoveryThreshold = 1
  MaxChanges = 3
  NoHost = NoHost
SYMMETRY Symmetry
CHECK_DEADLOCK FALSE
SPECIFICATION Spec
INVARIANT UpHasNoAlert
PROPERTIES RebuildClosesAlerts AckHolds
