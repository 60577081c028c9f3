CONSTANTS
  Hosts = {h1}
  Workers = {w1}
  Pingers = {p1}
  Operators = {}
  FailThreshold = 1
  RecoveryThreshold = 2
  MaxChanges = 0
  NoHost = NoHost
CHECK_DEADLOCK FALSE
SPECIFICATION Spec
INVARIANT OutageHasAlert
