CONSTANTS
  Hosts = {h1}
  Workers = {w1}
  Pingers = {}
  Operators = {}
  FailThreshold = 2
  RecoveryThreshold = 1
  MaxChanges = 1
  NoHost = NoHost
CHECK_DEADLOCK FALSE
SPECIFICATION Spec
INVARIANT UnmonitoredHasNoAlert
