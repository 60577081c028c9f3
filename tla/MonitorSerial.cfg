CONSTANTS
  Hosts = {h1, h2}
  Workers = {w1}
  Pingers = {}
  Operators = {}
  FailThreshold = 2
  RecoveryThreshold = 2
  MaxChanges = 2
  NoHost = NoHost
CHECK_DEADLOCK FALSE
SPECIFICATION FairSpec
INVARIANTS DownHasAlert FlagMatchesAlert
PROPERTY ConfigurationApplied
