CONSTANTS
  quiet = quiet
  noisy = noisy
  Hosts <- MCHosts
  OldHistories <- MCOldHistories
  MaxHistory = 3
  MaxPerHost = 2
  MaxChanges = 3
  MaxFailures = 2
  MaxStarts = 3
  NoAlert = NoAlert
  NoFile = NoFile
CHECK_DEADLOCK FALSE
SPECIFICATION FairSpec
INVARIANTS SavedIsOnDisk StopSaves
PROPERTIES NoisyHostHarmless RestartRestores ChangesAreSaved
