CONSTANTS
  h1 = h1
  h2 = h2
  h3 = h3
  Hosts = {h3}
  Workers = {w1, w2}
  Phase <- MCPhase
  PhaseDen = 4
  Intervals = {2, 4}
  DownInterval = 4
  ConfirmDelay = 1
  Spread = 2
  Timeout = 1
  Cycle = 4
  MaxLate = 2
  MaxChanges = 2
  MayPing = TRUE
  MayStop = TRUE
  NoHost = NoHost
SPECIFICATION FairSpec
INVARIANT SlotsKept
PROPERTIES NoBurst StopCompletes
CHECK_DEADLOCK FALSE
