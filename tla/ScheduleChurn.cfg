CONSTANTS
  h1 = h1
  h2 = h2
  h3 = h3
  Hosts = {h1, h3}
  Workers = {w1, w2}
  Phase <- MCPhase
  PhaseDen = 4
  Intervals = {4}
  DownInterval = 0
  ConfirmDelay = 0
  Spread = 2
  Timeout = 1
  Cycle = 4
  MaxLate = 1
  MaxChanges = 2
  MayPing = FALSE
  MayStop = FALSE
  NoHost = NoHost
SPECIFICATION FairSpec
INVARIANTS NoHostForgotten NoLostWakeup
PROPERTIES AnsweringHostsOnTime HostsKeepBeingProbed
