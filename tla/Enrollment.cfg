CONSTANTS
  a = a
  b = b
  single = single
  range = range
  Hosts = {a, b}
  Cidrs = {single, range}
  Covers <- MCCovers
  Handlers = {x1, x2}
  Files <- MCFiles
  MaxOps = 4
  MayRestart = TRUE
  Absent = Absent
  Static = Static
  Sweeper = Sweeper
  Boot = Boot
  Nobody = Nobody
SYMMETRY Symmetry
CHECK_DEADLOCK FALSE
SPECIFICATION Spec
INVARIANTS EngineMatchesStore SingleTargetsMonitored PromotedStaysMonitored
