CONSTANTS
  a = a
  b = b
  single = single
  range = range
  Hosts = {a, b}
  Cidrs = {single, range}
  Covers <- MCCovers
  Handlers = {x1}
  Files = {}
  MaxOps = 2
  MayRestart = FALSE
  Absent = Absent
  Static = Static
  Sweeper = Sweeper
  Boot = Boot
  Nobody = Nobody
SYMMETRY Symmetry
CHECK_DEADLOCK FALSE
SPECIFICATION Spec
INVARIANT DeletedCidrUnmonitored
