CONSTANTS
  SweepCidrs = {c1, c2}
  Runners = {r1, r2}
  MaxSettings = 2
CHECK_DEADLOCK FALSE
SPECIFICATION FairSpec
INVARIANT NoStrandedRequest
PROPERTIES RequestServed FullSweepHappens DiscoveryStops
