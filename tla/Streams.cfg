CONSTANTS
  c1 = c1
  c2 = c2
  b1 = b1
  Clients = {c1, c2}
  Casters = {b1}
  Heart = Heart
  Room = 2
  MaxStreams = 2
  MaxChanges = 1
  MaxBeats = 4
SPECIFICATION FairSpec
PROPERTIES ChangesReachClients StreamsEnd
INVARIANTS NoPanic NothingMissedSilently
