SPECIFICATION SyncFairSpec
CONSTANTS
  p1 = p1
  p2 = p2
  p3 = p3
  Peer = {p1, p2, p3}
  Assignment <- Mixes
  Nobody = Nobody
  MaxCopies = 2
  MaxTail = 1
  MaxInFlight = 1
CHECK_DEADLOCK FALSE
INVARIANTS Converges
PROPERTIES ComesToRest
