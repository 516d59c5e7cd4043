CONSTANTS
  s1 = s1
  s2 = s2
  f1 = f1
  f2 = f2
  Session = {s1, s2}
  Fd = {f1, f2}
  NoSession = NoSession
  NoFd = NoFd
  MaxConnections = 2
  MaxHandshakes = 1
  QueueLimit = 1
  TlsEnabled = TRUE
SPECIFICATION Spec
SYMMETRY Symmetry
CONSTRAINT TwoCalls
INVARIANT TypeOK
INVARIANT DescriptorsOwned
INVARIANT SlotsAccounted
INVARIANT NoSessionLost
INVARIANT NoStrandedMessage
INVARIANT RouterHandlesLive
INVARIANT StopLeavesNothing
