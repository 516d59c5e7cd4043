CONSTANTS
  s1 = s1
  s2 = s2
  f1 = f1
  Session = {s1, s2}
  Fd = {f1}
  NoSession = NoSession
  NoFd = NoFd
  MaxConnections = 2
  MaxHandshakes = 1
  QueueLimit = 1
  TlsEnabled = TRUE
SPECIFICATION FairSpec
PROPERTY MainReturns
PROPERTY ClosingSessionFinishes
