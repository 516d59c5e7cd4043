CONSTANTS
  s1 = s1
  f1 = f1
  Session = {s1}
  Fd = {f1}
  NoSession = NoSession
  NoFd = NoFd
  MaxConnections = 2
  MaxHandshakes = 1
  QueueLimit = 1
  TlsEnabled = TRUE
SPECIFICATION FairSpec
PROPERTY StopJoinsEveryThread
