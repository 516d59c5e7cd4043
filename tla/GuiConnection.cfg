SPECIFICATION FairSpec
CONSTANTS
  Heartbeat = 10
  Timeout = 30
  BaseDelay = 1
  MaxDelay = 30
  MaxAttempt = 5
  MaxDialogs = 2
INVARIANTS AttemptComing StaysDisconnected WatchedInSession
PROPERTY Settles
