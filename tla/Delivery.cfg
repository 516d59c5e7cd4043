CONSTANTS
  s1 = s1
  s2 = s2
  Session = {s1, s2}
  Server = Server
  Size = {1, 2}
  QueueLimit = 2
  MaxFrames = 3
SPECIFICATION FairSpec
CHECK_DEADLOCK FALSE
INVARIANT BudgetExact
INVARIANT RecordedFirst
PROPERTY ImplementsPubSub
PROPERTY EveryEventArrives
