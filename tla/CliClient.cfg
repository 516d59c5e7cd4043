SPECIFICATION CliSpec
CONSTANTS
  MaxFrame = 1
  Newline <- MCNewline
  HeartbeatInterval = 1
  HeartbeatTimeout = 2
  MaxReconnectDelay = 1
  MaxLocalCopies = 2
  MaxRelays = 1
  MaxFaults = 1
CHECK_DEADLOCK FALSE
PROPERTIES FramesInOrder ComesBack CopyArrives
