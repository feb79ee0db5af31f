SPECIFICATION MutexFairSpec
CONSTANTS
  ConnId = {c1}
  Loop = Loop
  Watcher = Watcher
  Nobody = Nobody
  Closed = Closed
  Buffer = 1
CHECK_DEADLOCK FALSE
PROPERTIES GivenUpIsReleased
