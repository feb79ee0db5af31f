SPECIFICATION FairSpec
CONSTANTS
  ConnId = {c1, c2}
  Loop = Loop
  Watcher = Watcher
  Nobody = Nobody
  Closed = Closed
  Buffer = 1
CHECK_DEADLOCK FALSE
INVARIANTS TypeOK SendsToRegistered
PROPERTIES ShutdownDrains
