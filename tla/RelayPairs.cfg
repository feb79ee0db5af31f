SPECIFICATION FairPoolSpec
CONSTANTS
  w1 = w1
  w2 = w2
  k1 = k1
  Conn <- Names
  Server <- OfWorkers
  NoConn = NoConn
  Worker = {w1, w2}
  Client = {k1}
  Owner <- OwnerOf
  PairTTL = 7
  Patience = 4
  FirstRest = 1
  RestCap = 3
  Lossy = {k1}
CHECK_DEADLOCK FALSE
INVARIANTS QueueIsFresh MatesMatchPlace BacklogIsBounded
PROPERTIES ImplementsRendezvous NothingLingers
