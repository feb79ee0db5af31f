SPECIFICATION ApartSpec
CONSTANTS
  ConnId = {c1}
  Loop = Loop
  Watcher = Watcher
  Nobody = Nobody
  Closed = Closed
  Buffer = 1
  MaxLayout = 3
  Room = 1
CHECK_DEADLOCK FALSE
INVARIANTS NothingForgotten
PROPERTIES EverythingMoves LayoutArrives
