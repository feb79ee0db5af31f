SPECIFICATION RouterSpec
CONSTANTS
  c1 = c1
  c2 = c2
  ConnId = {c1}
  NoConn = NoConn
  Button = {}
  Key = {}
  NoInput = NoInput
  ChanCap = 1
  WireCap = 2
  HookOverflow = TRUE
  Hysteresis = 1
  Settle = 1
  Name <- OneName
  NameOf <- OneNamed
  FirstLayout <- Tiny
  HostLayouts <- TinyWider
  ClientLayouts <- SmallOrTwo
  Spots <- TwoSpots
  SavedPlacements <- NoPlacements
  Moves <- NotLeft
  Point <- TinyPixels
CHECK_DEADLOCK FALSE
INVARIANTS PlacedWhereAsked
PROPERTIES ReleaseIsDeliberate PushCrosses ImplementsInputRouting
