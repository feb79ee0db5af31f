SPECIFICATION RouterSpec
CONSTANTS
  c1 = c1
  c2 = c2
  ConnId = {c1, c2}
  NoConn = NoConn
  Button = {}
  Key = {}
  NoInput = NoInput
  ChanCap = 2
  WireCap = 2
  HookOverflow = TRUE
  Hysteresis = 1
  Settle = 1
  Name <- Names
  NameOf <- Named
  FirstLayout <- Wide
  HostLayouts <- NoLayouts
  ClientLayouts <- Small
  Spots <- NoSpots
  SavedPlacements <- SideBySide
  Moves <- Sideways
  Point <- WidePixels
CHECK_DEADLOCK FALSE
INVARIANTS RouterTypeOK  
PROPERTIES NoInstantRegrab
