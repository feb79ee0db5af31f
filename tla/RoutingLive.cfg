SPECIFICATION FairSpec
CONSTANTS
  ConnId = {c1, c2}
  NoConn = NoConn
  Button = {}
  Key = {k}
  NoInput = NoInput
  Point = {p}
  ChanCap = 1
  WireCap = 2
  HookOverflow = FALSE
PROPERTIES Relinquished LetGo
CHECK_DEADLOCK FALSE
