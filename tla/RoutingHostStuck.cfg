SPECIFICATION Spec
CONSTANTS
  ConnId = {c1}
  NoConn = NoConn
  Button = {b}
  Key = {}
  NoInput = NoInput
  Point = {p}
  ChanCap = 2
  WireCap = 2
  HookOverflow = FALSE
INVARIANTS HostNotStuck
CHECK_DEADLOCK FALSE
