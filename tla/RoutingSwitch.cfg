SPECIFICATION Spec
CONSTANTS
  ConnId = {c1, c2}
  NoConn = NoConn
  Button = {b}
  Key = {}
  NoInput = NoInput
  Point = {p}
  ChanCap = 2
  WireCap = 2
  HookOverflow = TRUE
SYMMETRY Conns
INVARIANTS TypeOK NoGhostInput PassThrough
PROPERTIES BracketedInput NoSpuriousUp
CHECK_DEADLOCK FALSE
