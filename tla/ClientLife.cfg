SPECIFICATION LifeSpec
CONSTANTS
  Input = {b}
  NoInput = NoInput
  Clipboard = TRUE
  ErrCap = 2
  MaxLayout = 3
  Nobody = Nobody
  Byte = 4
  MaxMonitors = 2
  MaxFrameSize = 100
  MaxControlFrameSize = 70
  MaxClipboardData = 81
  Sample <- Messages
INVARIANTS TypeOK NothingLatched RoundTrip ClipboardFits HandshakeAgrees
PROPERTIES UpdatesReachServer SessionEnds 
CHECK_DEADLOCK FALSE
