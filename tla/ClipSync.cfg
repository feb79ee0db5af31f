SPECIFICATION Spec
CONSTANTS
  Server = Server
  a = a
  b = b
  text = text
  picture = picture
  Client = {a, b}
  Linux = {a}
  Item = {text, picture}
  Picture = {picture}
  Nothing = Nothing
  First <- TextOnB
  MaxSession <- OneAndTwo
  MaxActs = 2
  Gui = {Server}
  Capacity = 2
  WriteMayFail = TRUE
  ReadMayFail = TRUE
  Prompt = TRUE
  Patient = TRUE
CHECK_DEADLOCK FALSE
INVARIANTS TypeOK   HistoriesKept StaleIdsSafe
PROPERTIES SendsOnlyNews
