SPECIFICATION ScreenSpec
CONSTANTS
  Size = 3
  CharMod = 3
  ReadSizes = {1, 2}
  MaxKeys = 5
  MaxBurst = 1
  Width = 3
  Height = 2
  MaxOut = 2
INVARIANTS
  ScreenTypeOK
  NothingLost
  EraseInLine
  CursorOnScreen
  EchoIsLine
PROPERTIES
  WholeLines
  LineIsRead
