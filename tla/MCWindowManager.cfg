SPECIFICATION Spec
CONSTANTS
  one = one
  two = two
  Client <- MCClient
  Width = 4
  WinWidth = 2
  Border = 1
  Cursor = 1
  MaxUpdates = 4
  MouseEvents <- MCMouseEvents
  MaxMouse = 2
  MaxKeys = 1
SYMMETRY MCSymmetry
CHECK_DEADLOCK FALSE
INVARIANTS
  WindowsKept
  Shown
