SPECIFICATION Spec
CONSTANTS
  wm = wm
  forth = forth
  pointer = pointer
  NoClient = NoClient
  Connects <- MCConnects
  Lower <- MCLower
  Upper <- MCUpper
  Modifier = {"shift"}
  Shift = {"shift"}
  Listed = {3, 4}
  Scancodes <- MCScancodes
  Packets <- MCPackets
  MaxKeys = 2
  MaxPackets = 1
  MaxConnects = 2
SYMMETRY MCSymmetry
CHECK_DEADLOCK FALSE
INVARIANTS
  EveryClientEveryEvent
  StreamsDecoded
