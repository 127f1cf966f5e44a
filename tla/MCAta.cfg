SPECIFICATION Spec
CONSTANTS
  c1 = c1
  c2 = c2
  boot = boot
  Client = {c1, c2}
  Boot = boot
  Kind <- MCKind
  Sectors = 4
  PageSectors = 2
  CountMod = 2
  LbaMod = 4
  TestSector = 2
  Requests <- MCRequests
  Data <- MCData
  MaxCalls = 2
  MaxErrors = 1
CHECK_DEADLOCK FALSE
INVARIANTS
  SectorsMoved
PROPERTIES
  OnlyAsked
  RequestsEnd
