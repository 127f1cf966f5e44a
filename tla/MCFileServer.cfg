SPECIFICATION Spec
CONSTANTS
  p1 = p1
  p2 = p2
  Proc = {p1, p2}
  BlockSize = 15
  PageSize = 30
  WordBits = 17
  TotalBlocks = 17
  BlocksPerGroup = 17
  TotalInodes = 6
  InodesPerGroup = 6
  NDirect = 3
  DescBlock = 1
  RingSize = 16
  WordMod = 32
  MaxName = 4
  MaxOpens = 2
  MaxReads = 2
  MaxSent = 9
  Junk = 999
  Disk <- MCDisk
  Opens <- MCOpens
  ReadSizes <- MCReadSizes
  Writes <- MCWrites
CHECK_DEADLOCK FALSE
INVARIANTS
  OpensRight
  ReadsFile
  ListsAll
  WritesLand
PROPERTIES
  OthersUntouched
  BlocksStay
  CallsReturn
