SPECIFICATION Spec
CONSTANTS
  p1 = p1
  p2 = p2
  Proc = {p1}
  BlockSize = 15
  PageSize = 30
  WordBits = 17
  TotalBlocks = 17
  BlocksPerGroup = 17
  TotalInodes = 6
  InodesPerGroup = 6
  NDirect = 3
  DescBlock = 1
  RingSize = 62
  WordMod = 64
  MaxName = 4
  MaxOpens = 2
  MaxReads = 2
  MaxSent = 0
  Junk = 999
  Disk <- MCDisk
  Opens <- OneOpens
  ReadSizes <- MCReadSizes
  Writes <- GrowWrites
CHECK_DEADLOCK FALSE
PROPERTIES
  BlocksStay
