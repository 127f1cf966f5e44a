SPECIFICATION RingSpec
CONSTANTS
  Byte <- MCByte
  Size = 3
  WordMod = 16
  MaxReq = 3
INVARIANTS
  VettedTransferComplete
PROPERTIES
  IsFifo
  TransfersReturn
