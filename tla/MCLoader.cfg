SPECIFICATION ProcessSpec
CONSTANTS
  Pages = 3
  PageSize = 24
  MaxBytes = 48
  Obj = {a, b}
  NoObj = NoObj
  Sizes = {24, 25}
  Space <- MCSpace
  Self = 0
  PageNumbers <- MCPages
  Base = 4
  NoFrame = NoFrame
  Files <- MCFiles
  Calls <- MCCalls
  ProgSize = 20
  MaxSpawns = 2
  MaxSegments = 2
  FramePages = 2
  Window = 8
  StackPage = 10
  BootPage = 11
  BootFrame = BootFrame
  STACK_OFFSET = 22
  ELFMAG = 90
  C4RT_INIT_MAGIC = 91
  Junk = 99
CHECK_DEADLOCK FALSE
INVARIANTS
  NoFalseExhaustion
  ObjectsApart
  ProgramStarts
PROPERTIES
  IsRegionAlloc
  AllocatorUsed
  NothingRemapped
