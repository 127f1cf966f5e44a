SPECIFICATION Spec
CONSTANTS
  MaxBucket = 2
  Header = 1
  MaxSize = 4
  MaxChunks = 2
INVARIANTS
  HeapIntact
  BlockFits
PROPERTIES
  IsRegionAlloc
  FreedBlockIsMerged
