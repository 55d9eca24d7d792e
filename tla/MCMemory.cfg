CONSTANTS
  Size = 9
  BufferBytes = 4
  None = None
  StartAddress <- MCStart
  WordSize <- MCWord
  OverflowChecks = FALSE
  Addresses <- MCAddresses
  Counts <- MCCounts
  MaxCount = 4
  MemorySize = 4
  ByteValues <- MCBytes
  HeapStart = 33
  HeapSize = 16
  Layouts <- MCLayouts
  Null = Null
  ListStart = 40
  ListSize = 96
  ListLayouts <- MCListLayouts
SPECIFICATION MCSpec
INVARIANTS
  TypeOK
  AnswersAreExact
  HeldFramesAreMarked
  ScanIsCorrect
  RoutinesAreExact
  NoAssertionFails
  NothingOverlaps
PROPERTIES
  PoolSpec
  HeapSpec
  ListHeapSpec
  FreedBlockIsReusable
