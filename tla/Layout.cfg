SPECIFICATION HeapSpec
CONSTANTS
  Programs <- MCPrograms
  HelperWords = 11
  LoadBase = 4194304
  HdrEnd = 288
  PageSize = 4096
  Increments <- MCIncrements
  HeapLimit = 40
  AddrMax = 8388607
  MaxSbrk = 3
CHECK_DEADLOCK FALSE
INVARIANTS
  TypeOK
  StorageDisjoint
  SlotsAligned
  SegmentsLoadable
  HeapApart
