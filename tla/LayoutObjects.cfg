SPECIFICATION Spec
CONSTANTS
  Programs <- SmallPrograms
  HelperWords = 11
  LoadBase = 4194304
  HdrEnd = 288
  PageSize = 4096
CHECK_DEADLOCK FALSE
INVARIANTS
  ObjectsDisjoint
