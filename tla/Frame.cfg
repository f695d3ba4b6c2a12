SPECIFICATION Spec
CONSTANTS
  Calls <- MCCalls
  MaxFrame = 8192
  MaxStack = 64
CHECK_DEADLOCK FALSE
INVARIANTS
  TypeOK
  FrameDisjoint
  LocalsKept
  ArgsArrive
  VaArgs
  ReturnReaches
