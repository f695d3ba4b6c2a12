SPECIFICATION Spec
CONSTANTS
  Calls <- VaStartCalls
  MaxFrame = 8192
  MaxStack = 64
CHECK_DEADLOCK FALSE
INVARIANTS
  VaStartFirst
