SPECIFICATION Spec
CONSTANTS
  Requests <- MCRequests
  MaxOps = 4
  Pool <- MCPool
  Registers = {0, 1, 9}
  Slots = {16, 24}
  ChunkBase = 2
  BranchReach = 4
  CondReach = 2
  AdrReach = 8
  LitReach = 16
CHECK_DEADLOCK FALSE
INVARIANTS
  TypeOK
  CodePreserved
  BranchesReach
