SPECIFICATION Spec
CONSTANTS
  Names = {"main", "init", "f", "g", "write"}
  Main = "main"
  StdioInit = "init"
  Helpers = {"write"}
  CmdLines <- MCLines
CHECK_DEADLOCK FALSE
INVARIANTS
  TypeOK
  PullClosed
  WinnerPrecedence
  DuplicateIffError
  OneAddress
  NoMissedDefinition
  CommonCovers
  OutputWhole
PROPERTIES
  PullOnDemand
  Termination
