SPECIFICATION Spec
CONSTANTS
  Names = {"main", "init", "f", "g", "write"}
  Main = "main"
  StdioInit = "init"
  Helpers = {"write"}
  CmdLines <- PullLines
CHECK_DEADLOCK FALSE
PROPERTIES
  FirstResolverWins
