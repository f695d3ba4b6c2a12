SPECIFICATION Spec
CONSTANTS
  Cases <- MCCases
  Past = {"x", "1"}
  LongMax = 127
  FracCap = 2
INVARIANTS
  EOFMeansNoConversion
