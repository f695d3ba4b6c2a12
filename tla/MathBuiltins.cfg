SPECIFICATION Spec
CONSTANTS
  DoubleFmt <- MCDouble
  FloatFmt <- MCFloat
  LongMax = 63
CHECK_DEADLOCK FALSE
INVARIANTS
  Classified
  RoundNearest
