SPECIFICATION Spec
CONSTANTS
  Ints <- MCInts
  Chars <- MCChars
  Strings <- MCStrings
  Formats <- MCFormats
  Sizes <- MCSizes
  LongMax = 127
  BufLen = 5
  BufSize = 4
  MemLen = 6
  MaxCalls = 2
  MaxReads = 3
  MaxShort = 1
CHECK_DEADLOCK FALSE
INVARIANTS
  BufferBound
  RoundTrip
PROPERTIES
  ImplementsStream
  FormatFits
  InputReturns
