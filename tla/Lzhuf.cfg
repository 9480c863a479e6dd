CONSTANTS
  NumCodes = 5
  MaxFreq = 11
  RingSize = 32
  MaxMatch = 5
  Threshold = 2
  Bytes = 2
  Space = 1
  OffsetRuns <- MCRuns
  MinOffsetLen = 2
  LowBits = 2
  Inputs <- MCInputs
  Short = 7
  Long = 70
SPECIFICATION Spec
CHECK_DEADLOCK FALSE
INVARIANTS
  ReadsBack
  TreesAgree
  LongestMatch
