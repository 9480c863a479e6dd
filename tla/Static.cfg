CONSTANTS
  W = 5
  Bytes = 2
  NC = 6
  Threshold = 3
  DicBit = 3
  NP = 4
  CBit = 3
  TBit = 4
  PBit = 3
  CTableBits = 3
  PtTableBits = 2
  LenBits = 2
  Special = 3
  RunBits = 1
  RunBase = 2
  FarBase = 4
  Space = 1
  Files <- MCFiles
SPECIFICATION Spec
CHECK_DEADLOCK FALSE
INVARIANTS
  ReadsBack
