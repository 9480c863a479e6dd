CONSTANTS
  Methods = {"lh0", "lh1", "lh2", "lh3", "lh4", "lh5", "lh6", "lh7", "lzs", "lz5", "lz4",
             "pm1", "lhd", "lz2", "lhx"}
  Ring <- MCRing
  Good <- MCGood
  MaxMatch = 6
  Threshold = 3
  Bytes = 2
  Space = 1
  LenCodes <- MCLenCodes
  DistGroups <- MCDistGroups
  DistTable <- MCDistTable
  PerExtra = 1
  LzWindow <- MCLzWindow
  LzMax <- MCLzMax
  LowRange = 8
  LenRange = 4
  TopFlag = 4
  Margin <- MCMargin
  TableBytes = 4
  Spares = {1, 12}
  Inputs <- MCInputs
  Short = 8
  Long = 48
SPECIFICATION Spec
CHECK_DEADLOCK FALSE
INVARIANTS
  CursorSafe
  ReadsBack
PROPERTIES
  CallEnds
