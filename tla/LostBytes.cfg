CONSTANTS
  Methods = {"lh5"}
  Ring <- MCRing
  Good <- MCGood
  MaxMatch = 6
  Threshold = 3
  Bytes = 2
  Space = 1
  LenCodes <- MCLenCodes
  DistGroups <- MCDistGroups
  DistTable <- MCDistTable
  PerExtra = 1
  LzWindow <- MCLzWindow
  LzMax <- MCLzMax
  LowRange = 8
  LenRange = 4
  TopFlag = 4
  Margin <- MCMargin
  TableBytes = 4
  Spares = {1, 12}
  Inputs <- MCInputs
  Short = 9
  Long = 48
SPECIFICATION Spec
CHECK_DEADLOCK FALSE
INVARIANTS
  EveryByteSent
