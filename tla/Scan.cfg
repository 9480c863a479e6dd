CONSTANTS
  x = x
  y = y
  NoName = NoName
  Names <- AllNames
  Chunks = {x, y}
  IconBase <- MCIcons
  InitDisks <- MCDisks
  Additions <- MCAdditions
  LockIds = {1}
  MaxEntries = 3
  MaxChanges = 2
  MaxMishaps = 1
SPECIFICATION Spec
CHECK_DEADLOCK FALSE
INVARIANTS
  ListsEachOnce
  NothingMissed
  RenameKeepsOthers
PROPERTIES
  RenameMovesAll
  ListingsEnd
