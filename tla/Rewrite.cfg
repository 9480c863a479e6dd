SPECIFICATION Spec
CONSTANTS
  a = a
  b = b
  x = x
  Empty = Empty
  Garbage = Garbage
  Mark = Mark
  NoFile = NoFile
  Names = {a, b}
  Bodies = {x}
  InitFiles <- MCInitFiles
  Additions <- MCAdditions
  MaxPieces = 4
  MaxMishaps = 2
INVARIANT
PROPERTIES
  KeepsTheRest
  OkMeansGone
  FailureKeepsArchive
  AddedIsReadable
