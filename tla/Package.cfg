SPECIFICATION Spec
CONSTANTS
  Tag <- MCTag
  BufLen = 16
  LineMax = 16
  NAME = "n"
  Assign <- MCAssign
  ShortSuffixes = {"exe"}
  Spaced <- MCSpaced
  MaxFiles = 4
  MaxReqs = 2
  ManifestMax = 10
  Cases <- MCCases
  Drafts <- MCDrafts
  MaxEdits = 1
  MaxMishaps = 2
CHECK_DEADLOCK FALSE
INVARIANTS
  LeavesWholeOrNothing
  LoadsAsAWhole
  InstallsWhatFits
PROPERTIES
  NoDowngrade
