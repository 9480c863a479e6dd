SPECIFICATION Spec
CONSTANTS
  Added <- MCAdded
  Foreign <- MCForeign
  MaxEntries = 2
INVARIANTS
  ShowsWhatWasMeant
PROPERTIES
  StopsOnlyThere
  RewriteKeeps
