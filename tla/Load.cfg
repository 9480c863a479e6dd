SPECIFICATION Spec
CONSTANTS
  a = a
  b = b
  a1 = a1
  a2 = a2
  b2 = b2
  c2 = c2
  None = None
  Junk = Junk
  Dests = {a, b}
  Bodies = {a1, a2, b2, c2}
  Version <- MCVersion
  Installed <- MCInstalled
  Packages <- MCPackages
  MinutesPerDay = 3
  DayWrap = 1
  MinuteWrap = 1
  Seqs = 3
  MaxClock = 1
  MaxMishaps = 2
INVARIANTS
  Recoverable
  FragmentsAreCovered
PROPERTIES
  BackupsAreKept
  FailureRestores
  OkMeansInstalled
