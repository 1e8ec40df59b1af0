CONSTANTS
  a = a
  b = b
  c = c
  long = long
  longCut = longCut
  myApp = myApp
  my = my
  app = app
  empty = empty
  other = other
  MaxRecs = 2
  MaxLast = 2
  Texts <- MCTexts
  NoName = empty
  OtherText = other
  Cut <- MCCut
  Words <- MCWords
  Handlers = {h1, h2}
  Names = {a, b}
  Limits = {0, 1}
  MaxCrashes <- MCThree
  MaxTime <- MCTimeWithLimit
  MaxFaults <- MCOnce
  MaxBadWrites <- MCWithLimit
  MaxWilds <- MCWithLimit
  Shifts <- MCShifts
  Garbled <- MCGarbled
  Strays <- MCStrays
SYMMETRY MCSymmetry
SPECIFICATION Spec
CHECK_DEADLOCK FALSE
INVARIANTS NoDuplicateRecords TotalNeverOverstated CountsNeverOverstated TimesAreGenuine WildReadLosesOneCrash
