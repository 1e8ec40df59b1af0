CONSTANTS
  a = a
  b = b
  c = c
  long = long
  longCut = longCut
  myApp = myApp
  my = my
  app = app
  empty = empty
  other = other
  MaxRecs = 2
  MaxLast = 2
  Texts <- MCTexts
  NoName = empty
  OtherText = other
  Cut <- MCCut
  Words <- MCWords
  Handlers = {h1}
  Names = {a, b, c}
  Limits = {1}
  MaxCrashes <- MCFour
  MaxTime <- MCThree
  MaxFaults <- MCNone
  MaxBadWrites <- MCNone
  MaxWilds <- MCNone
  Shifts <- MCSteady
  Garbled <- MCGarbled
  Strays <- MCStrays
SPECIFICATION Spec
CHECK_DEADLOCK FALSE
PROPERTIES EvictsOldest
