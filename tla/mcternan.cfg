\* Every program of the given instructions, up to the bounds.
SPECIFICATION Spec
CONSTANTS
  Bits = 20
  HashSize = 3
  Images <- MCImages
  Garbage <- MCGarbage
  MaxInstr = 4
  MaxFrames = 3
INVARIANTS TrackedIsTrue StackIsTrue StoredWordsAreFound
PROPERTIES ReportsAreReturns ComesNearer UnwindEnds
CHECK_DEADLOCK FALSE
