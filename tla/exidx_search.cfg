\* Every table of up to four entries, sorted or not, and every address.
SPECIFICATION MappedSpec
CONSTANTS
  Modulus = 8
  EntrySize = 1
  Back = 2
  Files <- MCFiles
  Ranges <- MCRanges
INVARIANTS ReadsInTable AnswerIsRight FindsTheFunction SearchesOwnMapping ListIsOfProcess
PROPERTIES SearchEnds ImplementsSearch
CHECK_DEADLOCK FALSE
