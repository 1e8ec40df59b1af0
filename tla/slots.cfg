\* Handlers that search at once, with failures and kills.
SPECIFICATION Spec
CONSTANTS
  Handlers = {h1, h2}
  MaxReports = 2
  PipeLimit = 0
  MaxCrashes = 4
  MaxTime = 1
  MaxFaults = 2
INVARIANTS SlotsAreExclusive FirstCrashesAreReported
PROPERTIES ReportsAreKept HandlersFinish ImplementsClaims
CHECK_DEADLOCK FALSE
