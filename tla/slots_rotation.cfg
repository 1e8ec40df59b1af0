CONSTANTS
  Handlers = {h1}
  MaxReports = 2
  PipeLimit = 1
  MaxCrashes = 4
  MaxTime = 3
  MaxFaults = 0
SPECIFICATION Spec
CHECK_DEADLOCK FALSE
PROPERTIES ClobbersOldest
