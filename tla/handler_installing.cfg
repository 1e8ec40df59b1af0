\* Processes crash while the handler is being installed, and installed again.
SPECIFICATION Spec
CONSTANTS
  Processes = {p1, p2}
  MaxFaults = 1
  MaxInstalls = 2
  Installed = FALSE
INVARIANTS CrashesAreRecorded ReportsAreComplete LimitedHandlersAreAlone
PROPERTY ProcessesGoAway
CHECK_DEADLOCK FALSE
