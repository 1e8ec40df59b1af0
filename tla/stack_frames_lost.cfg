\* Both unwinders, as the program is built.
SPECIFICATION Spec
CONSTANTS
  Modulus = 40
  Depth = 4
  Builds <- AsBuilt
  Below = 3
  Page = 4
  Line = 2
  Processes <- MCProcesses
  Callers <- MCCallers
  MayVanish = FALSE
INVARIANT DumpReachesFrames
CHECK_DEADLOCK FALSE
