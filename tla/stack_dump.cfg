\* Both builds, all stacks, processes that may vanish.
SPECIFICATION Spec
CONSTANTS
  Modulus = 40
  Depth = 4
  Builds <- MCBuilds
  Below = 3
  Page = 4
  Line = 2
  Processes <- MCAllProcesses
  Callers <- MCCallers
  MayVanish = TRUE
INVARIANTS TypeOK ListIndexesInBounds FramesAreLabelled
PROPERTY DumpEnds
CHECK_DEADLOCK FALSE
