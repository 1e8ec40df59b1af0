\* Entries of every kind, and those of a set of function prologues.
SPECIFICATION Spec
CONSTANTS
  Modulus = 256
  Ucb = 9
  Machines <- MCMachines
INVARIANTS ReadsDeclaredWords RestoresCaller
PROPERTY FrameEnds
CHECK_DEADLOCK FALSE
