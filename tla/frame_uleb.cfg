\* Any instruction sequence, among them those cut off within a ULEB128.
SPECIFICATION Spec
CONSTANTS
  Modulus = 16
  Ucb = 9
  Machines <- AllMachines
PROPERTY FrameEnds
CHECK_DEADLOCK FALSE
