SPECIFICATION Spec
CONSTANTS
  BlockBytes = 4
  NonceBytes = 3
  IvBytes = 1
  SeqBytes = 1
  RandomMax = 4
  RandomValues = {0, 1}
  Lengths <- MCLengths
  BlockLengths <- MCBlockLengths
  HmacSizes <- MCHmacSizes
  Pads <- MCPads
INVARIANTS MacInside MasksShared
CHECK_DEADLOCK FALSE
