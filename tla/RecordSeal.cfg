SPECIFICATION Spec
CONSTANTS
  Lengths <- MCLengths
  HmacSizes <- MCHmacs
  RandomMax = 128
INVARIANTS TypeOK LengthOnWire RandomFresh PacksWholeBlocks
CHECK_DEADLOCK FALSE
