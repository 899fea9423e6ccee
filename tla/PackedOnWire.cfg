SPECIFICATION Spec
CONSTANTS
  Lengths <- MCLengths
  HmacSizes <- Sha1
  RandomMax = 128
INVARIANT PackedOnWire
CHECK_DEADLOCK FALSE
