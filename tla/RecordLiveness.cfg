SPECIFICATION FairSpec
CONSTANTS
  Capacity = 3
  HeaderSize = 2
  MaxPlain = 2
  MaxFragment = 3
  MaxCalls = 2
  Lengths = {0, 2}
  Buffers = {3}
  GarbageLengths = {0, 4}
  Closers = {}
PROPERTY CallsReturn
CHECK_DEADLOCK FALSE
