SPECIFICATION FairSpec
CONSTANTS
  Capacity = 2
  HeaderSize = 2
  MaxPlain = 2
  MaxFragment = 3
  MaxCalls = 2
  Lengths = {0, 2}
  Buffers = {3}
  GarbageLengths = {0, 4}
  Closers <- Server
PROPERTY RecvEndsByTimeout
CHECK_DEADLOCK FALSE
