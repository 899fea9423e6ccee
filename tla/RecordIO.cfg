SPECIFICATION Spec
CONSTANTS
  Capacity = 3
  HeaderSize = 2
  MaxPlain = 2
  MaxFragment = 3
  MaxCalls = 2
  Lengths <- MCLengths
  Buffers <- MCBuffers
  GarbageLengths <- MCGarbage
  Closers <- Server
INVARIANTS TypeOK RecvFitsBuffer InOrderWhileInSync NeverReplayed SendReportsTruth
PROPERTY ImplementsChannel
CHECK_DEADLOCK FALSE
