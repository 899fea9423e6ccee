SPECIFICATION Spec
CONSTANTS
  ByteBits = 2
  Moduli <- MCModuli
  Messages <- MCMessages
  Exponents <- MCExponents
  MaxCalls = 2
INVARIANTS TypeOK PoolSuffices ArithmeticHolds BuffersApart LadderHolds ExpIsPower
CHECK_DEADLOCK FALSE
