SPECIFICATION OpSpec
CONSTANTS
  ByteBits = 2
  MaxBytes = 3
  Operations = {"compare", "mul", "dec", "div", "divu8", "shift", "mod2pow"}
INVARIANTS Multiplies Subtracts Divides Shifts KeepsLowBits
CHECK_DEADLOCK FALSE
