SPECIFICATION PrimitivesSpec
CONSTANTS
  Bits = 4
  Reduction = {0, 1}
  SBox <- MCSBox
  Rounds = 3
  AesInputs <- MCAesInputs
  GhashBits = 4
  GhashReduction = {0, 1}
  BlockBytes = 4
  NonceBytes = 3
  MaxBlocks = 4
  HashBlockSize = 4
  LengthBytes = 1
  ResultSize <- MCResultSize
INVARIANTS DecryptsUpToKey GhashMultiplies HmacIsRfc2104 CbcChains CtrMasks TagBinds
CHECK_DEADLOCK FALSE
