SPECIFICATION FairSpec
CONSTANTS
  Hashes <- MCHashes
  ResultSize <- MCResultSize
  Implemented = {"sha1", "sha256"}
  Lengths <- MCLengths
INVARIANTS FillsResult IsPHash
PROPERTY PrfReturns
CHECK_DEADLOCK FALSE
