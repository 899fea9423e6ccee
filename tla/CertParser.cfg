SPECIFICATION Spec
CONSTANTS
  SizeBytes = 2
  Certs <- MCCerts
  Garbage <- MCGarbage
  Reach = 15
INVARIANT SignatureSaved
CHECK_DEADLOCK FALSE
