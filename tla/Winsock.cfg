SPECIFICATION Spec
CONSTANTS
  Sockets <- MCSockets
  SizeValues = 4
  MaxOpens = 6
INVARIANTS TypeOK CountsAgree
PROPERTY KeptSocketsAreUp
CHECK_DEADLOCK FALSE
