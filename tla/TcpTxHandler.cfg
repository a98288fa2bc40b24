SPECIFICATION TxSpec
CONSTANTS
  Messages <- MCMessages
  WordBytes = 2
  MaxPkgWord = 2
  FifoDepth = 2
  MaxRefused = 3
  TearsDown = TRUE
INVARIANTS
  PacketsCut
PROPERTIES
  WrittenAsAgreed
  MessagesSent
CHECK_DEADLOCK FALSE
