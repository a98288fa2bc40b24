SPECIFICATION SendFairSpec
CONSTANTS
  Dsts = {"r1", "r2"}
  Calls <- TwoDsts
  MaxCalls = 3
  TxnSize = 3
  MaxInFlight = 2
  WordSize = 2
  TagMod = 4
  StreamDepth = 1
  TimeoutSet = TRUE
  DmaFaults = TRUE
  NoPkt = NoPkt
INVARIANTS
  SegmentsIntact
  NothingLeft
  AckMeansSent
PROPERTIES
  NumberedInOrder
  SendReturns
CHECK_DEADLOCK FALSE
