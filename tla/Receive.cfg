SPECIFICATION RecvFairSpec
CONSTANTS
  NBufs = 2
  MaxDmaTags = 2
  MaxEnqueued = 2
  MaxInFlight = 2
  DmaDepth = 1
  Srcs = {"r1"}
  Lengths <- SixSegments
  Messages <- MCMessages
  Requests <- MCRequests
  Reliable = TRUE
  MaxArrivals = 0
  DmaFaults = TRUE
  TimeoutSet = TRUE
  AnyTag = AnyTag
  NoBuf = NoBuf
  NoMsg = NoMsg
  Calls <- FiveBytes
  MaxCalls = 2
  TxnSize = 2
  TagMod = 4
INVARIANTS
  QuietDataReturned
  CopiedBeforeFree
PROPERTIES
  BuffersSpec
  ReceiveReturns
CHECK_DEADLOCK FALSE
