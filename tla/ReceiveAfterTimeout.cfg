SPECIFICATION RecvSpec
CONSTANTS
  NBufs = 2
  MaxDmaTags = 2
  MaxEnqueued = 2
  MaxInFlight = 2
  DmaDepth = 1
  Srcs = {"r1"}
  Lengths <- TwoOfOne
  Messages <- MCMessages
  Requests <- MCRequests
  Reliable = TRUE
  MaxArrivals = 0
  DmaFaults = FALSE
  TimeoutSet = TRUE
  AnyTag = AnyTag
  NoBuf = NoBuf
  NoMsg = NoMsg
  Calls <- TwoCalls
  MaxCalls = 2
  TxnSize = 1
  TagMod = 4
INVARIANTS
  DataReturned
CHECK_DEADLOCK FALSE
