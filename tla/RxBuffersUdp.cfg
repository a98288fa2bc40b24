SPECIFICATION Spec
CONSTANTS
  NBufs = 3
  MaxDmaTags = 2
  MaxEnqueued = 2
  MaxInFlight = 2
  DmaDepth = 1
  Srcs = {"r1"}
  SeqLimit <- OneSource
  Messages <- MCMessages
  Requests <- MCRequests
  Reliable = FALSE
  MaxArrivals = 3
  DmaFaults = TRUE
  TimeoutSet = TRUE
  AnyTag = AnyTag
  NoBuf = NoBuf
  NoMsg = NoMsg
INVARIANTS
  ChecksNeverFail
  HeaderMatchesPayload
PROPERTIES
  UnclaimedKept
  ClaimsInOrder
CHECK_DEADLOCK FALSE
