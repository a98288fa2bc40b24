SPECIFICATION FairSpec
CONSTANTS
  NBufs = 2
  MaxDmaTags = 2
  MaxEnqueued = 2
  MaxInFlight = 2
  DmaDepth = 1
  Srcs = {"r1", "r2"}
  SeqLimit <- TwoSources
  Messages <- MCMessages
  Requests <- MCRequests
  Reliable = TRUE
  MaxArrivals = 0
  DmaFaults = FALSE
  TimeoutSet = FALSE
  AnyTag = AnyTag
  NoBuf = NoBuf
  NoMsg = NoMsg
INVARIANTS
  TypeOK
  TagAccounting
  TagsInFlight
  HeaderAvailable
  HeldOnce
  NoSpareLost
PROPERTIES
  StoredEventually
CHECK_DEADLOCK FALSE
