SPECIFICATION MuxSpec
CONSTANTS
  Sessions = {"a", "b"}
  Messages <- MCMessages
  NumStreams = 2
  FifoDepth = 2
INVARIANTS
  EntriesAccounted
PROPERTIES
  OneMessagePerDest
  LastMarked
  AllForwarded
CHECK_DEADLOCK FALSE
