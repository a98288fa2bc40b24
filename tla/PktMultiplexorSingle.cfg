SPECIFICATION MuxSpec
CONSTANTS
  Sessions = {"a", "b"}
  Messages <- MCMessages
  NumStreams = 2
  FifoDepth = 2
PROPERTIES
  FullMessageMarked
CHECK_DEADLOCK FALSE
