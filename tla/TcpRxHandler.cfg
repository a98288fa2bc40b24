SPECIFICATION FairSpec
CONSTANTS
  Limit = 4
  BackOff = 2
  FifoDepth = 2
  Lengths = {0, 1, 2}
  MaxNotis = 6
INVARIANTS
  TypeOK
  WithinLimit
  CountKept
PROPERTIES
  EverythingForwarded
CHECK_DEADLOCK FALSE
