SPECIFICATION EngineSpec
CONSTANTS
  Size = 5
  Scripts <- OneOperand
  Program <- CollectiveProgram
  TxnSize = 3
  WordSize = 2
  MaxInFlight = 2
  NBufs = 3
  Window = 1
  MemSize = 6
  TxPort = "TCP_TX"
  Nobody = Nobody
  OperandWidth = 4
INVARIANTS
  AllReduceCovers
CHECK_DEADLOCK FALSE
