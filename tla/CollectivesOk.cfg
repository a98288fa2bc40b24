SPECIFICATION EngineSpec
CONSTANTS
  Size = 3
  Scripts <- MCScripts
  Program <- CollectiveProgram
  TxnSize = 3
  WordSize = 2
  MaxInFlight = 2
  NBufs = 4
  Window = 1
  MemSize = 13
  TxPort = "TCP_TX"
  Nobody = Nobody
  OperandWidth = 4
INVARIANTS
  ResultsRight
  ArithCount
  NothingLeft
PROPERTIES
  SwitchQuiet
  CallsReturn
CHECK_DEADLOCK FALSE
