SPECIFICATION HostSpec
CONSTANTS
  NWords = 3
  CmdDepth = 2
  StsDepth = 1
  Ranks = {0, 1, 2}
  Local = 0
  Addr <- MCAddr
  ConDepth = 2
  RespDepth = 2
  Kinds = {"work", "irq_on", "irq_off", "reset", "open_port", "open_con", "init_connection"}
  MaxCalls = 2
  MaxErrors = 1
INVARIANTS
  OwnAnswer
  ConnectionsSettled
  SessionsRight
PROPERTIES
  CallsAnswered
CHECK_DEADLOCK FALSE
