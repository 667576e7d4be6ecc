CONSTANTS
  SeqMod = 8
  Window = 1
  AckDelay = 1
  DelayedAcks = TRUE
  ConnQueue = 3
  MaxWindow = 3
  FastClose = FALSE
  IssOf <- SmallWrap
  MsgLimit <- OneSent
  NetCap = 1
  MaxFail = 0
  MaxReboot = 0
  Closers = {"client", "server"}
  ConnTimeouts = TRUE
SPECIFICATION FairSpec
PROPERTIES
  ClosedSlotReturns
CHECK_DEADLOCK FALSE
