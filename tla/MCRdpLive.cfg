CONSTANTS
  SeqMod = 8
  Window = 1
  AckDelay = 1
  DelayedAcks = TRUE
  ConnQueue = 3
  MaxWindow = 3
  FastClose = FALSE
  IssOf <- SmallWrap
  MsgLimit <- TwoSent
  NetCap = 2
  MaxFail = 0
  MaxReboot = 0
  Closers = {}
  ConnTimeouts = FALSE
SPECIFICATION FairSpec
PROPERTIES
  EventuallyRead
