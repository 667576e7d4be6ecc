CONSTANTS
  SeqMod = 16
  Window = 1
  AckDelay = 1
  DelayedAcks = TRUE
  ConnQueue = 5
  MaxWindow = 4
  FastClose = FALSE
  IssOf <- WrapBoth
  MsgLimit <- ThreeSent
  NetCap = 2
  MaxFail = 0
  MaxReboot = 0
  Closers = {"client", "server"}
  ConnTimeouts = FALSE
SPECIFICATION Spec
PROPERTIES
  InSequenceRstCloses
CHECK_DEADLOCK FALSE
