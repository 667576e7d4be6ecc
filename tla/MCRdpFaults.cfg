CONSTANTS
  SeqMod = 16
  Window = 2
  AckDelay = 1
  DelayedAcks = TRUE
  ConnQueue = 5
  MaxWindow = 2
  FastClose = FALSE
  IssOf <- WrapBoth
  MsgLimit <- ThreeSent
  NetCap = 1
  MaxFail = 1
  MaxReboot = 0
  Closers = {}
  ConnTimeouts = FALSE
SPECIFICATION Spec
INVARIANTS
  Custody
  RefusalIsTransient
PROPERTIES
  IsQueue
CHECK_DEADLOCK FALSE
