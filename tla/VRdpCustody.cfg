CONSTANTS
  SeqMod = 16
  Window = 2
  AckDelay = 1
  DelayedAcks = TRUE
  ConnQueue = 5
  MaxWindow = 4
  FastClose = FALSE
  IssOf <- WrapClient
  MsgLimit <- SixSent
  NetCap = 1
  MaxFail = 0
  MaxReboot = 0
  Closers = {}
  ConnTimeouts = FALSE
SPECIFICATION Spec
INVARIANTS
  Custody
