CONSTANTS
  SeqMod = 16
  Window = 2
  AckDelay = 1
  DelayedAcks = FALSE
  ConnQueue = 5
  MaxWindow = 4
  FastClose = FALSE
  IssOf <- WrapBoth
  MsgLimit <- ThreeSent
  NetCap = 2
  MaxFail = 0
  MaxReboot = 0
  Closers = {}
  ConnTimeouts = FALSE
SPECIFICATION Spec
INVARIANTS
  TypeOK
  Custody
  WithinReceiveWindow
PROPERTIES
  IsQueue
