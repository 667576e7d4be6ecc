CONSTANTS
  SeqMod = 8
  Window = 1
  AckDelay = 1
  DelayedAcks = FALSE
  ConnQueue = 3
  MaxWindow = 3
  FastClose = FALSE
  IssOf <- SmallWrap
  MsgLimit <- OneSent
  NetCap = 2
  MaxFail = 0
  MaxReboot = 0
  Closers = {"client", "server"}
  ConnTimeouts = TRUE
SPECIFICATION Spec
INVARIANTS
  PeerCloseIsTold
  NoGhostAccept
PROPERTIES
  ReleasedOnlyWhenUnused
CHECK_DEADLOCK FALSE
