CONSTANTS
  SeqMod = 8
  Window = 1
  AckDelay = 1
  DelayedAcks = TRUE
  ConnQueue = 3
  MaxWindow = 3
  FastClose = TRUE
  IssOf <- SmallReboot
  MsgLimit <- OneSent
  NetCap = 1
  MaxFail = 1
  MaxReboot = 1
  Closers = {"server"}
  ConnTimeouts = TRUE
SPECIFICATION Spec
INVARIANTS
  InOrderOnce
  SlotInv
CHECK_DEADLOCK FALSE
