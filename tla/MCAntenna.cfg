CONSTANTS
  Program <- Both
  Peer <- Other
  Address <- OddAndEven
  Files <- WholeBlocks
  Lines <- LinesBack
  SendLimit <- TwoAndOne
  BufferSize = 3
  PipeSize = 5
  MaxFail = 2
SPECIFICATION FairSpec
INVARIANTS
  NeverShort
  OpenNeverDeadlocks
  Intact
PROPERTIES
  EveryFileArrives
CHECK_DEADLOCK FALSE
