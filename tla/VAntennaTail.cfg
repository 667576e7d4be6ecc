CONSTANTS
  Program <- Both
  Peer <- Other
  Address <- OddAndEven
  Files <- WithTail
  Lines <- NoLines
  SendLimit <- TwoAndOne
  BufferSize = 3
  PipeSize = 5
  MaxFail = 0
SPECIFICATION Spec
INVARIANTS
  Intact
CHECK_DEADLOCK FALSE
