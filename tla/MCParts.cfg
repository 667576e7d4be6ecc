\* Every part may stop: what is sent is bounded.
CONSTANTS
  Mtu = 2
  BlobSize <- BlobSizes
  LinkCap = 3
  SfpMaxLoss = 2
  SfpMaxFail = 2
  KissTasks = {t1, t2}
  KissPacket <- KissPackets
  MaxRxLength = 4
  WireCap = 2
  KissMaxNoise = 2
  KissMaxNoBuffer = 1
  CanTasks = {"a1", "a2", "b"}
  CanNode <- CanNodes
  CanLength <- CanLengths
  IdMod = 2
  Elements = 2
  DataSize = 10
  CanMaxFaults = 2
  HostSize = 2
  Own = 1
  Ifaces = {"x", "y"}
  MaxRoutes = 3
  TextMax = 18
  Spelled <- RouteNames
  Clients = {"a", "b"}
  Pri <- SamePri
  Calls <- NumCalls
  Buffers = {1, 2}
  FifoLength = 2
  Slots = 3
  QueueLength = 3
  Backlog = 1
  ServerPort = 1
  PortMax = 3
  NetLinks = {"x", "y"}
  Attached <- NetAttached
  Bridges = {4}
  Route <- NetRoutes
  NetPacket <- NetTraffic
  Everyone = 31
  NoLink = "none"
  DedupCount = 2
  MaxLost = 1
  MaxExpired = 1
  MsgLength <- LineLengths
  HeaderSize = 2
  PacketSize = 4
  ClientBuffers = 3
  ServerBuffers = 2
  PipeSize = 7
  MaxPending = 1
SPECIFICATION Spec
INVARIANTS
  BlobsIntact
  BlobsResync
  KissResync
  CanIntact
  CanDelivers
  FindIsLongestPrefix
  StaticAgrees
  ReloadKeepsRoutes
  BufferHeldOnce
  SlotOneOwner
  FifoWakes
  ReplyIsOwn
  AcceptedOnce
  NetDelivers
  UartIntact
  UartResync
PROPERTIES
  KissIsLossyQueue
  PoolRefills
  DiesOut
CHECK_DEADLOCK FALSE
