SPECIFICATION PartsSpec
CONSTANTS
  R = 15
  SegmentSize = 3
  Buffers = 15
  Lengths <- AllLengths
  SeqValues = 16
  LenValues = 4
  MinHwLen = 2
  SendChunk = 3
  MaxLen = 7
  MaxFaults = 2
  Kernels = {"right", "other", "restarting", "sticky"}
  Count = 5
  PeerCap = 3
  ClientCap = 1
  ModuleCap = 1
  Clients = {"c1"}
  KeepaliveIdle = 3
  ClientTimeout = 12
  CleanupPeriod = 3
  MaxLosses = 4
  MaxRestarts = 2
  MaxSends = 3
  MaxStrays = 1
  MaxDamage = 1
  InboxCap = 1
  Servers = {"a", "b"}
  FirstServer = "a"
  CmdCap = 2
  EvtCap = 1
  MaxKeys = 2
  MaxItems = 2
  Sizes <- SmallSizes
  PowerMax = 1
  MaxModules = 2
  MaxCompose = 1
INVARIANTS PartsTypeOK Demultiplexed ChecksumsRight MessagesAccountedFor
INVARIANTS RegistryRight ResultsHold ShownAsItIs FormInOrder
PROPERTIES YieldedUnlessDeaf ListenersReturn TuiGoesOn
CHECK_DEADLOCK FALSE
