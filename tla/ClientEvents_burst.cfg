\* A burst longer than the peer's channel against radio.rs:96.
SPECIFICATION FairSpec
CONSTANTS
  Count = 4
  PeerCap = 2
  ClientCap = 4
  ModuleCap = 4
PROPERTIES LatestFrameYielded
CHECK_DEADLOCK FALSE
