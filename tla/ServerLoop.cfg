\* Every channel may fill and every broadcast channel lag.
SPECIFICATION FairSpec
CONSTANTS
  Frames = 3
  Requests = 3
  RadioCap = 2
  ClientCap = 1
  PeerRxCap = 1
  PeerTxCap = 1
INVARIANTS TypeOK NothingLostButByLag
PROPERTIES LatestFrameSent LatestRequestAnswered
