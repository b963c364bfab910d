\* Frames on both bands, configurations that tune to either, and the threads' fairness.
SPECIFICATION FairSpec
CONSTANTS
  first = first
  second = second
  refused = refused
  Configs = {first, second, refused}
  BandOf <- OneOfEach
  Valid = {first, second}
  Start = first
  Heard = {"09", "24"}
  Tries = 2
  Frames = 2
  MaxEdges = 2
  MaxRequests = 2
INVARIANTS TypeOK NoLostInterrupt NoStaleFlag PublishedInOrder
PROPERTIES TransmitRestoresReceiver LatestFramePublished
