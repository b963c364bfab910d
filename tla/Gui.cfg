SPECIFICATION Spec
CONSTANTS
  Senders = {"c1"}
  Monitors = {"m1"}
  Tasks = {"t1", "t2"}
  Workers = 1
  QueueSize = 1
  StreamSize = 1
  MaxRxEvents = 2
  MaxPresses = 3
  MaxFrames = 3
  MaxSends = 1
INVARIANTS TypeOK FramesOnce FedUnlessSwitched RunningHasThread
PROPERTIES WindowComesBack StoppedIperfEnds
CHECK_DEADLOCK FALSE
