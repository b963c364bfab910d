SPECIFICATION Spec
CONSTANTS
  Senders = {"c1"}
  Monitors = {"m1"}
  Tasks = {"t1", "t2"}
  Workers = 1
  QueueSize = 1
  StreamSize = 1
  MaxRxEvents = 2
  MaxPresses = 3
  MaxFrames = 0
  MaxSends = 1
PROPERTY WindowResponsive
CHECK_DEADLOCK FALSE
