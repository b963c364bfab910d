\* Three messages, one too long for the receiver, loss and damage, no duplicates.
SPECIFICATION Spec
CONSTANTS
  m1 = m1
  m2 = m2
  m3 = m3
  Messages = {m1, m2, m3}
  SegCount <- LongSegCount
  R = 2
  Q = 2
  TxR = 3
  Timeout = 1
  MaxCopies = 1
  MaxTime = 2
  MayCorrupt = TRUE
  ClockSteps = FALSE
SYMMETRY Symmetry
PROPERTIES LastSegmentDelivers DeliversMessages
CHECK_DEADLOCK FALSE
