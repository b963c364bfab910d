\* Duplicates, loss and reordering; the clock may be set back.
SPECIFICATION Spec
CONSTANTS
  m1 = m1
  m2 = m2
  m3 = m3
  Messages = {m1, m2}
  SegCount <- ShortSegCount
  R = 2
  Q = 2
  TxR = 3
  Timeout = 1
  MaxCopies = 2
  MaxTime = 2
  MayCorrupt = FALSE
  ClockSteps = TRUE
SYMMETRY Symmetry
INVARIANTS TypeOK DeliveredWhole NoBacklog DeliveriesPaidFor
CHECK_DEADLOCK FALSE
