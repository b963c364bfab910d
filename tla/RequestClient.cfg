\* Dropped requests, cancellation, and the clock set both ways, or none of it.
SPECIFICATION FairSpec
CONSTANTS
  r1 = r1
  r2 = r2
  r3 = r3
  Draws <- ThreeDraws
  Q = 2
  Timeouts = {1, 2}
  MaxTimeout = 2
  Steps <- BothWays
INVARIANTS TypeOK KeepsItsSlot NeverBusy
PROPERTIES AnswersItsRequest EveryRequestEnds
CHECK_DEADLOCK FALSE
