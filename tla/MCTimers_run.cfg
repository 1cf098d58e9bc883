SPECIFICATION FairSpec
CONSTANTS
  Timers = {t1, t2}
  Kinds <- SomeKinds
  End = End
  MaxTime = 3
INVARIANTS TypeOK NoneLost InOrder
PROPERTIES NeverEarly CatchesUp StopEnds EveryTimerFires
CHECK_DEADLOCK FALSE
