SPECIFICATION TimedSpec
CONSTANTS
  Timers = {t1, t2, t3, r}
  Run = r
  Duration = 2
  NoWait = NoWait
  MaxTime = 5
  MaxReady = 3
INVARIANTS HandlesValid NoLostWakeup NeverEarly
PROPERTIES ImplementsService RunEnds
CHECK_DEADLOCK FALSE
