SPECIFICATION FairSpec
CONSTANTS
  Sizes = {1, 3}
  Rate = 2
  Second = 3
  Capacity = 3
  NoWait = NoWait
  Nowait = FALSE
  MaxLag = 2
  Boot = {1, 3}
  MaxTime = 20
  LastCall = 7
  MaxQueue = 3
INVARIANTS RateBound
PROPERTY EveryAcquireGranted
CHECK_DEADLOCK FALSE
