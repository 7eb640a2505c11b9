SPECIFICATION Spec
CONSTANTS
  Sizes = {0, 1, 3}
  Rate = 2
  Second = 3
  Capacity = 2
  NoWait = NoWait
  Nowait = TRUE
  MaxLag = 3
  Boot = {1, 3}
  MaxTime = 8
  LastCall = 8
  MaxQueue = 2
INVARIANTS Ledger WaitMatchesQueue
CHECK_DEADLOCK FALSE
