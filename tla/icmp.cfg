SPECIFICATION FairSpec
CONSTANTS
  MaxRequests = 4
  SequenceModulus = 2
  Duration = 2
  None = None
  MaxTime = 5
INVARIANTS CallbackOnce OperationsTracked
PROPERTY EveryRequestEnds
CHECK_DEADLOCK FALSE
