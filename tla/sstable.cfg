SPECIFICATION TableSpec
CONSTANTS
  Keys <- MCKeys
  Values <- MCValues
  BlockSize = 8
  FlushSize = 7
  MaxBlockSize = 100
  MaxFailures = 2
INVARIANTS ScanRight LookupRight
CHECK_DEADLOCK FALSE
