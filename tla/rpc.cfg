SPECIFICATION FairSpec
CONSTANTS
  None = None
  Ids = {i1}
  Keys = {zero, k2}
  ZeroKey = zero
  FragmentSize = 2
  OffsetModulus = 16
  MaxDelay = 1
  Methods <- MCMethods
  Bodies <- MCBodies
  Timeouts = {0, 3}
  InitialRetry = 1
  NumChannels = 2
  Ping <- MCPing
  List <- MCList
  Listing <- MCListing
  WellFormed <- MCWellFormed
  Handlers <- MCHandlers
  Responses <- MCResponses
  KeepAlive = 4
  MaxSends = 2
  Punctual = TRUE
  MaxElapsed = 4
INVARIANTS ExecutedAsAsked AnswerIsHandlers CallbackHasResult AtMostOnce AnsweredInTime
PROPERTIES EveryRequestAnswered ServerForgets
