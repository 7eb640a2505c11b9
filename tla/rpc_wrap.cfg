SPECIFICATION Spec
CONSTANTS
  None = None
  Ids = {i1}
  Keys = {zero}
  ZeroKey = zero
  FragmentSize = 2
  OffsetModulus = 4
  MaxDelay = 1
  Methods <- MCPings
  Bodies <- MCBodies
  Timeouts = {3}
  InitialRetry = 1
  NumChannels = 1
  Ping <- MCPing
  List <- MCList
  Listing <- MCListing
  WellFormed <- MCWellFormed
  Handlers <- MCHandlers
  Responses <- MCResponses
  KeepAlive = 4
  MaxSends = 0
  Punctual = TRUE
  MaxElapsed = 4
INVARIANT PingEchoes
