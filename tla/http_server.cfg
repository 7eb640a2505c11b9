SPECIFICATION FairSpec
CONSTANTS
  Connections = {c1, c2}
  Duration = 2
INVARIANT TimerGuards
PROPERTY ReadsAndWritesEnd
