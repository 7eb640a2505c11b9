SPECIFICATION StreamsSpec
CONSTANTS
  Bytes = {0, 1}
  Delimiter = 1
  BufferSize = 2
  ChunkSize = 2
  Want = 3
  MaxPut = 5
  MaxFailures = 2
INVARIANTS StreamRight LinesRight
PROPERTIES ReadsToTheEnd LoopsEnd
CHECK_DEADLOCK FALSE
