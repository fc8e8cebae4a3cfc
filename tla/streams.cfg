SPECIFICATION FairSpec
CONSTANTS
  Codecs = {"gzip", "zstd", "lz4", "brotli", "chunked"}
  MaxUnits = 4
  MaxTape = 6
  MaxWrite = 2
  MinChunk = 2
  Capacity = 3
  MaxOut = 2
  SeeksChunks = FALSE
INVARIANTS
  WritesAll
  InOrder
  EndOfData
  ErrorsOnlyIfCut
  FrameStartOk
PROPERTIES
  FillReturns
CHECK_DEADLOCK FALSE
