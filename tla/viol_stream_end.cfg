SPECIFICATION FairSpec
CONSTANTS
  Codecs = {"gzip"}
  MaxUnits = 2
  MaxTape = 6
  MaxWrite = 1
  MinChunk = 2
  Capacity = 3
  MaxOut = 2
  SeeksChunks = FALSE
INVARIANTS
  EndIsTheEnd
CHECK_DEADLOCK FALSE
