SPECIFICATION FairSpec
CONSTANTS
  Cell <- MixedArchive
  N <- MixedN
  Quirks = FALSE
  MaxLimit = 40
  Options <- FreshOptions
  Threaded = TRUE
  ClientOps = {"read", "seek", "consume", "freeze", "parse_http", "verify", "replace_consumed", "write"}
  MaxFaults = 1
INVARIANTS TypeOK Aligned
PROPERTIES HandsOutTheArchive UntouchedIsWrittenExactly Ends
CHECK_DEADLOCK FALSE
