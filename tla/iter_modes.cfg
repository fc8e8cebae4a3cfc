SPECIFICATION Spec
CONSTANTS
  Cell <- CodedArchive
  N <- CodedN
  Quirks = TRUE
  MaxLimit = 40
  Options <- ModesOptions
  Threaded = TRUE
  ClientOps = {"read", "seek", "consume", "parse_http"}
  MaxFaults = 1
PROPERTIES HandsOutTheArchive ConsumeTakesTheRest
CHECK_DEADLOCK FALSE
