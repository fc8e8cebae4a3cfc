SPECIFICATION Spec
CONSTANTS
  Cell <- TwiceCodedArchive
  N <- TwiceCodedN
  Quirks = FALSE
  MaxLimit = 40
  Options <- DecodeAll
  Threaded = FALSE
  ClientOps = {"read"}
  MaxFaults = 0
INVARIANTS EndsAtTheEnd
CHECK_DEADLOCK FALSE
