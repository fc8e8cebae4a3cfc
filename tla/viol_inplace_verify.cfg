SPECIFICATION Spec
CONSTANTS
  Cell <- SoundArchive
  N <- SoundN
  Quirks = FALSE
  MaxLimit = 40
  Options <- InplaceVerify
  Threaded = FALSE
  ClientOps = {}
  MaxFaults = 0
INVARIANTS EndsAtTheEnd
CHECK_DEADLOCK FALSE
