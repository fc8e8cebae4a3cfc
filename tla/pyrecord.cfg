SPECIFICATION FairSpec
CONSTANTS
  Threads = {t1, t2}
  Archive = 1
  MaxActive = 2
  None = None
INVARIANTS ErrorsDoNotPoison FilterJudgesTheCurrent
PROPERTIES EveryCallReturns LeftAlone NextIsOneStep
CHECK_DEADLOCK FALSE
