SPECIFICATION FairSpec
CONSTANTS
  t1 = t1
  t2 = t2
  m1 = m1
  Guards = {t1, t2, m1}
  Classes = {"TimeGuard", "MemGuard"}
  Class <- ClassOf
  Signals <- SignalsOf
  Threads = {main, worker}
  Main = main
  Loops = {l1, l2}
  MemGuards = {"MemGuard"}
  MaxDepth = 2
  None = None
INVARIANTS RegisteredForAReason NotNested NoLateInterrupt
PROPERTIES NoRevival LeavingEnds
CHECK_DEADLOCK FALSE
