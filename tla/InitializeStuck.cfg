SPECIFICATION Spec
CONSTANTS
  Threads = {t1, t2, t3}
  NoThread = NoThread
  Calls = 2
PROPERTY
  EveryCallReturns
CHECK_DEADLOCK FALSE
