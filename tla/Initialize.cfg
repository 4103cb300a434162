SPECIFICATION Spec
CONSTANTS
  Threads = {t1, t2, t3}
  NoThread = NoThread
  Calls = 2
INVARIANTS
  TypeOK
  InitializedOnce
  CommandsComeLast
PROPERTY
  CallsReturn
CHECK_DEADLOCK FALSE
