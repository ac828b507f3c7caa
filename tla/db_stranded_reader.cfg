SPECIFICATION Spec
CONSTANTS
  t1 = t1
  t2 = t2
  t3 = t3
  NoThread = NoThread
  ServiceThreads <- Threads3
  Tuples <- OneTuple
  Patterns <- AnyPattern
  Commands <- ReadOutput
  MaxCommands = 4
CHECK_DEADLOCK FALSE
INVARIANT
  NoStrandedWaiter
