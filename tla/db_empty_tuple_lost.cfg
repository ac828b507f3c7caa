SPECIFICATION Spec
CONSTANTS
  t1 = t1
  t2 = t2
  t3 = t3
  NoThread = NoThread
  ServiceThreads <- Threads3
  Tuples <- WithEmpty
  Patterns <- PatternsOrEmpty
  Commands <- InputOutput
  MaxCommands = 4
CHECK_DEADLOCK FALSE
INVARIANT
  Conservation
