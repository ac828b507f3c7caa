SPECIFICATION PureSpec
CONSTANTS
  t1 = t1
  t2 = t2
  t3 = t3
  NoThread = NoThread
  ServiceThreads <- Threads3
  Tuples <- TwoTuples
  Patterns <- TwoPatterns
  Commands <- Mixed
  MaxCommands = 4
CHECK_DEADLOCK FALSE
INVARIANTS
  Conservation
  InputRemoves
PROPERTIES
  ImplementsTupleSpace
  OutputCompletes
  WaitingReaderIsServed
